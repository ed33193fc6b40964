------------------------------ MODULE Weather ------------------------------
(***************************************************************************)
(* The weather.gov service module: a place, given as coordinates or as a   *)
(* ZIP code looked up in a table, is turned into a forecast address and a  *)
(* list of nearby stations, and observations and forecasts are fetched in  *)
(* turn.  When the weather is idle, or the ZIP is unknown, a newer table   *)
(* is looked for.                                                          *)
(*                                                                         *)
(* One request is under way at a time and ends in a later step; settings   *)
(* may change meanwhile.  Points in time are kept as the ticks left until  *)
(* they come.  Temperatures, icons, names and wording are left out.        *)
(***************************************************************************)
EXTENDS Integers, FiniteSets, FiniteSetsExt, Clock

CONSTANTS
    Places,        \* coordinates
    Nowhere,       \* no coordinates, or a ZIP that is not in the table
    Zips,          \* ZIP codes
    NoZip,         \* no ZIP code
    WX_NST,        \* nearby stations asked for
    WX_POINTS_S,   \* until the next day
    WX_RETRY_S,    \* after a request that failed
    WX_FORECAST_S, \* between two forecasts
    WX_ZCTA_RETRY, \* after the table's server was out of reach
    ObsPeriods,    \* poll_interval_s
    Days           \* zip_update_days, 0 to never look for a newer table

ASSUME WxAssumption ==
    /\ {WX_NST, WX_POINTS_S, WX_RETRY_S, WX_FORECAST_S, WX_ZCTA_RETRY} \subseteq Nat
    /\ ObsPeriods \subseteq Nat /\ \E longest \in ObsPeriods : \A p \in ObsPeriods : longest >= p
    /\ Days \subseteq Nat /\ \E longest \in Days : \A d \in Days : longest >= d

VARIABLES
    wx,     \* the module's context, wx_ctx_t
    table,  \* the ZIP table zcta_pick chooses: where each ZIP is
    since   \* ticks since the check noted in zcta.meta, up to the longest of Days

wx_vars == <<wx, table, since>>

Tables == [Zips -> Places \union {Nowhere}]
Weather == {"points", "station", "obs", "forecast"}
WxRequests == Weather \union {"zcta_head", "zcta_get"}

----------------------------------------------------------------------------
(* Requests. *)

start_get(c, what, ok) ==
    IF ok THEN [c EXCEPT !.inflight = what, !.asked = c.at] ELSE c

wx_end_request(c) == [c EXCEPT !.inflight = "none", !.asked = Nowhere]

\* How long until the next check, from zcta.meta.
ZctaDue(days) == IF since >= days THEN 0 ELSE days - since

----------------------------------------------------------------------------
(* What each reply does: parse_points, parse_station, take_obs,
   parse_forecast.  asked is the place the request was for. *)

parse_points(c, asked) ==
    [c EXCEPT !.forecast_url = asked, !.nst = 0, !.next_points = WX_POINTS_S]

\* Wrong variant: the fall-back position of the old list is kept.
parse_station_kept(c, nearby) ==
    LET n == Min({nearby + (IF c.want_station THEN 1 ELSE 0), WX_NST + 1})
    IN IF n = 0 THEN [c EXCEPT !.next_station = WX_RETRY_S] ELSE [c EXCEPT !.nst = n]

\* The chosen station, if any, comes first; the list holds WX_NST + 1.
parse_station(c, nearby) ==
    LET n == Min({nearby + (IF c.want_station THEN 1 ELSE 0), WX_NST + 1})
    IN IF n = 0 THEN [c EXCEPT !.next_station = WX_RETRY_S]
                ELSE [c EXCEPT !.nst = n, !.st_try = 0]

MoreStations(c) == c.st_try + 1 < c.nst
NextStation(c) == [c EXCEPT !.st_try = @ + 1, !.next_obs = 0]

\* A poor observation (old, or without a temperature) sends the module to the
\* next station; after the last one the first is asked again.
take_obs(c, good) ==
    IF ~good /\ MoreStations(c) THEN NextStation(c)
    ELSE [c EXCEPT !.st_try = 0, !.next_obs = c.obs_every]

parse_forecast(c) == [c EXCEPT !.next_fc = WX_FORECAST_S]

\* The reply is understood.
Understood(c, what, asked) ==
    CASE what = "points"   -> {parse_points(c, asked)}
      [] what = "station"  -> {parse_station(c, n) : n \in 0 .. WX_NST + 1}
      [] what = "obs"      -> {take_obs(c, good) : good \in BOOLEAN}
      [] what = "forecast" -> {parse_forecast(c)}

\* The request failed, or the reply is not understood.
NotUnderstood(c, what) ==
    CASE what = "points"   -> [c EXCEPT !.next_points = WX_RETRY_S]
      [] what = "station"  -> [c EXCEPT !.next_station = WX_RETRY_S]
      [] what = "obs"      -> IF MoreStations(c) THEN NextStation(c)
                              ELSE [c EXCEPT !.next_obs = WX_RETRY_S]
      [] what = "forecast" -> [c EXCEPT !.next_fc = WX_RETRY_S]

\* finish, for the requests to weather.gov.
wx_finish(c) ==
    LET d == wx_end_request(c)
    IN Understood(d, c.inflight, c.asked) \union {NotUnderstood(d, c.inflight)}

----------------------------------------------------------------------------
(* The ZIP table. *)

\* resolve_zip: look the ZIP up, if it has not been.
resolve_zip(c, tab) ==
    IF c.have_loc \/ c.zip_missing \/ c.zip = NoZip THEN c
    ELSE IF tab[c.zip] = Nowhere THEN [c EXCEPT !.zip_missing = TRUE]
    ELSE LET d == [c EXCEPT !.at = tab[c.zip], !.have_loc = TRUE]
         IN IF tab[c.zip] = c.at THEN d
            ELSE [d EXCEPT !.forecast_url = Nowhere, !.nst = 0, !.next_points = 0]

start_zcta_check(c, ok) ==
    IF c.update_days = 0 \/ c.next_zcta > 0 THEN c
    ELSE IF ok THEN start_get(c, "zcta_head", TRUE)
    ELSE [c EXCEPT !.next_zcta = WX_ZCTA_RETRY]

\* start_next: what is due, most basic first.  While a failed lookup of the
\* place or of its stations is waited out, nothing else is asked.
start_next(c, tab, ok) ==
    LET d == resolve_zip(c, tab) IN
    IF ~d.have_loc THEN start_zcta_check(d, ok)
    ELSE IF d.forecast_url = Nowhere \/ d.next_points = 0
         THEN IF d.next_points > 0 THEN d ELSE start_get(d, "points", ok)
    ELSE IF d.nst = 0
         THEN IF d.next_station > 0 THEN d ELSE start_get(d, "station", ok)
    ELSE IF d.next_obs = 0 THEN start_get(d, "obs", ok)
    ELSE IF d.next_fc = 0 THEN start_get(d, "forecast", ok)
    ELSE start_zcta_check(d, ok)

----------------------------------------------------------------------------
(* The operations. *)

\* wx_open: coordinates win over a ZIP code; one of them is required.
wx_open(zip, at, days, every) ==
    [inflight |-> "none", asked |-> Nowhere,
     zip |-> IF at = Nowhere THEN zip ELSE NoZip,
     ll_given |-> at # Nowhere, have_loc |-> at # Nowhere, at |-> at,
     zip_missing |-> FALSE, update_days |-> days, next_zcta |-> ZctaDue(days), obs_every |-> every,
     forecast_url |-> Nowhere, want_station |-> FALSE, nst |-> 0, st_try |-> 0,
     next_points |-> 0, next_station |-> 0, next_obs |-> 0, next_fc |-> 0]

\* wx_step with nothing under way: start what is due.
StartNext(ok) ==
    wx.inflight = "none" /\ wx' = start_next(wx, table, ok) /\ UNCHANGED <<table, since>>
wx_step == \E ok \in BOOLEAN : StartNext(ok)

\* wx_step when weather.gov has answered, or has not within the timeout.
WeatherEnds ==
    /\ wx.inflight \in Weather
    /\ \E d \in wx_finish(wx), ok \in BOOLEAN : wx' = start_next(d, table, ok)
    /\ UNCHANGED <<table, since>>

\* finish_zcta.  A newer table is fetched when there is one; when the server
\* is out of reach the check is repeated soon.
ZctaUnreachable ==
    /\ wx.inflight \in {"zcta_head", "zcta_get"}
    /\ \E ok \in BOOLEAN :
           wx' = start_next([wx_end_request(wx) EXCEPT !.next_zcta = WX_ZCTA_RETRY], table, ok)
    /\ UNCHANGED <<table, since>>

ZctaNewer ==
    /\ wx.inflight = "zcta_head"
    /\ \/ wx' = start_get(wx_end_request(wx), "zcta_get", TRUE)
       \/ \E ok \in BOOLEAN :
              wx' = start_next([wx_end_request(wx) EXCEPT !.next_zcta = WX_ZCTA_RETRY], table, ok)
    /\ UNCHANGED <<table, since>>

\* The check is done: zcta_next_check.  The note of it may fail to be written.
CheckedUntil(c) == [c EXCEPT !.next_zcta = c.update_days]
NoteCheck == since' \in {0, since}

ZctaUpToDate ==
    /\ wx.inflight \in {"zcta_head", "zcta_get"}
    /\ \E ok \in BOOLEAN : wx' = start_next(CheckedUntil(wx_end_request(wx)), table, ok)
    /\ NoteCheck
    /\ UNCHANGED table

\* zcta_install: the new table replaces the old one in one rename, and the ZIP
\* is looked up in it again.  A table that cannot be unpacked, converted or
\* written leaves everything as it was (ZctaUpToDate).
ZctaInstall ==
    /\ wx.inflight = "zcta_get"
    /\ \E new \in Tables, ok \in BOOLEAN :
          /\ table' = new
          /\ wx' = start_next(CheckedUntil([wx_end_request(wx) EXCEPT
                        !.have_loc = @ /\ wx.zip = NoZip, !.zip_missing = FALSE]), new, ok)
    /\ NoteCheck

\* wx_put_settings.  A document that is refused has changed the poll interval.
PutRefused ==
    /\ \E every \in ObsPeriods : wx' = [wx EXCEPT !.obs_every = every]
    /\ UNCHANGED <<table, since>>

\* The settings as they will be: what a document leaves out stays.  station: none
\* is chosen, the one chosen before if any, or another.
Settings == [zip : Zips \union {NoZip}, ll : Places \union {Nowhere},
             station : {"none", "same", "other"}, days : Days, every : ObsPeriods]

Moved(c, s) ==
    \/ s.zip # c.zip
    \/ (s.ll # Nowhere) # c.ll_given
    \/ s.ll # Nowhere /\ s.ll # c.at

Apply(c, s) ==
    LET ll == s.ll # Nowhere
        d == [c EXCEPT !.obs_every = s.every, !.zip = IF ll THEN NoZip ELSE s.zip,
                       !.want_station = (s.station # "none"), !.update_days = s.days,
                       !.next_zcta = IF s.days = c.update_days THEN @ ELSE ZctaDue(s.days)]
    IN IF Moved(c, s)
       THEN [d EXCEPT !.ll_given = ll, !.have_loc = ll, !.at = IF ll THEN s.ll ELSE @,
                      !.zip_missing = FALSE, !.forecast_url = Nowhere, !.nst = 0,
                      !.next_points = 0, !.next_obs = 0, !.next_fc = 0]
       ELSE IF s.station = "other" \/ (s.station # "none") # c.want_station
       THEN [d EXCEPT !.nst = 0, !.next_station = 0, !.next_obs = 0]
       ELSE d

\* The documents tried that move the module leave the days and a chosen station.
wx_put_settings ==
    /\ \E s \in Settings :
          /\ s.zip # NoZip \/ s.ll # Nowhere
          /\ Moved(wx, s) => s.days = wx.update_days /\ (s.station = "same") = wx.want_station
          /\ wx' = Apply(wx, s)
    /\ UNCHANGED <<table, since>>

\* A tick of the clock.
WxTick ==
    /\ wx' = [wx EXCEPT !.next_zcta = Pass(@), !.next_points = Pass(@),
                        !.next_station = Pass(@), !.next_obs = Pass(@), !.next_fc = Pass(@)]
    /\ since' = IF since = Max(Days) THEN since ELSE since + 1
    /\ UNCHANGED table

\* wx_open with what the configuration gives.
Configured ==
    {wx_open(zip, at, days, every) :
        zip \in Zips \union {NoZip}, at \in Places \union {Nowhere}, days \in Days,
        every \in ObsPeriods}

WxStart ==
    /\ since = Max(Days)
    /\ table = [z \in Zips |-> Nowhere]
    /\ wx = wx_open(NoZip, CHOOSE p \in Places : TRUE, 0, CHOOSE p \in ObsPeriods : TRUE)

WxInit ==
    /\ since = Max(Days)
    /\ table \in Tables
    /\ wx \in {c \in Configured : c.have_loc \/ c.zip # NoZip}

ZctaEnds == ZctaUnreachable \/ ZctaNewer \/ ZctaUpToDate \/ ZctaInstall

WxNext ==
    wx_step \/ WeatherEnds \/ ZctaEnds \/ PutRefused \/ wx_put_settings \/ WxTick

\* The loop steps the module for ever, time passes, and libcurl ends every
\* request within its timeout; starting a request fails only for want of
\* memory, not for ever.
WxFairness ==
    WF_wx_vars(WxTick) /\ SF_wx_vars(StartNext(TRUE)) /\ WF_wx_vars(WeatherEnds) /\ WF_wx_vars(ZctaEnds)

WxSpec == WxInit /\ [][WxNext]_wx_vars /\ WxFairness

----------------------------------------------------------------------------

WxTypeOK ==
    /\ wx \in [inflight : WxRequests \union {"none"}, asked : Places \union {Nowhere},
               zip : Zips \union {NoZip}, ll_given : BOOLEAN, have_loc : BOOLEAN,
               at : Places \union {Nowhere}, zip_missing : BOOLEAN, update_days : Days,
               next_zcta : 0 .. Max(Days \union {WX_ZCTA_RETRY}), obs_every : ObsPeriods,
               forecast_url : Places \union {Nowhere}, want_station : BOOLEAN,
               nst : 0 .. WX_NST + 1, st_try : 0 .. WX_NST,
               next_points : 0 .. Max({WX_POINTS_S, WX_RETRY_S}),
               next_station : 0 .. WX_RETRY_S,
               next_obs : 0 .. Max(ObsPeriods \union {WX_RETRY_S}),
               next_fc : 0 .. Max({WX_FORECAST_S, WX_RETRY_S})]
    /\ table \in Tables
    /\ since \in 0 .. Max(Days)

\* The station asked is one of the list (stations[st_try] in start_next and
\* parse_obs), however settings, daily lookups and fall-backs interleave.
StationInList == wx.nst > 0 => wx.st_try < wx.nst

\* The module's place is known and it uses another place's forecast address: the
\* place was set while the address of the one before was asked for.
WrongPlace == wx.have_loc /\ wx.forecast_url \notin {Nowhere, wx.at}

\* The table is asked for, or is not to be; the module's own place is asked for.
Sought ==
    /\ wx.zip_missing => wx.inflight = "zcta_head" \/ wx.update_days = 0
    /\ WrongPlace => wx.inflight = "points" /\ wx.asked = wx.at

\* A place that is a dead end unless it is sought.
WxLost == wx.zip_missing \/ WrongPlace
=============================================================================

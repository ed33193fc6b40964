----------------------------- MODULE PartProofs -----------------------------
(***************************************************************************)
(* Proofs about parts that share no state with the others: the weather.gov *)
(* service, the XD battery's driver, the terminal interface, the Textbelt  *)
(* service, the watermarks and the lists of the scheduler.                 *)
(***************************************************************************)
EXTENDS Textbelt, Weather, XdDriver, Tui, Watermarks, PtList, FiniteSetTheorems,
        SequenceTheorems, WellFoundedInduction, TLAPS

----------------------------------------------------------------------------
(* The weather.gov service: the station asked for is one of the list. *)

\* How long the module may wait before it asks again.
ZctaWaits == 0 .. Max(Days \union {WX_ZCTA_RETRY})
PointsWaits == 0 .. Max({WX_POINTS_S, WX_RETRY_S})
StationWaits == 0 .. WX_RETRY_S
ObsWaits == 0 .. Max(ObsPeriods \union {WX_RETRY_S})
ForecastWaits == 0 .. Max({WX_FORECAST_S, WX_RETRY_S})

WxContext ==
    [inflight : WxRequests \union {"none"}, asked : Places \union {Nowhere},
     zip : Zips \union {NoZip}, ll_given : BOOLEAN, have_loc : BOOLEAN,
     at : Places \union {Nowhere}, zip_missing : BOOLEAN, update_days : Days,
     next_zcta : ZctaWaits, obs_every : ObsPeriods, forecast_url : Places \union {Nowhere},
     want_station : BOOLEAN, nst : 0 .. WX_NST + 1, st_try : 0 .. WX_NST,
     next_points : PointsWaits, next_station : StationWaits, next_obs : ObsWaits,
     next_fc : ForecastWaits]

\* A context of the module whose station to ask for, if it has any, is one of its list.
StationListed(c) == c \in WxContext /\ (c.nst > 0 => c.st_try < c.nst)

\* The greatest of some naturals, of which one is no less than the others, is one of them.
LEMMA GreatestIs ==
    ASSUME NEW S, S \subseteq Nat, NEW m \in S, \A x \in S : m >= x
    PROVE  Max(S) \in S /\ \A x \in S : x \in 0 .. Max(S)
<1>1. \E x \in S : \A y \in S : x >= y
  OBVIOUS
<1>2. Max(S) \in S /\ \A y \in S : Max(S) >= y
  BY <1>1 DEF Max
<1> QED
  BY <1>2

\* With one more there is a greatest one, too.
LEMMA GreatestOfMore ==
    ASSUME NEW S, S \subseteq Nat, NEW m \in S, \A x \in S : m >= x, NEW n \in Nat
    PROVE  /\ Max(S \union {n}) \in Nat
           /\ \A x \in S \union {n} : x \in 0 .. Max(S \union {n})
<1> DEFINE T == S \union {n}
           k == IF m >= n THEN m ELSE n
<1>1. T \subseteq Nat /\ k \in T /\ \A x \in T : k >= x
  <2>1. m \in Nat
    OBVIOUS
  <2>2. k \in T
    OBVIOUS
  <2>3. ASSUME NEW x \in T PROVE k >= x
    <3>1. x \in Nat /\ (x = n \/ m >= x)
      OBVIOUS
    <3> QED
      BY <2>1, <3>1
  <2> QED
    BY <2>2, <2>3
<1> HIDE DEF T, k
<1>2. Max(T) \in T /\ \A x \in T : x \in 0 .. Max(T)
  BY <1>1, GreatestIs
<1> QED
  BY <1>1, <1>2 DEF T

\* With one or two there is.
LEMMA GreatestOfTwo ==
    ASSUME NEW a \in Nat, NEW b \in Nat
    PROVE  Max({a, b}) \in Nat /\ a \in 0 .. Max({a, b}) /\ b \in 0 .. Max({a, b})
<1> DEFINE S == {a}
<1>1. S \subseteq Nat /\ a \in S /\ \A x \in S : a >= x
  OBVIOUS
<1>2. S \union {b} = {a, b}
  OBVIOUS
<1> HIDE DEF S
<1>3. Max(S \union {b}) \in Nat /\ \A x \in S \union {b} : x \in 0 .. Max(S \union {b})
  BY <1>1, GreatestOfMore
<1> QED
  BY <1>2, <1>3

\* The longest waits.
LEMMA WxLongest ==
    /\ Max(Days \union {WX_ZCTA_RETRY}) \in Nat
    /\ \A x \in Days \union {WX_ZCTA_RETRY} : x \in ZctaWaits
    /\ Max(ObsPeriods \union {WX_RETRY_S}) \in Nat
    /\ \A x \in ObsPeriods \union {WX_RETRY_S} : x \in ObsWaits
    /\ Max({WX_POINTS_S, WX_RETRY_S}) \in Nat
    /\ WX_POINTS_S \in PointsWaits /\ WX_RETRY_S \in PointsWaits
    /\ Max({WX_FORECAST_S, WX_RETRY_S}) \in Nat
    /\ WX_FORECAST_S \in ForecastWaits /\ WX_RETRY_S \in ForecastWaits
<1>1. /\ WX_POINTS_S \in Nat /\ WX_RETRY_S \in Nat /\ WX_FORECAST_S \in Nat
      /\ WX_ZCTA_RETRY \in Nat /\ Days \subseteq Nat /\ ObsPeriods \subseteq Nat
  BY WxAssumption
<1>2. PICK m \in Days : \A x \in Days : m >= x
  BY WxAssumption
<1>3. PICK n \in ObsPeriods : \A x \in ObsPeriods : n >= x
  BY WxAssumption
<1>4. /\ Max(Days \union {WX_ZCTA_RETRY}) \in Nat
      /\ \A x \in Days \union {WX_ZCTA_RETRY} : x \in ZctaWaits
  BY <1>1, <1>2, GreatestOfMore DEF ZctaWaits
<1>5. /\ Max(ObsPeriods \union {WX_RETRY_S}) \in Nat
      /\ \A x \in ObsPeriods \union {WX_RETRY_S} : x \in ObsWaits
  BY <1>1, <1>3, GreatestOfMore DEF ObsWaits
<1> QED
  BY <1>1, <1>4, <1>5, GreatestOfTwo DEF PointsWaits, ForecastWaits

\* The times the module waits.
LEMMA WxDurations ==
    /\ WX_NST \in Nat /\ 0 \in 0 .. WX_NST /\ 0 \in 0 .. WX_NST + 1
    /\ 0 \in ZctaWaits /\ WX_ZCTA_RETRY \in ZctaWaits /\ Days \subseteq ZctaWaits
    /\ 0 \in PointsWaits /\ WX_POINTS_S \in PointsWaits /\ WX_RETRY_S \in PointsWaits
    /\ 0 \in StationWaits /\ WX_RETRY_S \in StationWaits
    /\ 0 \in ObsWaits /\ WX_RETRY_S \in ObsWaits /\ ObsPeriods \subseteq ObsWaits
    /\ 0 \in ForecastWaits /\ WX_FORECAST_S \in ForecastWaits /\ WX_RETRY_S \in ForecastWaits
<1>1. \A n \in Nat : 0 \in 0 .. n /\ n \in 0 .. n
  OBVIOUS
<1>2. WX_NST \in Nat /\ WX_RETRY_S \in Nat /\ WX_NST + 1 \in Nat
  BY WxAssumption
<1>3. 0 \in ZctaWaits /\ 0 \in PointsWaits /\ 0 \in ObsWaits /\ 0 \in ForecastWaits
  BY <1>1, WxLongest DEF ZctaWaits, PointsWaits, ObsWaits, ForecastWaits
<1>4. 0 \in StationWaits /\ WX_RETRY_S \in StationWaits /\ 0 \in 0 .. WX_NST
      /\ 0 \in 0 .. WX_NST + 1
  BY <1>1, <1>2 DEF StationWaits
<1> QED
  BY <1>2, <1>3, <1>4, WxLongest

\* Waits get shorter.
LEMMA WxPass ==
    /\ \A n \in ZctaWaits : n \in Nat /\ Pass(n) \in ZctaWaits
    /\ \A n \in PointsWaits : Pass(n) \in PointsWaits
    /\ \A n \in StationWaits : Pass(n) \in StationWaits
    /\ \A n \in ObsWaits : Pass(n) \in ObsWaits
    /\ \A n \in ForecastWaits : Pass(n) \in ForecastWaits
<1>1. ASSUME NEW m \in Nat, NEW n \in 0 .. m
      PROVE  n \in Nat /\ Pass(n) \in 0 .. m
  BY DEF Pass
<1>2. WX_RETRY_S \in Nat
  BY WxAssumption
<1> QED
  BY <1>1, <1>2, WxLongest DEF ZctaWaits, PointsWaits, StationWaits, ObsWaits, ForecastWaits

\* The next check is due within the time between two.
LEMMA ZctaDueTypes ==
    ASSUME since \in Nat, NEW days \in Days
    PROVE  ZctaDue(days) \in ZctaWaits
<1> DEFINE M == Max(Days \union {WX_ZCTA_RETRY})
<1>1. days \in ZctaWaits
  BY WxDurations
<1>2. days \in 0 .. M /\ M \in Nat
  BY <1>1, WxLongest DEF ZctaWaits
<1> HIDE DEF M
<1>3. ZctaDue(days) \in 0 .. M
  BY <1>2 DEF ZctaDue
<1> QED
  BY <1>3 DEF ZctaWaits, M

\* Starting a request leaves the list alone.
LEMMA StartGetListed ==
    ASSUME NEW c, StationListed(c), NEW what \in WxRequests, NEW ok
    PROVE  StationListed(start_get(c, what, ok))
<1> QED
  BY DEF StationListed, WxContext, start_get

\* So does ending one.
LEMMA EndListed ==
    ASSUME NEW c, StationListed(c)
    PROVE  StationListed(wx_end_request(c))
<1> QED
  BY DEF StationListed, WxContext, wx_end_request

\* An empty list has no station to ask for.
LEMMA EmptyListed ==
    ASSUME NEW c \in WxContext, c.nst = 0
    PROVE  StationListed(c)
<1> QED
  BY DEF StationListed

\* A place that is looked up has no stations yet, or is the one before.
LEMMA ResolveListed ==
    ASSUME NEW c, StationListed(c), NEW tab \in Tables
    PROVE  StationListed(resolve_zip(c, tab))
<1>1. CASE c.have_loc \/ c.zip_missing \/ c.zip = NoZip
  BY <1>1 DEF resolve_zip
<1>2. CASE ~(c.have_loc \/ c.zip_missing \/ c.zip = NoZip)
  <2>1. c.zip \in Zips /\ tab[c.zip] \in Places \union {Nowhere}
    BY <1>2 DEF StationListed, WxContext, Tables
  <2> DEFINE d == [c EXCEPT !.at = tab[c.zip], !.have_loc = TRUE]
  <2>2. StationListed(d)
    BY <2>1 DEF StationListed, WxContext
  <2> HIDE DEF d
  <2>3. StationListed([d EXCEPT !.forecast_url = Nowhere, !.nst = 0, !.next_points = 0])
    <3> DEFINE e == [d EXCEPT !.forecast_url = Nowhere, !.nst = 0, !.next_points = 0]
    <3>0. 0 \in 0 .. WX_NST + 1
      BY WxDurations
    <3>1. e \in WxContext
      BY <2>2, <3>0, WxDurations DEF StationListed, WxContext
    <3>2. e.nst = 0
      BY <2>2 DEF StationListed, WxContext
    <3> QED
      BY <3>1, <3>2, EmptyListed
  <2>4. StationListed([c EXCEPT !.zip_missing = TRUE])
    BY DEF StationListed, WxContext
  <2> QED
    BY <1>2, <2>2, <2>3, <2>4 DEF resolve_zip, d
<1> QED
  BY <1>1, <1>2

\* So does looking for a newer table.
LEMMA CheckListed ==
    ASSUME NEW c, StationListed(c), NEW ok
    PROVE  StationListed(start_zcta_check(c, ok))
<1>1. StationListed([c EXCEPT !.next_zcta = WX_ZCTA_RETRY])
  BY WxDurations DEF StationListed, WxContext
<1> QED
  BY <1>1, StartGetListed DEF start_zcta_check, WxRequests

\* Whatever is started, the list and the station to ask for stay.
LEMMA StartNextListed ==
    ASSUME NEW c, StationListed(c), NEW tab \in Tables, NEW ok
    PROVE  StationListed(start_next(c, tab, ok))
<1> DEFINE d == resolve_zip(c, tab)
<1>1. StationListed(d)
  BY ResolveListed
<1>2. /\ StationListed(start_zcta_check(d, ok))
      /\ \A what \in WxRequests : StationListed(start_get(d, what, ok))
  BY <1>1, CheckListed, StartGetListed
<1> QED
  BY <1>1, <1>2 DEF start_next, WxRequests, Weather

\* The least of two naturals is one of them.
LEMMA LeastOfTwo ==
    ASSUME NEW m \in Nat, NEW n \in Nat
    PROVE  Min({m, n}) \in 0 .. n
<1>1. \E x \in {m, n} : \A y \in {m, n} : x <= y
  OBVIOUS
<1>2. Min({m, n}) \in {m, n} /\ \A y \in {m, n} : Min({m, n}) <= y
  BY <1>1 DEF Min
<1> QED
  BY <1>2

\* After a station comes the next of the list.
LEMMA NextStationListed ==
    ASSUME NEW c, StationListed(c), MoreStations(c)
    PROVE  StationListed(NextStation(c))
<1> DEFINE next == c.st_try + 1
<1>1. next \in 0 .. WX_NST /\ next < c.nst
  BY WxDurations DEF StationListed, WxContext, MoreStations
<1>2. NextStation(c) = [c EXCEPT !.st_try = next, !.next_obs = 0]
  BY DEF NextStation
<1> HIDE DEF next
<1>3. [c EXCEPT !.st_try = next, !.next_obs = 0] \in WxContext
  BY <1>1, WxDurations DEF StationListed, WxContext
<1>4. /\ [c EXCEPT !.st_try = next, !.next_obs = 0].nst = c.nst
      /\ [c EXCEPT !.st_try = next, !.next_obs = 0].st_try = next
  BY DEF StationListed, WxContext
<1> QED
  BY <1>1, <1>2, <1>3, <1>4 DEF StationListed

\* What a reply does: a new list is asked from its first station, and after the
\* last station comes the first.
LEMMA UnderstoodListed ==
    ASSUME NEW c, StationListed(c), NEW what \in Weather, NEW asked \in Places \union {Nowhere},
           NEW d \in Understood(c, what, asked)
    PROVE  StationListed(d)
<1>1. CASE what = "points"
  <2>1. parse_points(c, asked) \in WxContext
    BY WxDurations DEF parse_points, StationListed, WxContext
  <2>2. parse_points(c, asked).nst = 0
    BY DEF parse_points, StationListed, WxContext
  <2> QED
    BY <1>1, <2>1, <2>2, EmptyListed DEF Understood
<1>2. CASE what = "station"
  <2>1. PICK nearby \in 0 .. WX_NST + 1 : d = parse_station(c, nearby)
    BY <1>2 DEF Understood
  <2> DEFINE given == nearby + (IF c.want_station THEN 1 ELSE 0)
             n == Min({given, WX_NST + 1})
  <2>2. n \in 0 .. WX_NST + 1
    <3>1. given \in Nat /\ WX_NST + 1 \in Nat
      BY WxDurations
    <3> QED
      BY <3>1, LeastOfTwo
  <2>3. d = IF n = 0 THEN [c EXCEPT !.next_station = WX_RETRY_S]
                     ELSE [c EXCEPT !.nst = n, !.st_try = 0]
    BY <2>1 DEF parse_station
  <2> HIDE DEF n
  <2>4. CASE n = 0
    BY <2>3, <2>4, WxDurations DEF StationListed, WxContext
  <2>5. CASE n # 0
    <3>1. d = [c EXCEPT !.nst = n, !.st_try = 0]
      BY <2>3, <2>5
    <3>2. d \in WxContext /\ d.nst = n /\ d.st_try = 0
      BY <2>2, <3>1, WxDurations DEF StationListed, WxContext
    <3>3. 0 < n
      BY <2>2, <2>5, WxDurations
    <3> QED
      BY <3>2, <3>3 DEF StationListed
  <2> QED
    BY <2>4, <2>5
<1>3. CASE what = "obs"
  <2>1. PICK good \in BOOLEAN : d = take_obs(c, good)
    BY <1>3 DEF Understood
  <2>2. c.obs_every \in ObsWaits /\ 0 \in 0 .. WX_NST
    BY WxDurations DEF StationListed, WxContext
  <2>3. StationListed([c EXCEPT !.st_try = 0, !.next_obs = c.obs_every])
    BY <2>2 DEF StationListed, WxContext
  <2> QED
    BY <2>1, <2>3, NextStationListed DEF take_obs
<1>4. CASE what = "forecast"
  BY <1>4, WxDurations DEF Understood, parse_forecast, StationListed, WxContext
<1> QED
  BY <1>1, <1>2, <1>3, <1>4 DEF Weather

\* What no reply does: the next station of the list, if there is one.
LEMMA NotUnderstoodListed ==
    ASSUME NEW c, StationListed(c), NEW what \in Weather
    PROVE  StationListed(NotUnderstood(c, what))
<1>1. CASE what = "points"
  BY <1>1, WxDurations DEF NotUnderstood, StationListed, WxContext
<1>2. CASE what = "station"
  BY <1>2, WxDurations DEF NotUnderstood, StationListed, WxContext
<1>3. CASE what = "obs"
  <2>1. StationListed([c EXCEPT !.next_obs = WX_RETRY_S])
    BY WxDurations DEF StationListed, WxContext
  <2> QED
    BY <1>3, <2>1, NextStationListed DEF NotUnderstood
<1>4. CASE what = "forecast"
  BY <1>4, WxDurations DEF NotUnderstood, StationListed, WxContext
<1> QED
  BY <1>1, <1>2, <1>3, <1>4 DEF Weather

\* What a request ends in leaves a station to ask for.
LEMMA FinishListed ==
    ASSUME NEW c, StationListed(c), c.inflight \in Weather, NEW d \in wx_finish(c)
    PROVE  StationListed(d)
<1>1. StationListed(wx_end_request(c)) /\ c.asked \in Places \union {Nowhere}
  BY EndListed DEF StationListed, WxContext
<1> QED
  BY <1>1, UnderstoodListed, NotUnderstoodListed DEF wx_finish

\* The settings: a place or a station that changes empties the list.
LEMMA ApplyListed ==
    ASSUME NEW c, StationListed(c), NEW s \in Settings, since \in Nat
    PROVE  StationListed(Apply(c, s))
<1> DEFINE ll == s.ll # Nowhere
           zip == IF ll THEN NoZip ELSE s.zip
           station == s.station # "none"
           wait == IF s.days = c.update_days THEN c.next_zcta ELSE ZctaDue(s.days)
           at == IF ll THEN s.ll ELSE c.at
           d == [c EXCEPT !.obs_every = s.every, !.zip = zip, !.want_station = station,
                          !.update_days = s.days, !.next_zcta = wait]
           placed == [d EXCEPT !.ll_given = ll, !.have_loc = ll, !.at = at,
                               !.zip_missing = FALSE]
           cleared == [placed EXCEPT !.forecast_url = Nowhere, !.nst = 0]
           moved == [cleared EXCEPT !.next_points = 0, !.next_obs = 0, !.next_fc = 0]
           other == [d EXCEPT !.nst = 0, !.next_station = 0, !.next_obs = 0]
<1>1. /\ s.every \in ObsPeriods /\ s.days \in Days
      /\ zip \in Zips \union {NoZip} /\ at \in Places \union {Nowhere}
      /\ ll \in BOOLEAN /\ station \in BOOLEAN
  BY DEF Settings, StationListed, WxContext
<1>2. wait \in ZctaWaits
  <2>1. c.next_zcta \in ZctaWaits
    BY DEF StationListed, WxContext
  <2> QED
    BY <1>1, <2>1, ZctaDueTypes
<1>3. Apply(c, s) \in {d, moved, other}
  <2>1. d.at = c.at
    BY DEF StationListed, WxContext
  <2> QED
    BY <2>1 DEF Apply
<1> HIDE DEF ll, zip, station, wait, at
<1>4. StationListed(d)
  BY <1>1, <1>2, ZenonT(40) DEF StationListed, WxContext
<1> HIDE DEF d
<1>5. StationListed(moved)
  <2>1. placed \in WxContext
    BY <1>1, <1>4, ZenonT(40) DEF StationListed, WxContext
  <2> HIDE DEF placed
  <2>2. cleared \in WxContext /\ cleared.nst = 0
    <3>1. 0 \in 0 .. WX_NST + 1
      BY WxDurations
    <3> QED
      BY <2>1, <3>1 DEF WxContext
  <2> HIDE DEF cleared
  <2>3. moved \in WxContext /\ moved.nst = 0
    BY <2>2, WxDurations, ZenonT(40) DEF WxContext
  <2> QED
    BY <2>3, EmptyListed
<1>6. StationListed(other)
  <2>1. other \in WxContext
    <3>1. 0 \in 0 .. WX_NST + 1
      BY WxDurations
    <3> QED
      BY <1>4, <3>1, WxDurations DEF StationListed, WxContext
  <2>2. other.nst = 0
    BY <1>4 DEF StationListed, WxContext
  <2> QED
    BY <2>1, <2>2, EmptyListed
<1> HIDE DEF moved, other
<1> QED
  BY <1>3, <1>4, <1>5, <1>6

WxInv == StationListed(wx) /\ table \in Tables /\ since \in 0 .. Max(Days)

\* The longest time between two checks.
LEMMA LongestIsNat == Max(Days) \in Nat
<1>1. PICK m \in Days : \A x \in Days : m >= x
  BY WxAssumption
<1>2. Days \subseteq Nat
  BY WxAssumption
<1> QED
  BY <1>1, <1>2, GreatestIs

\* The invariant holds at first: the list is empty.
LEMMA WxStarts == WxInit => WxInv
<1> SUFFICES ASSUME WxInit PROVE WxInv
  OBVIOUS
<1>1. Max(Days) \in Nat
  BY LongestIsNat
<1>2. PICK zip \in Zips \union {NoZip}, at \in Places \union {Nowhere}, days \in Days,
           every \in ObsPeriods : wx = wx_open(zip, at, days, every)
  BY DEF WxInit, Configured
<1>3. since \in 0 .. Max(Days) /\ since \in Nat
  BY <1>1 DEF WxInit
<1>4. ZctaDue(days) \in ZctaWaits /\ 0 \in 0 .. WX_NST + 1 /\ 0 \in 0 .. WX_NST
  BY <1>3, ZctaDueTypes, WxDurations
<1> QED
  BY <1>2, <1>3, <1>4, WxDurations DEF WxInit, WxInv, wx_open, StationListed, WxContext, WxRequests

\* Every step keeps the invariant.
LEMMA WxKeeps == WxInv /\ [WxNext]_wx_vars => WxInv'
<1> SUFFICES ASSUME WxInv, [WxNext]_wx_vars PROVE WxInv'
  OBVIOUS
<1>1. ASSUME wx_step PROVE WxInv'
  BY <1>1, StartNextListed DEF wx_step, StartNext, WxInv
<1>2. ASSUME WeatherEnds PROVE WxInv'
  BY <1>2, FinishListed, StartNextListed DEF WeatherEnds, WxInv
<1>3. ASSUME ZctaEnds PROVE WxInv'
  <2> DEFINE c == wx_end_request(wx)
             again == [c EXCEPT !.next_zcta = WX_ZCTA_RETRY]
             fresh == [c EXCEPT !.have_loc = @ /\ wx.zip = NoZip, !.zip_missing = FALSE]
  <2>1. StationListed(c)
    BY EndListed DEF WxInv
  <2> HIDE DEF c
  <2>2. StationListed(again)
    BY <2>1, WxDurations DEF StationListed, WxContext
  <2>3. StationListed(CheckedUntil(c))
    <3>1. c.update_days \in ZctaWaits
      BY <2>1, WxDurations DEF StationListed, WxContext
    <3> QED
      BY <2>1, <3>1 DEF CheckedUntil, StationListed, WxContext
  <2>4. StationListed(fresh)
    <3> DEFINE have == c.have_loc /\ wx.zip = NoZip
    <3>1. have \in BOOLEAN
      OBVIOUS
    <3> HIDE DEF have
    <3>2. StationListed([c EXCEPT !.have_loc = have, !.zip_missing = FALSE])
      BY <2>1, <3>1, ZenonT(40) DEF StationListed, WxContext
    <3> QED
      BY <3>2 DEF have
  <2>5. StationListed(CheckedUntil(fresh))
    <3> HIDE DEF fresh
    <3>1. fresh.update_days \in ZctaWaits
      BY <2>4, WxDurations DEF StationListed, WxContext
    <3> QED
      BY <2>4, <3>1 DEF CheckedUntil, StationListed, WxContext
  <2> HIDE DEF again, fresh
  <2>6. ASSUME ZctaUnreachable PROVE WxInv'
    BY <2>2, <2>6, StartNextListed DEF ZctaUnreachable, WxInv, c, again
  <2>7. ASSUME ZctaNewer PROVE WxInv'
    BY <2>1, <2>2, <2>7, StartNextListed, StartGetListed
       DEF ZctaNewer, WxInv, c, again, WxRequests
  <2>0. NoteCheck => since' \in 0 .. Max(Days)
    <3> DEFINE longest == Max(Days)
    <3>1. longest \in Nat /\ since \in 0 .. longest
      BY LongestIsNat DEF WxInv
    <3> HIDE DEF longest
    <3>2. NoteCheck => since' \in 0 .. longest
      BY <3>1 DEF NoteCheck
    <3> QED
      BY <3>2 DEF longest
  <2>8. ASSUME ZctaUpToDate PROVE WxInv'
    BY <2>0, <2>3, <2>8, StartNextListed DEF ZctaUpToDate, WxInv, c
  <2>9. ASSUME ZctaInstall PROVE WxInv'
    BY <2>0, <2>5, <2>9, StartNextListed DEF ZctaInstall, WxInv, c, fresh
  <2> QED
    BY <1>3, <2>6, <2>7, <2>8, <2>9 DEF ZctaEnds
<1>4. ASSUME PutRefused PROVE WxInv'
  BY <1>4 DEF PutRefused, WxInv, StationListed, WxContext
<1>5. ASSUME wx_put_settings PROVE WxInv'
  BY <1>5, ApplyListed DEF wx_put_settings, WxInv
<1>6. ASSUME WxTick PROVE WxInv'
  <2>1. StationListed(wx')
    BY <1>6, WxPass DEF WxTick, WxInv, StationListed, WxContext
  <2> DEFINE longest == Max(Days)
  <2>2. longest \in Nat
    BY LongestIsNat
  <2>3. since \in 0 .. longest /\ since' = IF since = longest THEN since ELSE since + 1
    BY <1>6 DEF WxTick, WxInv
  <2> HIDE DEF longest
  <2>4. since' \in 0 .. longest
    BY <2>2, <2>3
  <2> QED
    BY <1>6, <2>1, <2>4 DEF WxTick, WxInv, longest
<1>7. ASSUME UNCHANGED wx_vars PROVE WxInv'
  BY <1>7 DEF wx_vars, WxInv
<1> QED
  BY <1>1, <1>2, <1>3, <1>4, <1>5, <1>6, <1>7 DEF WxNext

\* The station asked is one of the list (stations[st_try] in start_next and parse_obs),
\* however settings, daily lookups, new tables and fall-backs interleave.
THEOREM StationInListHolds == WxSpec => []StationInList
<1>1. WxInv => StationInList
  BY DEF WxInv, StationListed, StationInList
<1> QED
  BY <1>1, WxStarts, WxKeeps, PTL DEF WxSpec

----------------------------------------------------------------------------
(* The XD battery's driver: the adapter that is open has the right serial number. *)

XdContext ==
    [path : Paths, serial : Serials, by_id : Adapters \union {Nothing},
     auto_port : BOOLEAN, fd : Adapters \union {Nothing}, alive : BOOLEAN,
     cmd : {"firmware", "barcode", "poll"}, io : {"idle", "write", "settle", "read"},
     deadline : 0 .. XD_TIMEOUT, next_poll : 0 .. XD_INTERVAL, reopen : 0 .. XD_INTERVAL,
     have_data : BOOLEAN, fresh : BOOLEAN]

\* The serial numbers an adapter may be known by: its own, that of its make, or none.
SerialKeys(a) == {SerialOf(a), WeakKey, Nothing}

\* A by-id name that is known goes with the serial number that is known, if one is.
IdFits(c) == c.by_id # Nothing => c.serial \in {Nothing, SerialOf(c.by_id)}

\* The adapter that is open, if any, may be known by the serial number the driver knows.
Right(c) == c \in XdContext /\ IdFits(c) /\ (c.fd # Nothing => c.serial \in SerialKeys(c.fd))

\* The ports are what they are made of.
PortsType == ports \in [Paths -> Adapters \union {Nothing}]

\* The times the driver waits.
LEMMA XdDurations ==
    /\ 0 \in 0 .. XD_TIMEOUT /\ XD_TIMEOUT \in 0 .. XD_TIMEOUT
    /\ 0 \in 0 .. XD_INTERVAL /\ XD_INTERVAL \in 0 .. XD_INTERVAL
BY XdAssumption

\* An adapter has a serial number.
LEMMA SerialKnown ==
    ASSUME NEW a \in Adapters
    PROVE  a # Nothing /\ SerialOf(a) \in Serials /\ SerialOf(a) # Nothing
<1> QED
  BY XdAssumption DEF SerialOf, Serials, WeakKey

\* What an adapter may show of itself.
Shows(a, id) ==
    /\ id.serial \in SerialKeys(a) /\ id.serial \in Serials /\ id.by_id \in {Nothing, a}
    /\ id.by_id # Nothing => id.serial = SerialOf(a)

\* Its whole identity is what it may show, and mf_usb_identify finds no more.
LEMMA IdShows ==
    ASSUME NEW a \in Adapters
    PROVE  Shows(a, Id(a))
<1>1. Id(a).serial = SerialOf(a) /\ Id(a).by_id \in {Nothing, a}
  BY DEF Id
<1> QED
  BY <1>1, SerialKnown DEF Shows, SerialKeys

LEMMA IdentifyShows ==
    ASSUME NEW a \in Adapters, NEW id \in mf_usb_identify(a)
    PROVE  Shows(a, id)
<1>1. NoIdentity.serial = Nothing /\ NoIdentity.by_id = Nothing
  BY DEF NoIdentity
<1>2. \A s : OnlySerial(s).serial = s /\ OnlySerial(s).by_id = Nothing
  BY DEF OnlySerial, NoIdentity
<1>3. id \in {Id(a), OnlySerial(SerialOf(a)), OnlySerial(WeakKey), NoIdentity}
  BY DEF mf_usb_identify
<1>4. SerialOf(a) \in Serials /\ WeakKey \in Serials /\ Nothing \in Serials
  BY SerialKnown DEF Serials
<1> QED
  BY <1>1, <1>2, <1>3, <1>4, IdShows DEF Shows, SerialKeys

\* mf_usb_find_by_serial finds adapters that the scan came across and that have the
\* serial number.
LEMMA FoundBySerial ==
    ASSUME NEW seen, NEW serial, NEW hint, NEW p \in mf_usb_find_by_serial(seen, serial, hint)
    PROVE  p \in seen /\ SerialOf(ports[p]) = serial
<1> QED
  BY DEF mf_usb_find_by_serial

\* mf_usb_resolve comes to an adapter that is plugged in and to what that shows; that
\* is the serial number known, if one is, or else the by-id name known, if one is; and
\* it is the adapter that is open unless the driver has to relocate.
Resolved(c, r) ==
    \/ r.rc = "error"
    \/ \E p \in Plugged :
          /\ r.path = p /\ Shows(ports[p], r.id)
          /\ c.serial # Nothing => r.id.serial = c.serial
          /\ c.serial = Nothing /\ c.by_id # Nothing => r.id.by_id # Nothing
          /\ r.rc = "relocate" \/ (r.rc = "use" /\ p = c.path)

\* The policy comes to the right adapter, or to none.
LEMMA ResolveRight ==
    ASSUME PortsType, NEW c \in XdContext, IdFits(c), c.fd \in {Nothing, ports[c.path]},
           NEW here \in mf_usb_identify(ports[c.path]), NEW seen \in SUBSET Links
    PROVE  Resolved(c, mf_usb_resolve(c, c.fd # Nothing, here, seen))
<1> DEFINE opened == c.fd # Nothing
           found == mf_usb_find_by_serial(seen, c.serial, c.by_id)
           r == mf_usb_resolve(c, opened, here, seen)
           matches == (c.serial = Nothing /\ c.by_id = Nothing) \/ serial_matches(c, here)
           q == CHOOSE p \in found : TRUE
<1>1. c.path \in Paths /\ (opened => c.path \in Plugged)
  BY DEF XdContext, Plugged
<1>2. \A p \in Plugged : ports[p] \in Adapters
  BY DEF Plugged, PortsType
<1>3. CASE opened /\ matches
  <2>1. r = [rc |-> "use", path |-> c.path, id |-> here]
    BY <1>3 DEF mf_usb_resolve
  <2>2. Shows(ports[c.path], here)
    BY <1>1, <1>2, <1>3, IdentifyShows
  <2>3. c.serial # Nothing => here.serial = c.serial
    BY <1>3, <2>2 DEF serial_matches, IdFits, Shows
  <2>4. c.serial = Nothing /\ c.by_id # Nothing => here.by_id # Nothing
    BY <1>3 DEF serial_matches
  <2>5. r.rc = "use" /\ r.path = c.path /\ r.id = here
    BY <2>1
  <2> QED
    BY <1>1, <1>3, <2>2, <2>3, <2>4, <2>5 DEF Resolved
<1>4. CASE /\ ~(opened /\ matches)
           /\ ~c.auto_port \/ c.serial = Nothing \/ found = {}
  <2>1. r = [rc |-> "error"]
    BY <1>4 DEF mf_usb_resolve
  <2> QED
    BY <2>1 DEF Resolved
<1>5. CASE /\ ~(opened /\ matches)
           /\ ~(~c.auto_port \/ c.serial = Nothing \/ found = {})
  <2>1. r = [rc |-> IF q = c.path THEN "use" ELSE "relocate", path |-> q, id |-> Id(ports[q])]
    BY <1>5 DEF mf_usb_resolve
  <2>2. q \in found
    BY <1>5
  <2> HIDE DEF q, found, r
  <2>3. q \in seen /\ SerialOf(ports[q]) = c.serial
    BY <2>2, FoundBySerial DEF found
  <2>4. q \in Plugged /\ ports[q] \in Adapters
    BY <1>2, <2>3 DEF Links
  <2>5. Shows(ports[q], Id(ports[q])) /\ Id(ports[q]).serial = c.serial
    BY <2>3, <2>4, IdShows DEF Id
  <2>6. /\ r.path = q /\ r.id = Id(ports[q])
        /\ r.rc = IF q = c.path THEN "use" ELSE "relocate"
    BY <2>1
  <2>7. c.serial # Nothing
    BY <1>5
  <2>8. Resolved(c, r)
    BY <2>4, <2>5, <2>6, <2>7 DEF Resolved
  <2> QED
    BY <2>8 DEF r
<1> QED
  BY <1>3, <1>4, <1>5

\* What is learned of an adapter is right for it.
LEMMA LearnedRight ==
    ASSUME NEW c \in XdContext, IdFits(c), NEW a \in Adapters, NEW id, Shows(a, id),
           c.serial # Nothing => id.serial = c.serial,
           (c.serial = Nothing /\ c.by_id # Nothing) => id.by_id # Nothing
    PROVE  LET d == Learned(c, id)
           IN /\ d \in XdContext /\ IdFits(d) /\ d.serial \in SerialKeys(a) /\ d.fd = c.fd
              /\ d.path = c.path
              /\ c.serial # Nothing => d.serial = c.serial
<1> DEFINE serial == IF id.serial = Nothing THEN c.serial ELSE id.serial
           by_id == IF id.by_id = Nothing THEN c.by_id ELSE id.by_id
           d == [c EXCEPT !.serial = serial, !.by_id = by_id]
<1>1. a # Nothing /\ SerialOf(a) # Nothing
  BY SerialKnown
<1>2. serial \in Serials /\ by_id \in Adapters \union {Nothing}
  BY DEF Shows, XdContext
<1>3. serial \in SerialKeys(a) /\ (c.serial # Nothing => serial = c.serial)
  BY DEF Shows, SerialKeys
<1>4. by_id # Nothing => serial \in {Nothing, SerialOf(by_id)}
  <2>1. CASE id.by_id # Nothing
    BY <1>1, <2>1 DEF Shows
  <2>2. CASE id.by_id = Nothing
    BY <1>3, <2>2 DEF IdFits
  <2> QED
    BY <2>1, <2>2
<1> HIDE DEF serial, by_id
<1>5. /\ d \in XdContext /\ d.serial = serial /\ d.by_id = by_id /\ d.fd = c.fd
      /\ d.path = c.path
  BY <1>2 DEF XdContext
<1>6. Learned(c, id) = d
  BY DEF Learned, serial, by_id
<1> HIDE DEF d
<1> QED
  BY <1>3, <1>4, <1>5, <1>6 DEF IdFits

\* apply_usb_policy leaves open no adapter but a right one, and does not forget a
\* serial number.
LEMMA PolicyRight ==
    ASSUME PortsType, NEW c \in XdContext, IdFits(c), c.fd \in {Nothing, ports[c.path]},
           NEW ok \in BOOLEAN, NEW here \in mf_usb_identify(ports[c.path]),
           NEW seen \in SUBSET Links
    PROVE  /\ Right(apply_usb_policy(c, ok, here, seen))
           /\ c.serial # Nothing => apply_usb_policy(c, ok, here, seen).serial = c.serial
<1> DEFINE r == mf_usb_resolve(c, c.fd # Nothing, here, seen)
           d == apply_usb_policy(c, ok, here, seen)
           known == Learned(c, r.id)
           there == [known EXCEPT !.path = r.path]
<1>1. Resolved(c, r)
  BY ResolveRight
<1>2. d = IF r.rc = "error" THEN [c EXCEPT !.fd = Nothing]
          ELSE IF r.rc = "use" THEN known ELSE try_open_fd(there, ok)
  BY DEF apply_usb_policy
<1> HIDE DEF r, d, known, there
<1>3. CASE r.rc = "error"
  <2>1. d = [c EXCEPT !.fd = Nothing]
    BY <1>2, <1>3
  <2>2. d \in XdContext /\ d.serial = c.serial /\ d.by_id = c.by_id /\ d.fd = Nothing
    BY <2>1 DEF XdContext
  <2> QED
    BY <2>2 DEF Right, IdFits, d
<1>4. CASE r.rc # "error"
  <2>1. PICK p \in Plugged :
           /\ r.path = p /\ Shows(ports[p], r.id)
           /\ c.serial # Nothing => r.id.serial = c.serial
           /\ c.serial = Nothing /\ c.by_id # Nothing => r.id.by_id # Nothing
           /\ r.rc = "relocate" \/ (r.rc = "use" /\ p = c.path)
    BY <1>1, <1>4 DEF Resolved
  <2>2. ports[p] \in Adapters /\ p \in Paths
    BY DEF Plugged, PortsType
  <2>3. /\ known \in XdContext /\ IdFits(known) /\ known.serial \in SerialKeys(ports[p])
        /\ known.fd = c.fd
        /\ c.serial # Nothing => known.serial = c.serial
    BY <2>1, <2>2, LearnedRight DEF known
  <2>4. CASE r.rc = "use"
    <3>1. d = known /\ p = c.path
      BY <1>2, <2>1, <2>4
    <3> QED
      BY <2>3, <3>1 DEF Right, d
  <2>5. CASE r.rc = "relocate"
    <3> DEFINE fd == IF ok THEN ports[p] ELSE Nothing
    <3>1. d = try_open_fd(there, ok)
      BY <1>2, <2>5
    <3>2. /\ there \in XdContext /\ there.path = p /\ there.serial = known.serial
          /\ there.by_id = known.by_id
      BY <2>1, <2>2, <2>3 DEF XdContext, there
    <3>3. d = [there EXCEPT !.fd = fd, !.alive = TRUE]
      BY <3>1, <3>2 DEF try_open_fd
    <3>4. fd \in Adapters \union {Nothing} /\ (fd # Nothing => fd = ports[p])
      BY <2>2
    <3> HIDE DEF fd
    <3>5. d \in XdContext /\ d.serial = known.serial /\ d.by_id = known.by_id /\ d.fd = fd
      BY <3>2, <3>3, <3>4 DEF XdContext
    <3> QED
      BY <2>3, <3>4, <3>5 DEF Right, IdFits, d
  <2> QED
    BY <2>1, <2>4, <2>5
<1> QED
  BY <1>3, <1>4

\* The same adapter, or none, is open, and the same identity is known.
SameAdapter(d, c) ==
    d \in XdContext /\ d.serial = c.serial /\ d.by_id = c.by_id /\ d.fd = c.fd

\* Nothing changes for the adapter that is open.
LEMMA SameIsRight ==
    ASSUME NEW c, Right(c), NEW d, SameAdapter(d, c)
    PROVE  Right(d)
<1> QED
  BY DEF Right, IdFits, SameAdapter

\* An exchange begins with the adapter that is open.
LEMMA StartCmdSame ==
    ASSUME NEW c \in XdContext, NEW phase \in {"firmware", "barcode", "poll"}
    PROVE  SameAdapter(start_cmd(c, phase), c) /\ start_cmd(c, phase).io = "write"
<1> QED
  BY XdDurations DEF SameAdapter, start_cmd, XdContext

\* Opening: the adapter at the path first, whatever it is, and then the policy.
LEMMA OpenedRight ==
    ASSUME PortsType, NEW c \in XdContext, IdFits(c), NEW d \in Opened(c)
    PROVE  /\ Right(d) /\ (c.serial # Nothing => d.serial = c.serial)
           /\ d.fd # Nothing => d.io # "idle"
<1>1. PICK ok \in Opens, again \in Opens, here \in mf_usb_identify(ports[c.path]),
           seen \in Scans :
               d = Started(apply_usb_policy(try_open_fd(c, ok), again, here, seen))
  BY DEF Opened
<1>2. ok \in BOOLEAN /\ again \in BOOLEAN /\ seen \in SUBSET Links
  BY DEF Opens, Scans
<1> DEFINE tried == try_open_fd(c, ok)
           fd == IF ok THEN ports[c.path] ELSE Nothing
           e == apply_usb_policy(tried, again, here, seen)
<1>3. fd \in Adapters \union {Nothing} /\ fd \in {Nothing, ports[c.path]}
  BY DEF PortsType, XdContext
<1>4. tried = [c EXCEPT !.fd = fd, !.alive = TRUE]
  BY DEF try_open_fd
<1> HIDE DEF fd, tried, e
<1>5. /\ tried \in XdContext /\ tried.fd = fd /\ tried.path = c.path
      /\ tried.serial = c.serial /\ tried.by_id = c.by_id
  BY <1>3, <1>4 DEF XdContext
<1>6. IdFits(tried)
  BY <1>5 DEF IdFits
<1>7. Right(e) /\ (c.serial # Nothing => e.serial = c.serial)
  BY <1>2, <1>3, <1>5, <1>6, PolicyRight DEF e
<1>8. d = IF e.fd # Nothing THEN start_cmd(e, "firmware") ELSE [e EXCEPT !.reopen = XD_INTERVAL]
  BY <1>1 DEF Started, tried, e
<1>9. SameAdapter([e EXCEPT !.reopen = XD_INTERVAL], e)
  BY <1>7, XdAssumption DEF Right, XdContext, SameAdapter
<1>10. SameAdapter(d, e) /\ (e.fd # Nothing => d.io = "write")
  BY <1>7, <1>8, <1>9, StartCmdSame DEF Right
<1> QED
  BY <1>7, <1>10, SameIsRight DEF SameAdapter

\* An exchange goes on with the adapter that is open, whatever comes of it.
LEMMA ExchangeSame ==
    ASSUME NEW c \in XdContext, c.io # "idle", NEW d \in XdExchange(c)
    PROVE  SameAdapter(d, c)
<1>1. PICK s \in bms_txrx_step(c) : d \in After(c, s)
  BY DEF XdExchange
<1>2. NextCmd(c.cmd) \in {"firmware", "barcode", "poll"}
  BY DEF NextCmd
<1>3. s \in {"done", "error", "write", "settle", "read"}
  <2>1. Later(c.io) \subseteq {"write", "settle", "read"}
    BY DEF Later, XdContext
  <2>2. s = "done" \/ s = "error" \/ s \in Later(c.io)
    BY DEF bms_txrx_step
  <2> QED
    BY <2>1, <2>2
<1>4. CASE s = "done"
  <2>1. d \in Replied(c)
    BY <1>1, <1>4 DEF After
  <2> DEFINE next == NextCmd(c.cmd)
             first == [c EXCEPT !.io = "idle", !.cmd = next, !.next_poll = 0]
             poll == [c EXCEPT !.io = "idle", !.next_poll = XD_INTERVAL]
             reading == [poll EXCEPT !.have_data = TRUE, !.fresh = TRUE]
  <2>2. d \in {first, poll, reading}
    BY <2>1 DEF Replied
  <2> HIDE DEF next
  <2>3. SameAdapter(first, c)
    BY <1>2, XdDurations DEF SameAdapter, XdContext, next
  <2>4. SameAdapter(poll, c)
    BY XdDurations DEF SameAdapter, XdContext
  <2> HIDE DEF poll
  <2>5. SameAdapter(reading, c)
    BY <2>4 DEF SameAdapter, XdContext
  <2> HIDE DEF first, reading
  <2> QED
    BY <2>2, <2>3, <2>4, <2>5
<1>5. CASE s = "error"
  <2> DEFINE next == NextCmd(c.cmd)
  <2>1. d = [c EXCEPT !.io = "idle", !.cmd = next, !.next_poll = XD_INTERVAL]
    BY <1>1, <1>5 DEF After, XdFailed
  <2> HIDE DEF next
  <2> QED
    BY <1>2, <2>1, XdDurations DEF SameAdapter, XdContext, next
<1>6. CASE s \in {"write", "settle", "read"}
  <2>1. d = [c EXCEPT !.io = s]
    BY <1>1, <1>6 DEF After
  <2> QED
    BY <1>6, <2>1 DEF SameAdapter, XdContext
<1> QED
  BY <1>3, <1>4, <1>5, <1>6

\* xd_step: what it opens is right and what it goes on with stays open.
LEMMA StepRight ==
    ASSUME PortsType, NEW c, Right(c), NEW d \in StepFrom(c)
    PROVE  Right(d) /\ (c.serial # Nothing => d.serial = c.serial)
<1>1. c \in XdContext /\ IdFits(c)
  BY DEF Right
<1>2. CASE d = c
  BY <1>2
<1>3. ASSUME NEW e \in Opened(c), d \in (IF e.fd = Nothing THEN {e} ELSE XdExchange(e))
      PROVE  Right(d) /\ (c.serial # Nothing => d.serial = c.serial)
  <2>1. /\ Right(e) /\ (c.serial # Nothing => e.serial = c.serial)
        /\ e.fd # Nothing => e.io # "idle"
    BY <1>1, OpenedRight
  <2>2. e.fd # Nothing => SameAdapter(d, e)
    BY <1>3, <2>1, ExchangeSame DEF Right
  <2>3. e.fd # Nothing => Right(d) /\ d.serial = e.serial
    BY <2>1, <2>2, SameIsRight DEF SameAdapter
  <2> QED
    BY <1>3, <2>1, <2>3
<1>4. CASE c.io # "idle" /\ d \in XdExchange(c)
  <2>1. SameAdapter(d, c)
    BY <1>1, <1>4, ExchangeSame
  <2> QED
    BY <2>1, SameIsRight DEF SameAdapter
<1>5. CASE d \in XdExchange(start_cmd(c, c.cmd))
  <2> DEFINE e == start_cmd(c, c.cmd)
  <2>1. SameAdapter(e, c) /\ e.io = "write"
    BY <1>1, StartCmdSame DEF XdContext
  <2>2. SameAdapter(d, e)
    BY <1>5, <2>1, ExchangeSame DEF SameAdapter
  <2> HIDE DEF e
  <2>3. SameAdapter(d, c)
    BY <2>1, <2>2 DEF SameAdapter
  <2> QED
    BY <2>3, SameIsRight DEF SameAdapter
<1>6. \/ d = c
      \/ \E e \in Opened(c) : d \in (IF e.fd = Nothing THEN {e} ELSE XdExchange(e))
      \/ c.io # "idle" /\ d \in XdExchange(c)
      \/ d \in XdExchange(start_cmd(c, c.cmd))
  BY DEF StepFrom
<1> QED
  BY <1>2, <1>3, <1>4, <1>5, <1>6

\* The inductive invariant: the serial number known first is the one known now.
XdInv ==
    /\ PortsType
    /\ Right(xd) /\ wanted = xd.serial
    /\ conf.path \in Paths /\ conf.auto_port \in BOOLEAN
    /\ conf.serial \in Serials /\ conf.by_id \in Adapters \union {Nothing} /\ IdFits(conf)

\* xd_open with an identity that fits.
LEMMA OpenFits ==
    ASSUME NEW k, k.path \in Paths, k.auto_port \in BOOLEAN, k.serial \in Serials,
           k.by_id \in Adapters \union {Nothing}, IdFits(k)
    PROVE  Right(xd_open(k)) /\ xd_open(k).serial = k.serial
<1> QED
  BY XdDurations DEF xd_open, Right, IdFits, XdContext

\* The invariant holds at first: nothing is open.
LEMMA XdStarts == XdInit => XdInv
<1> SUFFICES ASSUME XdInit PROVE XdInv
  OBVIOUS
<1>1. PICK p \in FirstPaths, id \in Identities, ap \in BOOLEAN :
         conf = [path |-> p, serial |-> id.serial, by_id |-> id.by_id, auto_port |-> ap]
  BY DEF XdInit
<1>2. id.serial \in Serials /\ id.by_id \in Adapters \union {Nothing} /\ IdFits(id)
  <2>1. CASE id = NoIdentity
    BY <2>1 DEF NoIdentity, Serials, IdFits
  <2>2. ASSUME NEW a \in Adapters,
               id \in {Id(a), OnlySerial(SerialOf(a)), [Id(a) EXCEPT !.serial = Nothing]}
        PROVE  id.serial \in Serials /\ id.by_id \in Adapters \union {Nothing} /\ IdFits(id)
    <3>1. SerialOf(a) \in Serials /\ Nothing \in Serials
      BY SerialKnown DEF Serials
    <3>2. Id(a).serial = SerialOf(a) /\ Id(a).by_id \in {a, Nothing}
      BY DEF Id
    <3>3. /\ OnlySerial(SerialOf(a)).serial = SerialOf(a)
          /\ OnlySerial(SerialOf(a)).by_id = Nothing
      BY DEF OnlySerial, NoIdentity
    <3>4. /\ [Id(a) EXCEPT !.serial = Nothing].serial = Nothing
          /\ [Id(a) EXCEPT !.serial = Nothing].by_id = Id(a).by_id
      BY DEF Id
    <3> QED
      BY <2>2, <3>1, <3>2, <3>3, <3>4 DEF IdFits
  <2> QED
    BY <2>1, <2>2 DEF Identities
<1>3. /\ conf.path \in Paths /\ conf.auto_port \in BOOLEAN
      /\ conf.serial \in Serials /\ conf.by_id \in Adapters \union {Nothing} /\ IdFits(conf)
  BY <1>1, <1>2, XdAssumption DEF IdFits
<1> DEFINE c == xd_open(conf)
<1>4. Right(c) /\ c.serial = conf.serial
  BY <1>3, OpenFits
<1>5. xd = [c EXCEPT !.reopen = XD_INTERVAL]
  BY DEF XdInit
<1> HIDE DEF c
<1>6. SameAdapter(xd, c)
  BY <1>4, <1>5, XdDurations DEF SameAdapter, Right, XdContext
<1>7. Right(xd) /\ xd.serial = conf.serial
  BY <1>4, <1>6, SameIsRight DEF SameAdapter
<1> QED
  BY <1>3, <1>7 DEF XdInit, XdInv, PortsType

\* Every step keeps the invariant.
LEMMA XdKeeps == XdInv /\ [XdNext]_xd_vars => XdInv'
<1> SUFFICES ASSUME XdInv, [XdNext]_xd_vars PROVE XdInv'
  OBVIOUS
<1>1. ASSUME xd_step PROVE XdInv'
  <2>1. PICK c \in StepFrom(xd) : Becomes(c)
    BY <1>1 DEF xd_step
  <2>2. Right(c) /\ (xd.serial # Nothing => c.serial = xd.serial)
    BY StepRight DEF XdInv
  <2> QED
    BY <1>1, <2>1, <2>2 DEF xd_step, Becomes, XdInv, PortsType, IdFits
<1>2. ASSUME XdReopen PROVE XdInv'
  <2>1. Right(xd_open(conf)) /\ xd_open(conf).serial = conf.serial
    BY OpenFits DEF XdInv
  <2>2. Right(xd') /\ (conf.serial # Nothing => xd'.serial = conf.serial)
    BY <1>2, <2>1, OpenedRight DEF XdReopen, XdInv, Right
  <2> QED
    BY <1>2, <2>2 DEF XdReopen, XdInv, PortsType, IdFits
<1>3. ASSUME SameAdapter(xd', xd), PortsType', UNCHANGED <<conf, wanted>> PROVE XdInv'
  <2>1. Right(xd') /\ wanted' = xd'.serial
    BY <1>3, SameIsRight DEF XdInv, SameAdapter
  <2> QED
    BY <1>3, <2>1 DEF XdInv, IdFits
<1>4. ASSUME xd_put_settings PROVE XdInv'
  <2>1. SameAdapter(xd', xd)
    BY <1>4 DEF xd_put_settings, XdInv, Right, SameAdapter, XdContext
  <2> QED
    BY <1>3, <1>4, <2>1 DEF xd_put_settings, XdInv, PortsType
<1>5. ASSUME Plug PROVE XdInv'
  <2>1. PortsType' /\ UNCHANGED <<conf, xd, wanted>>
    BY <1>5 DEF Plug, XdInv, PortsType
  <2> QED
    BY <2>1 DEF XdInv, IdFits
<1>6. ASSUME Pull PROVE XdInv'
  <2>1. PICK p \in Plugged : /\ ports' = [ports EXCEPT ![p] = Nothing]
                             /\ xd' = [xd EXCEPT !.alive = @ /\ xd.fd # ports[p]]
    BY <1>6 DEF Pull
  <2> DEFINE alive == xd.alive /\ xd.fd # ports[p]
  <2>2. xd' = [xd EXCEPT !.alive = alive] /\ alive \in BOOLEAN
    BY <2>1
  <2> HIDE DEF alive
  <2>3. SameAdapter(xd', xd)
    BY <2>2 DEF XdInv, Right, SameAdapter, XdContext
  <2>4. PortsType'
    BY <2>1 DEF XdInv, PortsType
  <2> QED
    BY <1>3, <1>6, <2>3, <2>4 DEF Pull
<1>7. ASSUME XdSettle PROVE XdInv'
  BY <1>7 DEF XdSettle, XdInv, PortsType, IdFits
<1>8. ASSUME XdTick PROVE XdInv'
  <2>1. /\ \A n \in 0 .. XD_TIMEOUT : Pass(n) \in 0 .. XD_TIMEOUT
        /\ \A n \in 0 .. XD_INTERVAL : Pass(n) \in 0 .. XD_INTERVAL
    BY XdAssumption DEF Pass
  <2>2. SameAdapter(xd', xd)
    BY <1>8, <2>1 DEF XdTick, XdInv, Right, SameAdapter, XdContext
  <2> QED
    BY <1>3, <1>8, <2>2 DEF XdTick, XdInv, PortsType
<1>9. ASSUME UNCHANGED xd_vars PROVE XdInv'
  BY <1>9 DEF xd_vars, XdInv, PortsType, IdFits
<1> QED
  BY <1>1, <1>2, <1>4, <1>5, <1>6, <1>7, <1>8, <1>9 DEF XdNext

\* However adapters are pulled, swapped and plugged in elsewhere, whichever have the
\* same serial number or none, and however little can be found out of them, the driver
\* reads from none but one with the serial number it was given or knew first, if it
\* knows one and that is more than a make (mf_usb_resolve, apply_usb_policy).
THEOREM RightSerialHolds == XdSpec => []RightSerial
<1>1. XdInv => RightSerial
  BY DEF XdInv, Right, SerialKeys, RightSerial
<1> QED
  BY <1>1, XdStarts, XdKeeps, PTL DEF XdSpec

----------------------------------------------------------------------------
(* The terminal interface: what the user asked for goes out at most once. *)

TuiFields ==
    {"conn", "next_try", "backoff", "left", "stale", "inflight", "pend", "body", "last",
     "tag", "picker", "form", "filled", "dirty", "saving", "act_wait", "fetch", "ovp",
     "put", "put_pending", "put_left", "act", "act_left", "add_fetch", "add_wait", "view",
     "get_left", "shown", "keys", "asked", "sent", "answer"}

TuiOps == Gets \union {"save", "action", "add", "command"}
Requests == [op : TuiOps \union {"none"}, mine : BOOLEAN]

\* What may wait behind another request.
MayWait(r) == r \in Requests /\ r.op \notin Gets

\* A context of the loop: nothing is under way without a connection, and only the form of
\* a module's settings is being saved.
Loop(c) ==
    /\ c = [f \in TuiFields |-> c[f]]
    /\ c.conn \in {"WAIT", "CONNECTING", "UP"}
    /\ c.backoff \in BACKOFF_MIN .. BACKOFF_MAX
    /\ c.conn = "UP" \/ c.inflight = NoRequest
    /\ c.pend \in Requests /\ MayWait(c.pend)
    /\ c.form = "edit" \/ ~c.saving
    /\ c.asked \in {"none", "save", "action", "add"}

\* A save that waits for a connection is the one the user asked for last.
Waits(c) == c.put_pending /\ c.asked = "save"

\* What the user asked for last went out, or waits behind another request, or waits for
\* a connection, and no two of these.
Once(c) ==
    /\ Loop(c)
    /\ \/ c.sent = 0 /\ ~(c.pend.mine /\ Waits(c))
       \/ c.sent = 1 /\ ~c.pend.mine /\ ~Waits(c)

\* Between c and d nothing was sent, put off or asked for that the user waits for.
Harmless(d, c) ==
    /\ Loop(d)
    /\ d.asked = c.asked /\ d.sent = c.sent
    /\ d.pend.mine => c.pend.mine
    /\ d.put_pending => c.put_pending

\* No request may wait, too.
LEMMA NoneWaits ==
    NoRequest \in Requests /\ ~NoRequest.mine /\ MayWait(NoRequest)
<1> QED
  BY DEF NoRequest, Requests, MayWait, Gets, Polls

\* Nothing that happens is calm.
LEMMA CalmSame ==
    ASSUME NEW c, Loop(c)
    PROVE  Harmless(c, c)
<1> QED
  BY DEF Harmless

\* Harmless steps add up to a harmless one.
LEMMA CalmThen ==
    ASSUME NEW c, NEW d, NEW e, Harmless(d, c), Harmless(e, d)
    PROVE  Harmless(e, c)
<1> QED
  BY DEF Harmless

\* After a calm step the user's request has still gone out at most once.
LEMMA CalmOnce ==
    ASSUME NEW c, Once(c), NEW d, Harmless(d, c)
    PROVE  Once(d)
<1>1. Waits(d) => Waits(c)
  BY DEF Harmless, Waits
<1> QED
  BY <1>1 DEF Harmless, Once

\* Only a request for what was asked for last is the user's.
LEMMA RequestType ==
    ASSUME NEW c, NEW op \in TuiOps
    PROVE  Request(c, op) \in Requests /\ Request(c, op).mine = (op = c.asked)
<1>1. Request(c, op) = [op |-> op, mine |-> op = c.asked]
  BY DEF Request
<1> DEFINE mine == op = c.asked
<1>2. mine \in BOOLEAN
  OBVIOUS
<1> HIDE DEF mine
<1>3. [op |-> op, mine |-> mine] \in Requests /\ [op |-> op, mine |-> mine].mine = mine
  BY <1>2 DEF Requests
<1> QED
  BY <1>1, <1>3 DEF mine

\* What the screen asks for and commands are not what the user waits for.
LEMMA OthersNotMine ==
    ASSUME NEW c, Loop(c), NEW op \in Gets \union {"command"}
    PROVE  Request(c, op) \in Requests /\ ~Request(c, op).mine
<1>1. op \in TuiOps /\ op # c.asked
  BY DEF Loop, TuiOps, Gets, Polls
<1> QED
  BY <1>1, RequestType

\* cli_begin with a request that is not the user's.
LEMMA BeginCalm ==
    ASSUME NEW c, Loop(c), NEW r \in Requests, ~r.mine
    PROVE  Harmless(cli_begin(c, r), c)
<1>1. CASE c.conn # "UP" \/ (c.inflight # NoRequest /\ r.op \in Gets)
  BY <1>1, CalmSame DEF cli_begin
<1>2. CASE c.conn = "UP" /\ c.inflight # NoRequest /\ r.op \notin Gets
  <2>1. cli_begin(c, r) = [c EXCEPT !.pend = r]
    BY <1>2 DEF cli_begin
  <2>2. MayWait(r)
    BY <1>2 DEF MayWait
  <2> QED
    BY <2>1, <2>2 DEF Harmless, Loop, TuiFields
<1>3. CASE c.conn = "UP" /\ c.inflight = NoRequest
  <2>1. cli_begin(c, r) = [c EXCEPT !.inflight = r, !.left = INFLIGHT_TMO_S, !.body = "none",
                                    !.sent = c.sent]
    BY <1>3 DEF cli_begin
  <2> QED
    BY <1>3, <2>1, ZenonT(40) DEF Harmless, Loop, TuiFields
<1> QED
  BY <1>1, <1>2, <1>3

\* cli_begin with the user's: it goes out, or waits behind another, or is lost.
Taken(d, c) ==
    /\ Loop(d) /\ d.asked = c.asked /\ d.put_pending = c.put_pending
    /\ d.sent = 0 \/ (d.sent = 1 /\ ~d.pend.mine)
    /\ c.conn # "UP" => d = c

\* The client takes the user's request or loses it.
LEMMA BeginTaken ==
    ASSUME NEW c, Loop(c), NEW r \in Requests, r.mine, c.sent = 0, ~c.pend.mine
    PROVE  Taken(cli_begin(c, r), c)
<1>1. CASE c.conn # "UP" \/ (c.inflight # NoRequest /\ r.op \in Gets)
  BY <1>1 DEF cli_begin, Taken
<1>2. CASE c.conn = "UP" /\ c.inflight # NoRequest /\ r.op \notin Gets
  <2>1. cli_begin(c, r) = [c EXCEPT !.pend = r]
    BY <1>2 DEF cli_begin
  <2>2. MayWait(r)
    BY <1>2 DEF MayWait
  <2> DEFINE d == [c EXCEPT !.pend = r]
  <2>3. Loop(d)
    BY <2>2 DEF Loop, TuiFields
  <2>4. d.asked = c.asked /\ d.put_pending = c.put_pending /\ d.sent = c.sent
    BY DEF Loop, TuiFields
  <2> HIDE DEF d
  <2> QED
    BY <1>2, <2>1, <2>3, <2>4 DEF Taken, d
<1>3. CASE c.conn = "UP" /\ c.inflight = NoRequest
  <2>1. cli_begin(c, r) = [c EXCEPT !.inflight = r, !.left = INFLIGHT_TMO_S, !.body = "none",
                                    !.sent = 1]
    BY <1>3 DEF cli_begin
  <2> DEFINE d == [c EXCEPT !.inflight = r, !.left = INFLIGHT_TMO_S, !.body = "none",
                            !.sent = 1]
  <2>2. d.pend = c.pend /\ d.asked = c.asked /\ d.put_pending = c.put_pending /\ d.sent = 1
    BY DEF Loop, TuiFields
  <2>3. Loop(d)
    BY <1>3, <2>2 DEF Loop, TuiFields
  <2> HIDE DEF d
  <2> QED
    BY <1>3, <2>1, <2>2, <2>3 DEF Taken, d
<1> QED
  BY <1>1, <1>2, <1>3

----------------------------------------------------------------------------
(* The connection. *)

\* A connection is given up.
LEMMA RetryCalm ==
    ASSUME NEW c, Loop(c)
    PROVE  Harmless(schedule_retry(c), c)
<1> DEFINE backoff == IF 2 * c.backoff > BACKOFF_MAX THEN BACKOFF_MAX ELSE 2 * c.backoff
           closed == mf_http_cli_close(c)
           next == c.backoff
<1>1. closed.backoff = c.backoff /\ closed.inflight = NoRequest /\ Harmless(closed, c)
  BY DEF mf_http_cli_close, Harmless, Loop, TuiFields
<1>2. schedule_retry(c) =
        [closed EXCEPT !.conn = "WAIT", !.next_try = next, !.backoff = backoff]
  BY <1>1 DEF schedule_retry
<1>4. backoff \in BACKOFF_MIN .. BACKOFF_MAX
  BY TuiAssumption DEF Loop
<1> HIDE DEF backoff, closed, next
<1>3. Harmless([closed EXCEPT !.conn = "WAIT", !.next_try = next, !.backoff = backoff], closed)
  BY <1>1, <1>4 DEF Harmless, Loop, TuiFields
<1> QED
  BY <1>1, <1>2, <1>3, CalmThen

\* A connection is begun.
LEMMA StartCalm ==
    ASSUME NEW c, Loop(c), NEW ok
    PROVE  Harmless(mf_http_cli_start(c, ok), c)
<1> DEFINE closed == mf_http_cli_close(c)
<1>2. closed.inflight = NoRequest /\ Harmless(closed, c)
  BY DEF mf_http_cli_close, Harmless, Loop, TuiFields
<1>1. Harmless([closed EXCEPT !.conn = "CONNECTING", !.left = CONNECT_TMO_S], c)
  <2> HIDE DEF closed
  <2> QED
    BY <1>2 DEF Harmless, Loop, TuiFields
<1> QED
  BY <1>1, RetryCalm DEF mf_http_cli_start

\* A connection is made.
LEMMA UpCalm ==
    ASSUME NEW c, Loop(c)
    PROVE  Harmless(mark_up(c), c)
<1>1. BACKOFF_MIN \in BACKOFF_MIN .. BACKOFF_MAX
  BY TuiAssumption
<1> QED
  BY <1>1, ZenonT(40) DEF mark_up, Harmless, Loop, TuiFields

\* A reply is complete.
LEMMA CompleteCalm ==
    ASSUME NEW c, Loop(c), NEW shape
    PROVE  Harmless(parse_complete(c, shape), c)
<1> DEFINE answer == IF c.inflight.mine THEN shape ELSE c.answer
<1>1. parse_complete(c, shape) =
        [c EXCEPT !.inflight = NoRequest, !.left = 0, !.body = shape, !.stale = FALSE,
                  !.answer = answer]
  BY DEF parse_complete
<1> HIDE DEF answer
<1> DEFINE d == [c EXCEPT !.inflight = NoRequest, !.left = 0, !.body = shape,
                          !.stale = FALSE, !.answer = answer]
<1>2. Loop(d)
  BY ZenonT(40) DEF Loop, TuiFields
<1>3. d.asked = c.asked /\ d.sent = c.sent /\ d.pend = c.pend /\ d.put_pending = c.put_pending
  BY DEF Loop, TuiFields
<1> QED
  BY <1>1, <1>2, <1>3 DEF Harmless

\* What waited behind another request goes out.
LEMMA PendingOnce ==
    ASSUME NEW c, Once(c)
    PROVE  Once(Pending(c))
<1> DEFINE x == [c EXCEPT !.pend = NoRequest]
           d == cli_begin(x, c.pend)
<1>1. NoRequest \in Requests /\ ~NoRequest.mine /\ MayWait(NoRequest)
  BY NoneWaits
<1>2. Harmless(x, c) /\ ~x.pend.mine /\ x.put_pending = c.put_pending
  BY <1>1 DEF Harmless, Once, Loop, TuiFields
<1>3. c.pend \in Requests /\ Loop(x)
  BY <1>2 DEF Once, Loop, Harmless
<1> HIDE DEF x
<1>4. CASE c.pend.mine
  <2>1. c.sent = 0 /\ ~Waits(c)
    BY <1>4 DEF Once
  <2>2. Taken(d, x)
    BY <1>2, <1>3, <1>4, <2>1, BeginTaken DEF Harmless
  <2>3. ~Waits(d)
    BY <1>2, <2>1, <2>2 DEF Waits, Taken, Harmless
  <2>4. Once(d)
    BY <2>2, <2>3 DEF Once, Taken
  <2> QED
    BY <2>4 DEF Pending, x
<1>5. CASE ~c.pend.mine
  <2>1. Harmless(d, x)
    BY <1>3, <1>5, BeginCalm
  <2>2. Once(d)
    BY <1>2, <2>1, CalmOnce
  <2> QED
    BY <2>2 DEF Pending, x
<1> QED
  BY <1>4, <1>5

\* Whatever happens to the connection, nothing goes out twice.
LEMMA PumpOnce ==
    ASSUME NEW c, Once(c), NEW d, d \in mf_http_cli_pump(c) \/ d \in PumpSettled(c)
    PROVE  Once(d)
<1>1. Loop(c) /\ Once(Pending(c)) /\ Loop(Pending(c))
  BY PendingOnce DEF Once
<1>2. \/ d = c
      \/ \E ok \in BOOLEAN : d = mf_http_cli_start(c, ok)
      \/ d = mark_up(c) \/ d = schedule_retry(c)
      \/ d = Pending(c) \/ d = schedule_retry(Pending(c))
      \/ \E shape \in Shapes(c.inflight.op) : d = parse_complete(c, shape)
  <2>1. CASE c.conn = "WAIT"
    BY <2>1 DEF mf_http_cli_pump, PumpSettled
  <2>2. CASE c.conn = "CONNECTING"
    BY <2>2 DEF mf_http_cli_pump, PumpSettled
  <2>3. CASE c.conn = "UP"
    BY <2>3 DEF mf_http_cli_pump, PumpSettled
  <2> QED
    BY <1>1, <2>1, <2>2, <2>3 DEF Loop
<1>3. \/ Harmless(d, c) \/ d = Pending(c) \/ Harmless(d, Pending(c))
  BY <1>1, <1>2, CalmSame, StartCalm, UpCalm, RetryCalm, CompleteCalm
<1> QED
  BY <1>1, <1>3, CalmOnce

----------------------------------------------------------------------------
(* A pass of the loop. *)

\* The screen polls.
LEMMA PollScreenCalm ==
    ASSUME NEW c, Loop(c)
    PROVE  Harmless(PollScreen(c), c)
<1> DEFINE r == Request(c, IF c.view THEN "view" ELSE "status")
           d == cli_begin(c, r)
<1>1. Harmless(d, c)
  <2>1. (IF c.view THEN "view" ELSE "status") \in Gets \union {"command"}
    BY DEF Gets, Polls
  <2> QED
    BY <2>1, OthersNotMine, BeginCalm
<1> HIDE DEF d
<1>2. Harmless([d EXCEPT !.get_left = REFRESH_S], d)
  BY <1>1 DEF Harmless, Loop, TuiFields
<1>3. PollScreen(c) \in {c, [d EXCEPT !.get_left = REFRESH_S]}
  BY DEF PollScreen, d
<1> QED
  BY <1>1, <1>2, <1>3, CalmSame, CalmThen

\* The drivers are asked for.
LEMMA FetchDriversCalm ==
    ASSUME NEW c, Loop(c)
    PROVE  Harmless(FetchDrivers(c), c)
<1> DEFINE d == cli_begin(c, Request(c, "drivers"))
<1>1. Harmless(d, c)
  <2>1. "drivers" \in Gets \union {"command"}
    BY DEF Gets
  <2> QED
    BY <2>1, OthersNotMine, BeginCalm
<1> HIDE DEF d
<1>2. Harmless([d EXCEPT !.add_fetch = 2], d)
  BY <1>1 DEF Harmless, Loop, TuiFields
<1>3. Harmless([c EXCEPT !.add_fetch = 0], c)
  BY DEF Harmless, Loop, TuiFields
<1>4. FetchDrivers(c) \in {c, [c EXCEPT !.add_fetch = 0], [d EXCEPT !.add_fetch = 2]}
  BY DEF FetchDrivers, d
<1> QED
  BY <1>1, <1>2, <1>3, <1>4, CalmSame, CalmThen

\* A reply is taken.
LEMMA TakeBodyCalm ==
    ASSUME NEW c, Loop(c)
    PROVE  Harmless(TakeBody(c), c)
<1> DEFINE last == IF c.body = "none" THEN c.last ELSE c.body
           tag == Tag(c)
<1>1. TakeBody(c) = [c EXCEPT !.last = last, !.body = "none", !.tag = tag, !.shown = FALSE]
  BY DEF TakeBody
<1> HIDE DEF last, tag
<1> DEFINE d == TakeBody(c)
<1>2. /\ d = [f \in TuiFields |-> d[f]]
      /\ d.conn = c.conn /\ d.backoff = c.backoff /\ d.inflight = c.inflight /\ d.pend = c.pend
      /\ d.form = c.form /\ d.saving = c.saving /\ d.asked = c.asked /\ d.sent = c.sent
      /\ d.put_pending = c.put_pending
  BY <1>1, ZenonT(40) DEF Loop, TuiFields
<1> HIDE DEF d
<1>3. Harmless(d, c)
  BY <1>2 DEF Harmless, Loop
<1> QED
  BY <1>3 DEF d

\* What the form no longer waits for is forgotten.
LEMMA ForgetCalm ==
    ASSUME NEW c, Loop(c)
    PROVE  Harmless(Forget(c), c)
<1> DEFINE open == FormOpen(c)
           fetch == c.fetch /\ open
           ovp == IF open /\ ~c.dirty THEN c.ovp ELSE 0
           put == c.put /\ c.saving
           put_pending == c.put_pending /\ (c.put => c.saving)
           act == c.act /\ open
<1>1. Forget(c) = [c EXCEPT !.fetch = fetch, !.ovp = ovp, !.put = put,
                            !.put_pending = put_pending, !.act = act]
  BY DEF Forget
<1>2. put_pending => c.put_pending
  OBVIOUS
<1> HIDE DEF fetch, ovp, put, put_pending, act
<1> DEFINE d == [c EXCEPT !.fetch = fetch, !.ovp = ovp, !.put = put,
                          !.put_pending = put_pending, !.act = act]
<1>3. Loop(d)
  BY ZenonT(40) DEF Loop, TuiFields
<1>4. /\ d.asked = c.asked /\ d.sent = c.sent /\ d.pend = c.pend
      /\ d.put_pending = put_pending
  BY DEF Loop, TuiFields
<1> QED
  BY <1>1, <1>2, <1>3, <1>4 DEF Harmless

\* A save that waited for the connection goes out.
LEMMA SendSaveOnce ==
    ASSUME NEW c, Once(c)
    PROVE  Once(SendSave(c))
<1> DEFINE r == Request(c, "save")
           d == cli_begin(c, r)
           e == [d EXCEPT !.put_pending = FALSE]
<1>1. Loop(c) /\ r \in Requests /\ r.mine = ("save" = c.asked)
  BY RequestType DEF Once, TuiOps
<1> HIDE DEF r
<1>2. ASSUME Loop(d)
      PROVE  /\ Loop(e) /\ ~Waits(e) /\ e.sent = d.sent /\ e.pend = d.pend
             /\ e.asked = d.asked
  BY <1>2 DEF Loop, Waits, TuiFields
<1>3. ASSUME c.put_pending PROVE Once(e)
  <2>1. CASE r.mine
    <3>1. c.sent = 0 /\ ~c.pend.mine
      BY <1>1, <1>3, <2>1 DEF Once, Waits
    <3>2. Taken(d, c)
      BY <1>1, <2>1, <3>1, BeginTaken
    <3> HIDE DEF d, e
    <3> QED
      BY <1>2, <3>2 DEF Once, Taken
  <2>2. CASE ~r.mine
    <3>1. Once(d)
      BY <1>1, <2>2, BeginCalm, CalmOnce
    <3> HIDE DEF d, e
    <3> QED
      BY <1>2, <3>1 DEF Once
  <2> QED
    BY <2>1, <2>2
<1> QED
  BY <1>3 DEF SendSave, r

\* A save ends for the form.
LEMMA PutResultCalm ==
    ASSUME NEW c, Loop(c), NEW shape
    PROVE  Harmless(mf_devset_put_result(c, shape), c)
<1> DEFINE dirty == IF shape = "error" THEN c.dirty ELSE FALSE
<1>1. Harmless([c EXCEPT !.saving = FALSE, !.dirty = dirty], c)
  <2> HIDE DEF dirty
  <2> QED
    BY DEF Harmless, Loop, TuiFields
<1> QED
  BY <1>1, CalmSame DEF mf_devset_put_result

\* A save is overdue; it does not wait for a connection any more.
LEMMA SaveOverdueCalm ==
    ASSUME NEW c, Loop(c)
    PROVE  Harmless(SaveOverdue(c), c)
<1> DEFINE d == [c EXCEPT !.put = FALSE, !.put_pending = FALSE]
<1>1. Harmless(d, c)
  BY DEF Harmless, Loop, TuiFields
<1> HIDE DEF d
<1>2. Harmless(mf_devset_put_result(d, "error"), d)
  BY <1>1, PutResultCalm DEF Harmless
<1> QED
  BY <1>1, <1>2, CalmSame, CalmThen DEF SaveOverdue, d

\* An action starts or does not.
LEMMA ActionReplyCalm ==
    ASSUME NEW c, Loop(c), NEW shape
    PROVE  Harmless(mf_devset_action_reply(c, shape), c)
<1> DEFINE wait == IF shape = "error" THEN 0 ELSE 2
<1>1. Harmless([c EXCEPT !.act_wait = wait], c)
  <2> HIDE DEF wait
  <2> QED
    BY DEF Harmless, Loop, TuiFields
<1> QED
  BY <1>1, CalmSame DEF mf_devset_action_reply

\* An action is overdue.
LEMMA ActionOverdueCalm ==
    ASSUME NEW c, Loop(c)
    PROVE  Harmless(ActionOverdue(c), c)
<1> DEFINE x == [c EXCEPT !.act = FALSE]
           d == IF c.act /\ c.act_left = 0 THEN mf_devset_action_reply(x, "error") ELSE c
<1>1. Harmless(d, c)
  <2>1. Harmless(x, c)
    BY DEF Harmless, Loop, TuiFields
  <2> HIDE DEF x
  <2>2. Harmless(mf_devset_action_reply(x, "error"), x)
    BY <2>1, ActionReplyCalm DEF Harmless
  <2> QED
    BY <2>1, <2>2, CalmSame, CalmThen
<1>2. ActionOverdue(c) = IF d.act_wait = 2 /\ d.act_left = 0 THEN mf_devset_action_timeout(d) ELSE d
  BY DEF ActionOverdue
<1> HIDE DEF d
<1>3. Harmless(mf_devset_action_timeout(d), d)
  BY <1>1 DEF mf_devset_action_timeout, Harmless, Loop, TuiFields
<1> QED
  BY <1>1, <1>2, <1>3, CalmThen

\* A form's settings are asked for.
LEMMA FetchSettingsCalm ==
    ASSUME NEW c, Loop(c)
    PROVE  Harmless(FetchSettings(c), c)
<1> DEFINE d == cli_begin(c, Request(c, "settings"))
<1>1. Harmless(d, c)
  <2>1. "settings" \in Gets \union {"command"}
    BY DEF Gets
  <2> QED
    BY <2>1, OthersNotMine, BeginCalm
<1>2. FetchSettings(c) = [d EXCEPT !.fetch = TRUE]
  BY DEF FetchSettings
<1> HIDE DEF d
<1>3. Harmless(FetchSettings(c), d)
  BY <1>1, <1>2 DEF Harmless, Loop, TuiFields
<1> QED
  BY <1>1, <1>3, CalmThen

\* They are asked for again.
LEMMA FetchesCalm ==
    ASSUME NEW c, Loop(c), NEW d, d \in FetchMissing(c) \/ d \in FetchResult(c)
    PROVE  Harmless(d, c)
<1> DEFINE e == FetchSettings(c)
           n == e.ovp - 1
           f == [e EXCEPT !.ovp = n]
<1>1. d \in {c, e, f}
  BY DEF FetchMissing, FetchResult
<1>2. Harmless(e, c)
  BY FetchSettingsCalm
<1> HIDE DEF e, n
<1>3. Harmless(f, e)
  BY <1>2 DEF Harmless, Loop, TuiFields
<1> HIDE DEF f
<1> QED
  BY <1>1, <1>2, <1>3, CalmSame, CalmThen

\* The form is closed.
LEMMA CloseFormCalm ==
    ASSUME NEW c, Loop(c)
    PROVE  Harmless(mf_devset_close(c), c)
<1> QED
  BY ZenonT(40) DEF mf_devset_close, Harmless, Loop, TuiFields

\* A new module is answered.
LEMMA AddReplyCalm ==
    ASSUME NEW c, Loop(c)
    PROVE  Harmless(add_reply(c), c)
<1> DEFINE d == [c EXCEPT !.add_wait = FALSE]
           closed == mf_devset_close(d)
<1>1. Harmless(d, c)
  BY DEF Harmless, Loop, TuiFields
<1>2. add_reply(c) \in {[d EXCEPT !.saving = FALSE], [closed EXCEPT !.get_left = 0]}
  BY DEF add_reply
<1> HIDE DEF d
<1>3. Harmless([d EXCEPT !.saving = FALSE], d) /\ Harmless(closed, d)
  BY <1>1, CloseFormCalm DEF Harmless, Loop, TuiFields
<1> HIDE DEF closed
<1>4. Harmless([closed EXCEPT !.get_left = 0], closed)
  BY <1>3 DEF Harmless, Loop, TuiFields
<1> QED
  BY <1>1, <1>2, <1>3, <1>4, CalmThen

\* A settings reply may show an action's result.
LEMMA ActionPollCalm ==
    ASSUME NEW c, Loop(c), NEW result
    PROVE  Harmless(mf_devset_action_poll(c, result), c)
<1>1. Harmless([c EXCEPT !.act_wait = 0], c)
  BY DEF Harmless, Loop, TuiFields
<1> QED
  BY <1>1, CalmSame DEF mf_devset_action_poll

\* A settings reply is handled.
LEMMA ApplySettingsCalm ==
    ASSUME NEW c, Loop(c), NEW e \in ApplySettings(c)
    PROVE  Harmless(e, c)
<1> DEFINE d == [c EXCEPT !.fetch = FALSE]
           polled == {mf_devset_action_poll(d, result) : result \in BOOLEAN}
<1>1. Harmless(d, c)
  BY DEF Harmless, Loop, TuiFields
<1>2. e = d \/ e \in polled \/ \E x \in polled : \E ovp \in {c.ovp, 0} : e = Filled(x, ovp)
  <2> DEFINE all == {Filled(x, ovp) : x \in polled, ovp \in {c.ovp, 0}}
  <2>1. ApplySettings(c) = IF c.last # "uuid" THEN {d} ELSE IF c.dirty THEN polled ELSE all
    BY DEF ApplySettings
  <2> HIDE DEF d, all
  <2>2. e = d \/ e \in polled \/ e \in all
    BY <2>1
  <2> HIDE DEF polled
  <2> QED
    BY <2>2 DEF all
<1> HIDE DEF d
<1>3. \A x \in polled : Harmless(x, d)
  BY <1>1, ActionPollCalm DEF Harmless
<1> HIDE DEF polled
<1>4. ASSUME NEW x, Loop(x), NEW ovp PROVE Harmless(Filled(x, ovp), x)
  BY <1>4 DEF Filled, Harmless, Loop, TuiFields
<1>5. \A x \in polled : Harmless(x, c) /\ Loop(x)
  BY <1>1, <1>3, CalmThen DEF Harmless
<1>6. \A x \in polled : \A ovp \in {c.ovp, 0} : Harmless(Filled(x, ovp), c)
  BY <1>4, <1>5, CalmThen
<1> QED
  BY <1>1, <1>2, <1>5, <1>6

\* A reply to a poll is shown, and the history asked for.
LEMMA ShowCalm ==
    ASSUME NEW c, Loop(c), NEW new
    PROVE  Harmless(Show(c, new), c)
<1> DEFINE d == [c EXCEPT !.shown = new]
           r == Request(c, "history")
<1>1. Harmless(d, c)
  BY DEF Harmless, Loop, TuiFields
<1>2. Show(c, new) \in {c, d, cli_begin(d, r)}
  BY DEF Show
<1>3. r \in Requests /\ ~r.mine
  BY OthersNotMine DEF Gets
<1> HIDE DEF d, r
<1>4. Harmless(cli_begin(d, r), d)
  BY <1>1, <1>3, BeginCalm DEF Harmless
<1> QED
  BY <1>1, <1>2, <1>4, CalmSame, CalmThen

\* A reply goes to whoever waits for one of its shape.
LEMMA DispatchCalm ==
    ASSUME NEW c, Loop(c), NEW new, NEW d \in Dispatch(c, new)
    PROVE  Harmless(d, c)
<1> DEFINE put == [c EXCEPT !.put = FALSE]
           saved == mf_devset_put_result(put, c.last)
           act == [c EXCEPT !.act = FALSE]
           acted == mf_devset_action_reply(act, c.last)
<1>1. \/ d = show_driver_picker(c) \/ d = add_reply(c) \/ d = [saved EXCEPT !.get_left = 0]
      \/ d = [acted EXCEPT !.act_left = DEVSET_ACT_TMO_S]
      \/ d \in ApplySettings(c) \/ d = Show(c, new)
  BY DEF Dispatch
<1>2. Harmless(put, c) /\ Harmless(act, c)
  BY DEF Harmless, Loop, TuiFields
<1> HIDE DEF put, act
<1>3. Harmless(saved, c) /\ Harmless(acted, c)
  BY <1>2, PutResultCalm, ActionReplyCalm, CalmThen DEF Harmless
<1> HIDE DEF saved, acted
<1>4. Harmless([saved EXCEPT !.get_left = 0], saved)
  BY <1>3 DEF Harmless, Loop, TuiFields
<1>5. Harmless([acted EXCEPT !.act_left = DEVSET_ACT_TMO_S], acted)
  BY <1>3 DEF Harmless, Loop, TuiFields
<1>6. Harmless(show_driver_picker(c), c)
  BY DEF show_driver_picker, Harmless, Loop, TuiFields
<1> QED
  BY <1>1, <1>3, <1>4, <1>5, <1>6, AddReplyCalm, ApplySettingsCalm, ShowCalm, CalmThen

\* The daemon is marked stale, or not.
LEMMA SilentCalm ==
    ASSUME NEW c, Loop(c), NEW d \in Silent(c)
    PROVE  Harmless(d, c)
<1>1. d \in {c, [c EXCEPT !.stale = TRUE]}
  BY DEF Silent
<1>2. Harmless([c EXCEPT !.stale = TRUE], c)
  BY DEF Harmless, Loop, TuiFields
<1> QED
  BY <1>1, <1>2, CalmSame

\* One pass of the loop sends no more than what waits.
LEMMA RunOnce ==
    ASSUME Once(tui), mf_tui_run
    PROVE  Once(tui')
<1>1. PICK pumped \in IF tui_settled THEN PumpSettled(tui) ELSE mf_http_cli_pump(tui) :
      \E polled \in {FetchDrivers(PollScreen(pumped))} :
      \E kept \in {SaveOverdue(SendSave(Forget(TakeBody(polled))))} :
      \E asked \in FetchMissing(kept) :
      \E ready \in FetchResult(ActionOverdue(asked)) :
      \E done \in IF Dirty(polled) THEN Dispatch(ready, polled.body # "none") ELSE {ready} :
         tui' \in Silent(done)
  BY DEF mf_tui_run
<1> DEFINE polled == FetchDrivers(PollScreen(pumped))
           kept == SaveOverdue(SendSave(Forget(TakeBody(polled))))
<1>2. PICK asked \in FetchMissing(kept) :
      \E ready \in FetchResult(ActionOverdue(asked)) :
      \E done \in IF Dirty(polled) THEN Dispatch(ready, polled.body # "none") ELSE {ready} :
         tui' \in Silent(done)
  BY <1>1
<1>3. PICK ready \in FetchResult(ActionOverdue(asked)) :
      \E done \in IF Dirty(polled) THEN Dispatch(ready, polled.body # "none") ELSE {ready} :
         tui' \in Silent(done)
  BY <1>2
<1>4. PICK done \in IF Dirty(polled) THEN Dispatch(ready, polled.body # "none") ELSE {ready} :
         tui' \in Silent(done)
  BY <1>3
<1>5. Once(pumped)
  BY PumpOnce
<1>6. \A c : Once(c) => Loop(c)
  BY DEF Once
<1>7. Once(PollScreen(pumped))
  BY <1>5, <1>6, PollScreenCalm, CalmOnce
<1>8. Once(polled)
  BY <1>6, <1>7, FetchDriversCalm, CalmOnce
<1> HIDE DEF polled
<1>9. Once(TakeBody(polled))
  BY <1>6, <1>8, TakeBodyCalm, CalmOnce
<1>10. Once(Forget(TakeBody(polled)))
  BY <1>6, <1>9, ForgetCalm, CalmOnce
<1>11. Once(SendSave(Forget(TakeBody(polled))))
  BY <1>10, SendSaveOnce
<1>12. Once(kept)
  BY <1>6, <1>11, SaveOverdueCalm, CalmOnce
<1> HIDE DEF kept
<1>13. Once(asked)
  BY <1>6, <1>12, FetchesCalm, CalmOnce
<1>14. Once(ActionOverdue(asked))
  BY <1>6, <1>13, ActionOverdueCalm, CalmOnce
<1>15. Once(ready)
  BY <1>6, <1>14, FetchesCalm, CalmOnce
<1>16. Once(done)
  BY <1>4, <1>6, <1>15, DispatchCalm, CalmOnce
<1> QED
  BY <1>4, <1>6, <1>16, SilentCalm, CalmOnce

----------------------------------------------------------------------------
(* Keys. *)

\* That a key was pressed is counted.
LEMMA KeyOnce ==
    ASSUME NEW c, Once(c), Key(c)
    PROVE  Once(tui')
<1> DEFINE n == c.keys + 1
<1>1. tui' = [c EXCEPT !.keys = n]
  BY DEF Key
<1> HIDE DEF n
<1>2. Harmless([c EXCEPT !.keys = n], c)
  BY DEF Once, Harmless, Loop, TuiFields
<1> QED
  BY <1>1, <1>2, CalmOnce

\* No request is nobody's.
LEMMA NoneNotMine == [NoRequest EXCEPT !.mine = FALSE] = NoRequest
<1>1. ASSUME NEW o, NEW m PROVE [[op |-> o, mine |-> m] EXCEPT !.mine = m] = [op |-> o, mine |-> m]
  OBVIOUS
<1>2. NoRequest = [op |-> "none", mine |-> FALSE]
  BY DEF NoRequest
<1> QED
  BY <1>1, <1>2, Zenon

\* What was asked for before is forgotten.
LEMMA AskingFresh ==
    ASSUME NEW c, Loop(c), NEW op \in {"save", "action", "add"}
    PROVE  LET d == Asking(c, op)
           IN /\ Loop(d) /\ d.asked = op /\ d.sent = 0 /\ ~d.pend.mine
              /\ d.conn = c.conn
<1> DEFINE i == [c.inflight EXCEPT !.mine = FALSE]
           p == [c.pend EXCEPT !.mine = FALSE]
           d == [c EXCEPT !.asked = op, !.sent = 0, !.answer = "none",
                          !.inflight = i, !.pend = p]
<1>1. Asking(c, op) = d
  BY DEF Asking, Loop, TuiFields
<1>2. p \in Requests /\ ~p.mine /\ MayWait(p)
  BY DEF Loop, Requests, MayWait
<1>4. c.conn = "UP" \/ i = NoRequest
  <2>1. [NoRequest EXCEPT !.mine = FALSE] = NoRequest
    BY NoneNotMine
  <2>2. c.conn = "UP" \/ c.inflight = NoRequest
    BY DEF Loop
  <2>3. c.inflight = NoRequest => i = [NoRequest EXCEPT !.mine = FALSE]
    BY Zenon
  <2>4. c.inflight = NoRequest => i = NoRequest
    BY <2>1, <2>3
  <2> HIDE DEF i
  <2> QED
    BY <2>2, <2>4
<1> HIDE DEF i, p
<1>3. Loop(d) /\ d.asked = op /\ d.sent = 0 /\ d.pend = p /\ d.conn = c.conn
  BY <1>2, <1>4, ZenonT(40) DEF Loop, TuiFields
<1> QED
  BY <1>1, <1>2, <1>3

\* A key that only asks for something to be shown, or for a command.
LEMMA AskOnce ==
    ASSUME NEW c, Once(c), NEW op \in Gets \union {"command"}
    PROVE  Once(cli_begin(c, Request(c, op)))
<1>1. Loop(c)
  BY DEF Once
<1> QED
  BY <1>1, OthersNotMine, BeginCalm, CalmOnce

\* Whatever the user does, what was asked for last has gone out at most once.
LEMMA KeysOnce ==
    ASSUME Once(tui), TuiKeys
    PROVE  Once(tui')
<1>1. Loop(tui)
  BY DEF Once
<1>2. ASSUME NEW c, Harmless(c, tui), Key(c) PROVE Once(tui')
  BY <1>2, CalmOnce, KeyOnce
<1>3. ASSUME mf_ui_open_device_settings PROVE Once(tui')
  <2> DEFINE c == [tui EXCEPT !.form = "edit", !.fetch = TRUE, !.ovp = OVP_TRIES]
             r == Request(tui, "settings")
  <2>1. Harmless(c, tui)
    BY <1>1 DEF Harmless, Loop, TuiFields
  <2>2. r \in Requests /\ ~r.mine
    BY <1>1, OthersNotMine DEF Gets
  <2>3. Key(cli_begin(c, r))
    BY <1>3 DEF mf_ui_open_device_settings
  <2> HIDE DEF c, r
  <2> QED
    BY <1>2, <2>1, <2>2, <2>3, BeginCalm, CalmThen DEF Harmless
<1>4. ASSUME modify_apply PROVE Once(tui')
  <2> DEFINE dirty == ~tui.dirty
             c == [tui EXCEPT !.dirty = dirty]
  <2>1. Key(c)
    BY <1>4 DEF modify_apply
  <2> HIDE DEF dirty
  <2>2. Harmless(c, tui)
    BY <1>1 DEF Harmless, Loop, TuiFields
  <2> QED
    BY <1>2, <2>1, <2>2
<1>5. ASSUME on_save PROVE Once(tui')
  <2> DEFINE x == [tui EXCEPT !.saving = TRUE]
             c == Asking(x, "save")
             later == c.conn # "UP"
             d == [c EXCEPT !.put = TRUE, !.put_pending = later, !.put_left = DEVSET_PUT_TMO_S]
             r == Request(c, "save")
             e == cli_begin(d, r)
  <2>1. Loop(x)
    BY <1>1, <1>5 DEF on_save, AtForm, Loop, TuiFields
  <2> HIDE DEF x
  <2>2. Loop(c) /\ c.asked = "save" /\ c.sent = 0 /\ ~c.pend.mine
    BY <2>1, AskingFresh
  <2>3. Key(e)
    BY <1>5 DEF on_save, put_devset, x
  <2>4. r \in Requests /\ r.mine
    BY <2>2, RequestType DEF TuiOps
  <2> HIDE DEF c, r
  <2>5. later \in BOOLEAN
    OBVIOUS
  <2> HIDE DEF later
  <2>6. /\ Loop(d) /\ d.asked = c.asked /\ d.sent = c.sent /\ d.pend = c.pend
        /\ d.conn = c.conn /\ d.put_pending = later
    BY <2>2, <2>5 DEF Loop, TuiFields
  <2> HIDE DEF d
  <2>7. Taken(e, d)
    BY <2>2, <2>4, <2>6, BeginTaken
  <2>8. d.conn # "UP" => e = d
    BY <2>7 DEF Taken
  <2>9. d.conn = "UP" => ~Waits(e)
    BY <2>6, <2>7 DEF Taken, Waits, later
  <2> HIDE DEF e
  <2>10. Once(e)
    BY <2>2, <2>6, <2>7, <2>8, <2>9 DEF Once, Taken
  <2> QED
    BY <2>3, <2>10, KeyOnce
<1>6. ASSUME action_start PROVE Once(tui')
  <2> DEFINE x == [tui EXCEPT !.act_wait = 1, !.act_left = DEVSET_PUT_TMO_S]
             c == Asking(x, "action")
             idle == [c EXCEPT !.act = FALSE]
             busy == [c EXCEPT !.act = TRUE]
             r == Request(c, "action")
             e == post_devset_action(c)
  <2>1. Loop(x)
    BY <1>1 DEF Loop, TuiFields
  <2> HIDE DEF x
  <2>2. Loop(c) /\ c.asked = "action" /\ c.sent = 0 /\ ~c.pend.mine
    BY <2>1, AskingFresh
  <2>3. Key(e)
    BY <1>6 DEF action_start, x
  <2>4. r \in Requests /\ r.mine
    BY <2>2, RequestType DEF TuiOps
  <2>5. e = IF c.conn # "UP" THEN mf_devset_action_reply(idle, "error") ELSE cli_begin(busy, r)
    BY DEF post_devset_action
  <2> HIDE DEF c, r, e
  <2>6. Harmless(idle, c) /\ Harmless(busy, c)
    BY <2>2 DEF Harmless, Loop, TuiFields
  <2> HIDE DEF idle, busy
  <2>7. Once(c)
    BY <2>2 DEF Once
  <2>8. Once(mf_devset_action_reply(idle, "error"))
    BY <2>6, <2>7, ActionReplyCalm, CalmOnce DEF Harmless
  <2>9. Taken(cli_begin(busy, r), busy)
    BY <2>2, <2>4, <2>6, BeginTaken DEF Harmless
  <2>10. Once(cli_begin(busy, r))
    BY <2>2, <2>6, <2>9 DEF Once, Taken, Waits, Harmless
  <2> QED
    BY <2>3, <2>5, <2>8, <2>10, KeyOnce
<1>7. ASSUME on_close PROVE Once(tui')
  BY <1>1, <1>2, <1>7, CloseFormCalm DEF on_close
<1>8. ASSUME mf_ui_add_module PROVE Once(tui')
  <2> DEFINE c == [tui EXCEPT !.add_fetch = 1]
  <2>1. Harmless(c, tui)
    BY <1>1 DEF Harmless, Loop, TuiFields
  <2>2. Key(c)
    BY <1>8 DEF mf_ui_add_module
  <2> QED
    BY <1>2, <2>1, <2>2
<1>9. ASSUME on_pick PROVE Once(tui')
  <2> DEFINE closed == mf_devset_close(tui)
             c == [closed EXCEPT !.picker = FALSE, !.form = "add"]
             d == [tui EXCEPT !.picker = FALSE]
  <2>1. Key(c) \/ Key(d)
    BY <1>9 DEF on_pick
  <2>2. Harmless(closed, tui) /\ ~closed.saving
    BY <1>1, CloseFormCalm DEF mf_devset_close, Loop, TuiFields
  <2> HIDE DEF closed
  <2>3. Harmless(c, closed) /\ Harmless(d, tui)
    BY <1>1, <2>2 DEF Harmless, Loop, TuiFields
  <2> HIDE DEF c, d
  <2> QED
    BY <1>2, <2>1, <2>2, <2>3, CalmThen
<1>10. ASSUME post_new_module PROVE Once(tui')
  <2> DEFINE c == Asking(tui, "add")
             d == [c EXCEPT !.add_wait = TRUE]
             r == Request(c, "add")
             e == cli_begin(d, r)
  <2>1. Loop(c) /\ c.asked = "add" /\ c.sent = 0 /\ ~c.pend.mine
    BY <1>1, AskingFresh
  <2>2. Key(IF c.conn # "UP" THEN c ELSE e)
    BY <1>10 DEF post_new_module
  <2>3. r \in Requests /\ r.mine
    BY <2>1, RequestType DEF TuiOps
  <2> HIDE DEF c, r
  <2>4. Harmless(d, c)
    BY <2>1 DEF Harmless, Loop, TuiFields
  <2> HIDE DEF d
  <2>5. Taken(e, d)
    BY <2>1, <2>3, <2>4, BeginTaken DEF Harmless
  <2> HIDE DEF e
  <2>6. Once(c) /\ Once(e)
    BY <2>1, <2>4, <2>5 DEF Once, Taken, Waits, Harmless
  <2> QED
    BY <2>2, <2>6, KeyOnce
<1>11. ASSUME mf_ui_open_device_view PROVE Once(tui')
  <2> DEFINE c == [tui EXCEPT !.view = TRUE]
             r == Request(tui, "view")
  <2>1. Harmless(c, tui)
    BY <1>1 DEF Harmless, Loop, TuiFields
  <2>2. r \in Requests /\ ~r.mine
    BY <1>1, OthersNotMine DEF Gets, Polls
  <2>3. Key(cli_begin(c, r))
    BY <1>11 DEF mf_ui_open_device_view
  <2> HIDE DEF c, r
  <2> QED
    BY <1>2, <2>1, <2>2, <2>3, BeginCalm, CalmThen DEF Harmless
<1>12. ASSUME mf_ui_show_dashboard PROVE Once(tui')
  <2> DEFINE c == [tui EXCEPT !.view = FALSE]
  <2>1. Harmless(c, tui)
    BY <1>1 DEF Harmless, Loop, TuiFields
  <2>2. Key(c)
    BY <1>12 DEF mf_ui_show_dashboard
  <2> QED
    BY <1>2, <2>1, <2>2
<1>13. ASSUME mf_ui_request_history PROVE Once(tui')
  <2>1. Key(cli_begin(tui, Request(tui, "history")))
    BY <1>13 DEF mf_ui_request_history
  <2>2. Once(cli_begin(tui, Request(tui, "history")))
    BY AskOnce DEF Gets
  <2> QED
    BY <2>1, <2>2, KeyOnce
<1> DEFINE command == cli_begin(tui, Request(tui, "command"))
<1>14. Harmless(command, tui)
  BY <1>1, OthersNotMine, BeginCalm
<1>15. ASSUME post_switch PROVE Once(tui')
  BY <1>2, <1>14, <1>15 DEF post_switch
<1>16. ASSUME ToggleActive PROVE Once(tui')
  <2> DEFINE c == [command EXCEPT !.get_left = 0]
  <2>1. Key(c)
    BY <1>16 DEF ToggleActive
  <2> HIDE DEF command
  <2>2. Harmless(c, command)
    BY <1>14 DEF Harmless, Loop, TuiFields
  <2> HIDE DEF c
  <2> QED
    BY <1>2, <1>14, <2>1, <2>2, CalmThen
<1>17. ASSUME remove_confirmed PROVE Once(tui')
  <2>1. PICK leave \in BOOLEAN : Key([command EXCEPT !.get_left = 0, !.view = @ /\ ~leave])
    BY <1>17 DEF remove_confirmed
  <2> DEFINE view == command.view /\ ~leave
             c == [command EXCEPT !.get_left = 0, !.view = view]
  <2>2. Key(c)
    BY <2>1
  <2> HIDE DEF command, view
  <2>3. Harmless(c, command)
    BY <1>14 DEF Harmless, Loop, TuiFields
  <2> HIDE DEF c
  <2> QED
    BY <1>2, <1>14, <2>2, <2>3, CalmThen
<1> QED
  BY <1>3, <1>4, <1>5, <1>6, <1>7, <1>8, <1>9, <1>10, <1>11, <1>12, <1>13, <1>15, <1>16, <1>17
     DEF TuiKeys

\* Time passes.
LEMMA TickOnce ==
    ASSUME Once(tui), TuiTick
    PROVE  Once(tui')
<1> DEFINE n1 == Pass(tui.next_try)
           n2 == Pass(tui.left)
           n3 == Pass(tui.get_left)
           n4 == Pass(tui.put_left)
           n5 == Pass(tui.act_left)
           c == [tui EXCEPT !.next_try = n1, !.left = n2, !.get_left = n3, !.put_left = n4,
                            !.act_left = n5]
<1>1. tui' = c
  BY DEF TuiTick
<1> HIDE DEF n1, n2, n3, n4, n5
<1>2. Harmless(c, tui)
  BY ZenonT(40) DEF Once, Harmless, Loop, TuiFields
<1> QED
  BY <1>1, <1>2, CalmOnce

\* The interface starts with nothing asked for,
LEMMA TuiStarts == TuiInit => Once(tui) /\ tui_settled \in BOOLEAN
<1>1. BACKOFF_MIN \in BACKOFF_MIN .. BACKOFF_MAX
  BY TuiAssumption
<1>2. TuiInit => Once(tui)
  BY <1>1, NoneWaits DEF TuiInit, TuiStart, Once, Loop, TuiFields, Waits
<1>3. TuiInit => tui_settled = FALSE
  BY DEF TuiInit
<1> QED
  BY <1>2, <1>3

\* and whatever it does, nothing goes out twice.
LEMMA TuiKeeps ==
    ASSUME Once(tui), [TuiNext]_tui_vars
    PROVE  Once(tui')
<1>1. CASE TuiSettle \/ UNCHANGED tui_vars
  <2>1. tui' = tui
    BY <1>1 DEF TuiSettle, tui_vars
  <2> QED
    BY <2>1
<1> QED
  BY <1>1, RunOnce, KeysOnce, TickOnce DEF TuiNext

\* However often the connection is lost and made again, what the user asked for once - a
\* save, an action, a new module - goes out at most once (put_devset, cli_begin,
\* mf_tui_run), whatever the timeouts and however much the user does.
THEOREM SentOnceHolds == TuiSpec => []SentOnce
<1>1. TuiInit => Once(tui)
  BY TuiStarts
<1>2. Once(tui) /\ [TuiNext]_tui_vars => Once(tui)'
  BY TuiKeeps
<1>3. Once(tui) => SentOnce
  BY DEF Once, SentOnce
<1> QED
  BY <1>1, <1>2, <1>3, PTL DEF TuiSpec

----------------------------------------------------------------------------
(* The Textbelt service: the hourly cap. *)

\* A set of natural numbers that is not empty has a least element.
LEMMA Least ==
    ASSUME NEW T, T \subseteq Nat, T # {}
    PROVE  \E x \in T : \A y \in T : x <= y
<1> DEFINE R == OpToRel(<, Nat)
<1>1. IsWellFoundedOn(R, Nat)
  BY NatLessThanWellFounded
<1>2. \A x, y \in Nat : <<x, y>> \in R <=> x < y
  BY DEF OpToRel
<1> HIDE DEF R
<1>3. PICK x \in T : \A y \in T : ~(<<y, x>> \in R)
  BY <1>1, WFMin
<1>4. \A y \in T : x <= y
  <2> TAKE y \in T
  <2>1. x \in Nat /\ y \in Nat
    OBVIOUS
  <2>2. ~(y < x)
    BY <1>2, <1>3, <2>1
  <2> QED BY <2>1, <2>2
<1> QED BY <1>4

\* Times in the order in which they end.
InOrder(s) ==
    /\ s \in Seq(1 .. TB_HOUR)
    /\ \A i, j \in 1 .. Len(s) : i <= j => s[i] <= s[j]

\* The newest n entries are the last ones.
LEMMA NewestIs ==
    ASSUME NEW S, NEW s \in Seq(S), NEW n \in Nat
    PROVE  /\ Newest(s, n) \in Seq(S)
           /\ Len(Newest(s, n)) = (IF Len(s) <= n THEN Len(s) ELSE n)
           /\ \A i \in 1 .. Len(Newest(s, n)) :
                 Newest(s, n)[i] = s[Len(s) - Len(Newest(s, n)) + i]
<1>1. CASE Len(s) <= n
  <2>1. Newest(s, n) = s
    BY <1>1 DEF Newest
  <2> QED
    BY <1>1, <2>1
<1>2. CASE ~(Len(s) <= n)
  <2>1. Newest(s, n) = SubSeq(s, Len(s) - n + 1, Len(s))
    BY <1>2 DEF Newest
  <2> DEFINE a == Len(s) - n + 1
  <2>2. a \in 1 .. Len(s) + 1 /\ Len(s) - a + 1 = n
    BY <1>2
  <2>3. /\ SubSeq(s, a, Len(s)) \in Seq(S)
        /\ Len(SubSeq(s, a, Len(s))) = n
        /\ \A i \in 1 .. n : SubSeq(s, a, Len(s))[i] = s[a + i - 1]
    BY <1>2, <2>2
  <2> QED
    BY <1>2, <2>1, <2>3
<1> QED
  BY <1>1, <1>2

\* Two sequences of the same length and entries are the same.
LEMMA SameSeq ==
    ASSUME NEW S, NEW s \in Seq(S), NEW t \in Seq(S), Len(s) = Len(t),
           \A i \in 1 .. Len(s) : s[i] = t[i]
    PROVE  s = t
  BY SeqEqual

\* What is forgotten before more is added would be forgotten after it.
LEMMA NewestConcat ==
    ASSUME NEW S, NEW s \in Seq(S), NEW t \in Seq(S), NEW n \in Nat
    PROVE  Newest(Newest(s, n) \o t, n) = Newest(s \o t, n)
<1> DEFINE a == Newest(s, n)
           b == a \o t
           c == s \o t
<1>1. /\ a \in Seq(S) /\ Len(a) = (IF Len(s) <= n THEN Len(s) ELSE n)
      /\ \A i \in 1 .. Len(a) : a[i] = s[Len(s) - Len(a) + i]
  BY NewestIs
<1> HIDE DEF a
<1>2. /\ b \in Seq(S) /\ Len(b) = Len(a) + Len(t)
      /\ \A i \in 1 .. Len(b) : b[i] = IF i <= Len(a) THEN a[i] ELSE t[i - Len(a)]
  BY <1>1
<1>3. /\ c \in Seq(S) /\ Len(c) = Len(s) + Len(t)
      /\ \A i \in 1 .. Len(c) : c[i] = IF i <= Len(s) THEN s[i] ELSE t[i - Len(s)]
  OBVIOUS
<1> HIDE DEF b, c
<1>10. b \in Seq(S) /\ c \in Seq(S)
  BY <1>2, <1>3
<1>4. /\ Newest(b, n) \in Seq(S)
      /\ Len(Newest(b, n)) = (IF Len(b) <= n THEN Len(b) ELSE n)
      /\ \A i \in 1 .. Len(Newest(b, n)) : Newest(b, n)[i] = b[Len(b) - Len(Newest(b, n)) + i]
  BY <1>10, NewestIs
<1>5. /\ Newest(c, n) \in Seq(S)
      /\ Len(Newest(c, n)) = (IF Len(c) <= n THEN Len(c) ELSE n)
      /\ \A i \in 1 .. Len(Newest(c, n)) : Newest(c, n)[i] = c[Len(c) - Len(Newest(c, n)) + i]
  BY <1>10, NewestIs
<1> DEFINE u == Newest(b, n)
           v == Newest(c, n)
<1> HIDE DEF u, v
<1>6. Len(u) = Len(v)
  BY <1>1, <1>2, <1>3, <1>4, <1>5 DEF u, v
<1>7. ASSUME NEW i \in 1 .. Len(u) PROVE u[i] = v[i]
  <2> DEFINE j == Len(b) - Len(u) + i
             k == Len(c) - Len(u) + i
  <2>1. /\ Len(s) \in Nat /\ Len(t) \in Nat /\ Len(a) \in Nat /\ Len(u) \in Nat
        /\ Len(a) <= Len(s)
    BY <1>1, <1>4 DEF u
  <2>2. /\ j \in 1 .. Len(b) /\ k \in 1 .. Len(c) /\ k = j + (Len(s) - Len(a))
    BY <1>2, <1>3, <1>4, <1>5, <1>6, <2>1 DEF u, v
  <2>3. u[i] = b[j] /\ v[i] = c[k]
    BY <1>4, <1>5, <1>6, <1>7 DEF u, v
  <2>4. CASE j <= Len(a)
    <3>1. j \in 1 .. Len(a) /\ k <= Len(s)
      BY <2>1, <2>2, <2>4
    <3>2. Len(s) - Len(a) + j = k
      BY <2>1, <2>2, <3>1
    <3> HIDE DEF j, k
    <3>3. b[j] = a[j]
      BY <1>2, <2>2, <2>4
    <3>4. a[j] = s[Len(s) - Len(a) + j]
      BY <1>1, <3>1
    <3>5. c[k] = s[k]
      BY <1>3, <2>2, <3>1
    <3> QED
      BY <2>3, <3>2, <3>3, <3>4, <3>5
  <2>5. CASE ~(j <= Len(a))
    <3>1. ~(k <= Len(s)) /\ k - Len(s) = j - Len(a)
      BY <2>1, <2>2, <2>5
    <3>2. b[j] = t[j - Len(a)] /\ c[k] = t[k - Len(s)]
      BY <1>2, <1>3, <2>2, <2>5, <3>1
    <3> QED
      BY <2>3, <3>1, <3>2
  <2> QED
    BY <2>4, <2>5
<1>8. u \in Seq(S) /\ v \in Seq(S)
  BY <1>4, <1>5 DEF u, v
<1>9. u = v
  BY <1>6, <1>7, <1>8, SameSeq
<1> QED
  BY <1>9 DEF u, v, a, b, c

\* A tick of the clock takes from the front what is past the hour.
LEMMA AgeIs ==
    ASSUME NEW s, InOrder(s)
    PROVE  \E k \in 0 .. Len(s) :
              /\ \A i \in 1 .. Len(s) : s[i] = 1 <=> i <= k
              /\ Age(s) = [i \in 1 .. Len(s) - k |-> s[i + k] - 1]
<1> DEFINE N == {i \in 1 .. Len(s) : s[i] # 1}
<1>1. s \in Seq(1 .. TB_HOUR) /\ Len(s) \in Nat /\ DOMAIN s = 1 .. Len(s)
  BY DEF InOrder
<1>2. \A i \in 1 .. Len(s) : s[i] \in 1 .. TB_HOUR
  BY <1>1, ElementOfSeq
<1>3. \E k \in 0 .. Len(s) : \A i \in 1 .. Len(s) : s[i] = 1 <=> i <= k
  <2>1. CASE N = {}
    <3>1. \A i \in 1 .. Len(s) : s[i] = 1 /\ i <= Len(s)
      BY <1>1, <2>1
    <3>2. Len(s) \in 0 .. Len(s) /\ \A i \in 1 .. Len(s) : s[i] = 1 <=> i <= Len(s)
      BY <1>1, <3>1
    <3> QED
      BY <3>2
  <2>2. CASE N # {}
    <3>1. N \subseteq Nat
      OBVIOUS
    <3>2. PICK m \in N : \A i \in N : m <= i
      BY <2>2, <3>1, Least
    <3>3. m - 1 \in 0 .. Len(s) /\ m \in 1 .. Len(s) /\ s[m] # 1
      BY <1>1, <3>2
    <3>4. ASSUME NEW i \in 1 .. Len(s) PROVE s[i] = 1 <=> i <= m - 1
      <4>1. CASE i <= m - 1
        BY <3>2, <3>3, <4>1
      <4>2. CASE ~(i <= m - 1)
        <5>1. m <= i
          BY <3>3, <4>2
        <5>2. s[m] <= s[i] /\ s[m] \in 1 .. TB_HOUR /\ s[i] \in 1 .. TB_HOUR
          BY <1>2, <3>3, <5>1 DEF InOrder
        <5> QED
          BY <3>3, <4>2, <5>2, TbAssumption
      <4> QED
        BY <4>1, <4>2
    <3> QED
      BY <3>3, <3>4
  <2> QED
    BY <2>1, <2>2
<1>4. PICK k \in 0 .. Len(s) : \A i \in 1 .. Len(s) : s[i] = 1 <=> i <= k
  BY <1>3
<1>5. {i \in DOMAIN s : s[i] = 1} = 1 .. k
  BY <1>1, <1>4
<1>6. Cardinality(1 .. k) = k
  BY FS_Interval
<1>7. Age(s) = [i \in 1 .. Len(s) - k |-> s[i + k] - 1]
  BY <1>5, <1>6 DEF Age
<1> QED
  BY <1>4, <1>7

\* What is left of an hour's acceptances is in order.
LEMMA AgeOrdered ==
    ASSUME NEW s, InOrder(s)
    PROVE  InOrder(Age(s)) /\ Len(Age(s)) <= Len(s)
<1>1. PICK k \in 0 .. Len(s) :
         /\ \A i \in 1 .. Len(s) : s[i] = 1 <=> i <= k
         /\ Age(s) = [i \in 1 .. Len(s) - k |-> s[i + k] - 1]
  BY AgeIs
<1>2. Len(s) \in Nat /\ k \in Nat /\ Len(s) - k \in Nat /\ Len(s) - k <= Len(s)
  BY <1>1 DEF InOrder
<1>3. ASSUME NEW i \in 1 .. Len(s) - k
      PROVE  /\ i + k \in 1 .. Len(s) /\ s[i + k] \in 1 .. TB_HOUR
             /\ s[i + k] - 1 \in 1 .. TB_HOUR
  <2>1. i + k \in 1 .. Len(s) /\ ~(i + k <= k)
    BY <1>2
  <2>2. s[i + k] \in 1 .. TB_HOUR
    BY <2>1, ElementOfSeq DEF InOrder
  <2>3. s[i + k] # 1
    BY <1>1, <2>1
  <2> QED
    BY <2>1, <2>2, <2>3, TbAssumption
<1>4. Age(s) \in Seq(1 .. TB_HOUR) /\ Len(Age(s)) = Len(s) - k
  <2>1. Age(s) \in [1 .. Len(s) - k -> 1 .. TB_HOUR]
    BY <1>1, <1>3
  <2>2. Age(s) \in Seq(1 .. TB_HOUR)
    <3> DEFINE n == Len(s) - k
    <3>1. n \in Nat /\ Age(s) \in [1 .. n -> 1 .. TB_HOUR]
      BY <1>2, <2>1
    <3> HIDE DEF n
    <3> QED
      BY <3>1, SeqDef
  <2> QED
    BY <1>2, <2>1, <2>2
<1>5. ASSUME NEW i \in 1 .. Len(Age(s)), NEW j \in 1 .. Len(Age(s)), i <= j
      PROVE  Age(s)[i] <= Age(s)[j]
  <2>1. i \in 1 .. Len(s) - k /\ j \in 1 .. Len(s) - k
    BY <1>4
  <2>2. Age(s)[i] = s[i + k] - 1 /\ Age(s)[j] = s[j + k] - 1
    BY <1>1, <2>1
  <2>3. i + k <= j + k /\ i + k \in 1 .. Len(s) /\ j + k \in 1 .. Len(s)
    BY <1>2, <1>5, <2>1
  <2>4. s[i + k] <= s[j + k]
    BY <2>3 DEF InOrder
  <2>5. s[i + k] \in 1 .. TB_HOUR /\ s[j + k] \in 1 .. TB_HOUR
    BY <1>3, <2>1
  <2>6. s[i + k] - 1 <= s[j + k] - 1
    BY <2>4, <2>5, TbAssumption
  <2> QED
    BY <2>2, <2>6
<1> QED
  BY <1>2, <1>4, <1>5 DEF InOrder

\* The newest n of an hour's acceptances are in order.
LEMMA NewestOrdered ==
    ASSUME NEW s, InOrder(s), NEW n \in Nat
    PROVE  InOrder(Newest(s, n))
<1>1. s \in Seq(1 .. TB_HOUR)
  BY DEF InOrder
<1> DEFINE t == Newest(s, n)
<1>2. /\ t \in Seq(1 .. TB_HOUR) /\ Len(t) <= Len(s)
      /\ \A i \in 1 .. Len(t) : t[i] = s[Len(s) - Len(t) + i]
  BY <1>1, NewestIs
<1> HIDE DEF t
<1>3. ASSUME NEW i \in 1 .. Len(t), NEW j \in 1 .. Len(t), i <= j
      PROVE  t[i] <= t[j]
  <2> DEFINE d == Len(s) - Len(t)
  <2>1. /\ d + i \in 1 .. Len(s) /\ d + j \in 1 .. Len(s) /\ d + i <= d + j
    BY <1>1, <1>2, <1>3
  <2>2. t[i] = s[d + i] /\ t[j] = s[d + j]
    BY <1>2
  <2> QED
    BY <2>1, <2>2 DEF InOrder
<1> QED
  BY <1>2, <1>3 DEF InOrder, t

\* Two ways to the same place.
LEMMA SameShift ==
    ASSUME NEW ls \in Nat, NEW lt \in Nat, NEW k \in Nat, NEW m \in Nat, NEW i \in Nat,
           NEW la, NEW lc, la = ls - k, lc = lt - m
    PROVE  (ls - lt) + (i + m) = (la - lc + i) + k
  OBVIOUS

\* The newest entries that are left after a tick are what is left of the newest.
LEMMA AgeNewest ==
    ASSUME NEW s, InOrder(s), NEW n \in Nat
    PROVE  Age(Newest(s, n)) = Newest(Age(s), n)
<1> DEFINE t == Newest(s, n)
           a == Age(s)
           b == Age(t)
           c == Newest(a, n)
<1>1. s \in Seq(1 .. TB_HOUR)
  BY DEF InOrder
<1>2. /\ t \in Seq(1 .. TB_HOUR) /\ Len(t) = (IF Len(s) <= n THEN Len(s) ELSE n)
      /\ \A i \in 1 .. Len(t) : t[i] = s[Len(s) - Len(t) + i]
  BY <1>1, NewestIs
<1>3. InOrder(t) /\ InOrder(a)
  BY NewestOrdered, AgeOrdered
<1>4. InOrder(b) /\ a \in Seq(1 .. TB_HOUR)
  BY <1>3, AgeOrdered DEF InOrder
<1>5. /\ c \in Seq(1 .. TB_HOUR) /\ Len(c) = (IF Len(a) <= n THEN Len(a) ELSE n)
      /\ \A i \in 1 .. Len(c) : c[i] = a[Len(a) - Len(c) + i]
  BY <1>4, NewestIs
<1>6. PICK k \in 0 .. Len(s) :
         /\ \A i \in 1 .. Len(s) : s[i] = 1 <=> i <= k
         /\ a = [i \in 1 .. Len(s) - k |-> s[i + k] - 1]
  BY AgeIs
<1> HIDE DEF a
<1>7. PICK m \in 0 .. Len(t) :
         /\ \A i \in 1 .. Len(t) : t[i] = 1 <=> i <= m
         /\ b = [i \in 1 .. Len(t) - m |-> t[i + m] - 1]
  BY <1>3, AgeIs
<1> HIDE DEF t, b, c
<1>8. Len(s) \in Nat /\ Len(t) \in Nat /\ Len(t) <= Len(s)
  BY <1>1, <1>2
<1> DEFINE d == Len(s) - Len(t)
<1>9. m = IF k <= d THEN 0 ELSE k - d
  <2>1. ASSUME NEW i \in 1 .. Len(t) PROVE i <= m <=> d + i <= k
    <3>1. d + i \in 1 .. Len(s)
      BY <1>8
    <3>2. t[i] = s[d + i]
      BY <1>2
    <3> QED
      BY <1>6, <1>7, <3>1, <3>2
  <2>2. d \in Nat /\ m \in 0 .. Len(t) /\ k \in 0 .. Len(t) + d
    BY <1>6, <1>7, <1>8
  <2> HIDE DEF d
  <2>3. m >= 1 => d + m <= k
    BY <1>8, <2>1, <2>2
  <2>4. k > d => k - d <= m
    <3>1. k > d => k - d \in 1 .. Len(t) /\ d + (k - d) <= k
      BY <1>8, <2>2
    <3> QED
      BY <2>1, <3>1
  <2> QED
    BY <1>8, <2>2, <2>3, <2>4
<1>10. /\ Len(a) = Len(s) - k
       /\ \A i \in 1 .. Len(a) : a[i] = s[i + k] - 1
  <2>1. Len(s) - k \in Nat
    BY <1>6, <1>8
  <2> QED
    BY <1>6, <2>1
<1>11. /\ Len(b) = Len(t) - m
       /\ \A i \in 1 .. Len(b) : b[i] = t[i + m] - 1
  <2>1. Len(t) - m \in Nat
    BY <1>7, <1>8
  <2> QED
    BY <1>7, <2>1
<1>15. /\ Len(t) = (IF Len(s) <= n THEN Len(s) ELSE n)
       /\ Len(c) = (IF Len(a) <= n THEN Len(a) ELSE n)
       /\ Len(a) = Len(s) - k /\ Len(b) = Len(t) - m
       /\ k \in 0 .. Len(s) /\ m \in 0 .. Len(t) /\ Len(s) \in Nat /\ Len(t) \in Nat
  BY <1>2, <1>5, <1>6, <1>7, <1>8, <1>10, <1>11
<1>16. m \in Nat /\ k \in Nat /\ m = (IF k <= Len(s) - Len(t) THEN 0 ELSE k - (Len(s) - Len(t)))
  BY <1>9, <1>15
<1>17. Len(t) - m = (IF Len(s) - k <= n THEN Len(s) - k ELSE n)
  <2> DEFINE ls == Len(s)
             lt == Len(t)
  <2>1. ls \in Nat /\ lt \in Nat /\ n \in Nat /\ m \in Nat /\ k \in 0 .. ls
    BY <1>15, <1>16
  <2>2. lt = (IF ls <= n THEN ls ELSE n)
    BY <1>15
  <2>3. m = (IF k <= ls - lt THEN 0 ELSE k - (ls - lt))
    BY <1>16
  <2> HIDE DEF ls, lt
  <2>4. lt - m = (IF ls - k <= n THEN ls - k ELSE n)
    BY <2>1, <2>2, <2>3
  <2> QED
    BY <2>4 DEF ls, lt
<1>12. Len(b) = Len(c)
  BY <1>15, <1>17
<1>13. ASSUME NEW i \in 1 .. Len(b) PROVE b[i] = c[i]
  <2>1. /\ Len(b) \in Nat /\ Len(b) = Len(t) - m /\ Len(a) = Len(s) - k
        /\ Len(c) <= Len(a)
    BY <1>15
  <2> DEFINE j == i + m
             l == Len(a) - Len(c) + i
  <2>2. b[i] = t[j] - 1 /\ c[i] = a[l]
    BY <1>5, <1>11, <1>12
  <2>3. j \in 1 .. Len(t) /\ l \in 1 .. Len(a)
    BY <1>7, <1>8, <1>12, <2>1
  <2>4. t[j] = s[d + j] /\ a[l] = s[l + k] - 1
    BY <1>2, <1>10, <2>3
  <2>5. d + j = l + k
    <3>1. Len(c) = Len(t) - m /\ i \in Nat
      BY <1>12, <1>15
    <3>2. Len(s) \in Nat /\ Len(t) \in Nat /\ m \in Nat /\ k \in Nat /\ Len(a) = Len(s) - k
      BY <1>15, <1>16
    <3> QED
      BY <3>1, <3>2, SameShift
  <2> QED
    BY <2>2, <2>4, <2>5
<1>14. b = c
  BY <1>4, <1>5, <1>12, <1>13, SameSeq DEF InOrder
<1> QED
  BY <1>14 DEF a, b, c, t

\* What the module remembers is what the hour's log ends with.
TbFields ==
    {"key", "max_per_hour", "check_every", "req", "queue", "cur", "queued_at", "next_check",
     "next_send", "key_state", "credits", "net_err"}
TbInv ==
    /\ tb = [f \in TbFields |-> tb[f]]
    /\ tb.max_per_hour \in Rates
    /\ InOrder(log)
    /\ tb.queued_at = Newest(log, TB_RATE_MAX)

\* A context that has the acceptance times and the cap of another one.
LeavesTimes(c, d) ==
    /\ d = [f \in TbFields |-> d[f]]
    /\ d.queued_at = c.queued_at /\ d.max_per_hour = c.max_per_hour

\* Requests and their ends leave the acceptance times and the cap alone.
LEMMA StartKeeps ==
    ASSUME NEW c, c = [f \in TbFields |-> c[f]], NEW req, NEW ok
    PROVE  LeavesTimes(c, start(c, req, ok))
  BY DEF start, LeavesTimes, TbFields

\* set_credits leaves the table and the cap alone.
LEMMA CreditsKeep ==
    ASSUME NEW c, c = [f \in TbFields |-> c[f]], NEW q
    PROVE  LeavesTimes(c, set_credits(c, q))
  BY DEF set_credits, LeavesTimes, TbFields

\* So does finish_send.
LEMMA FinishSendKeeps ==
    ASSUME NEW c, c = [f \in TbFields |-> c[f]], NEW r
    PROVE  LeavesTimes(c, finish_send(c, r))
<1> DEFINE g == set_credits(c, r.quota)
           d == IF r.understood THEN [g EXCEPT !.net_err = FALSE]
                                ELSE [c EXCEPT !.net_err = TRUE]
           e == [d EXCEPT !.key_state = IF r.success THEN 1 ELSE @, !.cur = NoText]
<1>1. LeavesTimes(c, g)
  BY CreditsKeep
<1> HIDE DEF g
<1>2. LeavesTimes(c, d)
  BY <1>1 DEF LeavesTimes, TbFields
<1> HIDE DEF d
<1>3. LeavesTimes(c, e)
  BY <1>2 DEF LeavesTimes, TbFields
<1> QED
  BY <1>3 DEF finish_send, d, g

\* So does finish, whatever the request that ended was for.
LEMMA FinishKeeps ==
    ASSUME NEW c, c = [f \in TbFields |-> c[f]], NEW r
    PROVE  LeavesTimes(c, tb_finish(c, r))
<1> DEFINE d == tb_end_request(c)
           g == IF r.success THEN set_credits(d, r.quota) ELSE d
<1>1. LeavesTimes(c, d)
  BY DEF LeavesTimes, TbFields, tb_end_request
<1> HIDE DEF d
<1>2. LeavesTimes(c, g)
  <2>1. LeavesTimes(d, set_credits(d, r.quota))
    BY <1>1, CreditsKeep DEF LeavesTimes
  <2> QED
    BY <1>1, <2>1 DEF LeavesTimes
<1> HIDE DEF g
<1>3. LeavesTimes(c, finish_send(d, r))
  <2>1. LeavesTimes(d, finish_send(d, r))
    BY <1>1, FinishSendKeeps DEF LeavesTimes
  <2> QED
    BY <1>1, <2>1 DEF LeavesTimes
<1>4. LeavesTimes(c, [d EXCEPT !.net_err = TRUE, !.next_check = TB_RETRY])
  BY <1>1 DEF LeavesTimes, TbFields
<1>5. LeavesTimes(c, [g EXCEPT !.net_err = FALSE, !.key_state = IF r.success THEN 1 ELSE 0,
                         !.next_check = c.check_every])
  BY <1>2 DEF LeavesTimes, TbFields
<1> QED
  BY <1>3, <1>4, <1>5 DEF tb_finish, d, g

\* So does the start of a check of the key.
LEMMA StartCheckKeeps ==
    ASSUME NEW c, c = [f \in TbFields |-> c[f]], NEW ok
    PROVE  LeavesTimes(c, start_check(c, ok))
<1> DEFINE b == [c EXCEPT !.next_check = TB_RETRY]
           d == start(b, "quota", ok)
<1>1. LeavesTimes(c, b)
  BY DEF LeavesTimes, TbFields
<1> HIDE DEF b
<1>2. LeavesTimes(c, d)
  <2>1. LeavesTimes(b, d)
    BY <1>1, StartKeeps DEF LeavesTimes
  <2> QED
    BY <1>1, <2>1 DEF LeavesTimes
<1> HIDE DEF d
<1>3. LeavesTimes(c, [d EXCEPT !.net_err = TRUE])
  BY <1>2 DEF LeavesTimes, TbFields
<1> QED
  BY <1>2, <1>3 DEF start_check, d, b

\* So does the start of a text, which leaves the queue.
LEMMA StartSendKeeps ==
    ASSUME NEW c, c = [f \in TbFields |-> c[f]], NEW ok
    PROVE  LeavesTimes(c, start_send(c, ok))
<1> DEFINE d == [c EXCEPT !.cur = Head(c.queue), !.queue = Tail(c.queue),
                          !.next_send = TB_GAP]
<1>1. LeavesTimes(c, d)
  BY DEF LeavesTimes, TbFields
<1> HIDE DEF d
<1>2. LeavesTimes(d, start(d, "send", TRUE)) /\ LeavesTimes(d, finish_send(d, TbFailed))
  <2>1. d = [f \in TbFields |-> d[f]]
    BY <1>1 DEF LeavesTimes
  <2> QED
    BY <2>1, StartKeeps, FinishSendKeeps
<1>3. LeavesTimes(c, start(d, "send", TRUE)) /\ LeavesTimes(c, finish_send(d, TbFailed))
  BY <1>1, <1>2 DEF LeavesTimes
<1> QED
  BY <1>3 DEF start_send, d

\* A step of the loop leaves them alone, whatever has ended before.
LEMMA StepKeeps ==
    ASSUME TbInv, NEW c, LeavesTimes(tb, c), TbStepFrom(c)
    PROVE  TbInv' /\ log' = log
<1>1. PICK ok \in BOOLEAN :
         /\ tb' = IF c.req # "none" \/ c.key = NoKey THEN c
                  ELSE IF c.queue # <<>> /\ c.next_send = 0 THEN start_send(c, ok)
                  ELSE IF c.next_check = 0 THEN start_check(c, ok) ELSE c
         /\ log' = log
  BY DEF TbStepFrom
<1>2. c = [f \in TbFields |-> c[f]]
  BY DEF LeavesTimes
<1>3. LeavesTimes(c, c) /\ LeavesTimes(c, start_send(c, ok)) /\ LeavesTimes(c, start_check(c, ok))
  BY <1>2, StartSendKeeps, StartCheckKeeps DEF LeavesTimes
<1>4. tb' \in {c, start_send(c, ok), start_check(c, ok)}
  BY <1>1
<1>5. LeavesTimes(c, tb')
  BY <1>3, <1>4
<1> QED
  BY <1>1, <1>5 DEF LeavesTimes, TbInv

\* What is accepted enters the table and the log.
LEMMA AcceptKeeps ==
    ASSUME TbInv, NEW n \in Nat, Accept(n)
    PROVE  /\ TbInv'
           /\ Len(log') = Len(log) + n /\ tb'.max_per_hour = tb.max_per_hour
           /\ tb.max_per_hour > 0 => Len(tb.queued_at) + n <= tb.max_per_hour
<1>1. log' = log \o Now(n)
  BY DEF Accept
<1>2. PICK w \in 0 .. n :
         tb' = queue_push(tb, [i \in 1 .. n |-> IF i = w THEN "watched" ELSE "text"])
  BY DEF Accept
<1> DEFINE texts == [i \in 1 .. n |-> IF i = w THEN "watched" ELSE "text"]
<1>3. Len(texts) = n
  OBVIOUS
<1> HIDE DEF texts
<1>4. /\ tb' = [f \in TbFields |-> tb'[f]] /\ tb'.max_per_hour = tb.max_per_hour
      /\ tb'.queued_at = note_queued(tb.queued_at, n)
  BY <1>2, <1>3 DEF queue_push, TbInv, TbFields, texts
<1>5. log \in Seq(1 .. TB_HOUR) /\ Now(n) \in Seq(1 .. TB_HOUR) /\ Len(Now(n)) = n
  BY TbAssumption, SMTT(30) DEF TbInv, InOrder, Now
<1>6. \A i \in 1 .. n : Now(n)[i] = TB_HOUR
  BY DEF Now
<1>7. tb'.queued_at = Newest(log', TB_RATE_MAX)
  BY <1>1, <1>4, <1>5, NewestConcat, TbAssumption DEF note_queued, TbInv
<1>8. InOrder(log') /\ Len(log') = Len(log) + n
  <2> DEFINE s == log
             t == Now(n)
             u == s \o t
  <2>1. /\ u \in Seq(1 .. TB_HOUR) /\ Len(u) = Len(s) + Len(t)
        /\ \A i \in 1 .. Len(u) : u[i] = IF i <= Len(s) THEN s[i] ELSE t[i - Len(s)]
    BY <1>5
  <2>2. Len(s) \in Nat /\ Len(t) = n
    BY <1>5
  <2>3. /\ \A i, j \in 1 .. Len(s) : i <= j => s[i] <= s[j]
        /\ \A i \in 1 .. Len(s) : s[i] \in 1 .. TB_HOUR
    BY <1>5, ElementOfSeq DEF TbInv, InOrder
  <2> HIDE DEF s, t, u
  <2>4. \A i \in 1 .. n : t[i] = TB_HOUR
    BY <1>6 DEF t
  <2>5. ASSUME NEW i \in 1 .. Len(u), NEW j \in 1 .. Len(u), i <= j PROVE u[i] <= u[j]
    <3>1. CASE j <= Len(s)
      <4>1. i \in 1 .. Len(s) /\ j \in 1 .. Len(s)
        BY <2>1, <2>2, <2>5, <3>1
      <4> QED
        BY <2>1, <2>3, <2>5, <4>1
    <3>2. CASE ~(j <= Len(s))
      <4>1. j - Len(s) \in 1 .. n
        BY <2>1, <2>2, <3>2
      <4>2. u[j] = TB_HOUR
        BY <2>1, <2>4, <3>2, <4>1
      <4>3. u[i] \in 1 .. TB_HOUR
        BY <2>1, ElementOfSeq
      <4> QED
        BY <4>2, <4>3, TbAssumption
    <3> QED
      BY <3>1, <3>2
  <2>6. InOrder(u)
    BY <2>1, <2>5 DEF InOrder
  <2> QED
    BY <1>1, <2>1, <2>2, <2>6 DEF s, t, u
<1>9. tb.max_per_hour > 0 => Len(tb.queued_at) + n <= tb.max_per_hour
  BY DEF Accept, admit, texts_in_hour
<1> QED
  BY <1>4, <1>7, <1>8, <1>9 DEF TbInv

\* A tick takes the same from both.
LEMMA TickKeeps ==
    ASSUME TbInv, TbTick
    PROVE  TbInv' /\ Len(log') <= Len(log)
<1>1. /\ tb' = [f \in TbFields |-> tb'[f]] /\ tb'.max_per_hour = tb.max_per_hour
      /\ tb'.queued_at = Age(tb.queued_at) /\ log' = Age(log)
  BY DEF TbTick, TbInv, TbFields
<1>2. Age(tb.queued_at) = Newest(Age(log), TB_RATE_MAX)
  BY AgeNewest, TbAssumption DEF TbInv
<1> QED
  BY <1>1, <1>2, AgeOrdered DEF TbInv

\* What a step does to the log.
LEMMA TbKeeps ==
    ASSUME TbInv, [TbNext]_tb_vars
    PROVE  /\ TbInv'
           /\ \/ ~(Len(log') > Len(log))
              \/ tb.max_per_hour > 0 => Len(log') <= tb.max_per_hour
<1>0. Len(log) \in Nat
  BY DEF TbInv, InOrder
<1>1. CASE tb_step
  <2>1. LeavesTimes(tb, tb)
    BY DEF LeavesTimes, TbInv
  <2> QED
    BY <1>0, <1>1, <2>1, StepKeeps DEF tb_step
<1>2. CASE TextRequestEnds
  <2>1. PICK reply \in Replies : TbStepFrom(tb_finish(tb, reply))
    BY <1>2 DEF TextRequestEnds
  <2>2. LeavesTimes(tb, tb_finish(tb, reply))
    BY FinishKeeps DEF TbInv
  <2> QED
    BY <1>0, <2>1, <2>2, StepKeeps
<1>3. CASE tb_put_settings
  <2>1. PICK key \in {tb.key, NoKey} \union Keys, rate \in Rates, period \in BOOLEAN,
             every \in Periods :
         LET c == [tb EXCEPT !.check_every = every,
                             !.next_check = IF period THEN every ELSE @]
             d == IF key = tb.key THEN c
                  ELSE [c EXCEPT !.key = key, !.key_state = -1, !.credits = -1,
                                 !.net_err = FALSE, !.next_check = 0]
         IN tb' = [d EXCEPT !.max_per_hour = rate]
    BY <1>3 DEF tb_put_settings
  <2>2. log' = log
    BY <1>3 DEF tb_put_settings
  <2> DEFINE c == [tb EXCEPT !.check_every = every,
                             !.next_check = IF period THEN every ELSE @]
             b == [c EXCEPT !.key = key, !.key_state = -1, !.credits = -1,
                            !.net_err = FALSE, !.next_check = 0]
             d == IF key = tb.key THEN c ELSE b
  <2>3. LeavesTimes(tb, c)
    BY DEF LeavesTimes, TbInv, TbFields
  <2>4. tb' = [d EXCEPT !.max_per_hour = rate]
    BY <2>1
  <2> HIDE DEF c
  <2>5. LeavesTimes(tb, b)
    BY <2>3 DEF LeavesTimes, TbFields
  <2> HIDE DEF b
  <2>6. LeavesTimes(tb, d)
    BY <2>3, <2>5
  <2> HIDE DEF d
  <2>7. /\ tb' = [f \in TbFields |-> tb'[f]] /\ tb'.max_per_hour = rate
        /\ tb'.queued_at = tb.queued_at
    BY <2>4, <2>6 DEF LeavesTimes, TbFields
  <2> QED
    BY <1>0, <2>2, <2>7 DEF TbInv
<1>4. CASE refresh
  <2>1. LeavesTimes(tb, tb') /\ log' = log
    BY <1>4 DEF refresh, LeavesTimes, TbInv, TbFields
  <2> QED
    BY <1>0, <2>1 DEF LeavesTimes, TbInv
<1>5. ASSUME NEW n \in Nat, n > 0, Accept(n)
      PROVE  TbInv' /\ (tb.max_per_hour > 0 => Len(log') <= tb.max_per_hour)
  <2>1. /\ TbInv' /\ Len(log') = Len(log) + n
        /\ tb.max_per_hour > 0 => Len(tb.queued_at) + n <= tb.max_per_hour
    BY <1>5, AcceptKeeps
  <2>2. Len(tb.queued_at) = (IF Len(log) <= TB_RATE_MAX THEN Len(log) ELSE TB_RATE_MAX)
    <3>1. log \in Seq(1 .. TB_HOUR) /\ TB_RATE_MAX \in Nat
      BY TbAssumption DEF TbInv, InOrder
    <3>2. Len(Newest(log, TB_RATE_MAX))
             = (IF Len(log) <= TB_RATE_MAX THEN Len(log) ELSE TB_RATE_MAX)
      BY <3>1, NewestIs
    <3> QED
      BY <3>2 DEF TbInv
  <2>3. tb.max_per_hour \in 0 .. TB_RATE_MAX
    BY DEF TbInv, Rates
  <2> DEFINE used == Len(tb.queued_at)
             all == Len(log)
             rate == tb.max_per_hour
             after == Len(log')
  <2>4. /\ all \in Nat /\ rate \in Nat /\ rate <= TB_RATE_MAX /\ TB_RATE_MAX \in Nat
        /\ used = (IF all <= TB_RATE_MAX THEN all ELSE TB_RATE_MAX)
        /\ after = all + n /\ (rate > 0 => used + n <= rate)
    BY <1>0, <2>1, <2>2, <2>3, TbAssumption
  <2> HIDE DEF used, all, rate, after
  <2>5. rate > 0 => after <= rate
    BY <1>5, <2>4
  <2> QED
    BY <2>1, <2>5 DEF rate, after
<1>6. CASE test
  BY <1>5, <1>6 DEF test
<1>7. CASE notify
  <2>1. PICK n \in 1 .. TB_TO_MAX : Accept(n)
    BY <1>7 DEF notify
  <2>2. n \in Nat /\ n > 0
    BY TbAssumption
  <2> QED
    BY <1>5, <2>1, <2>2
<1>8. CASE TbTick
  <2>1. TbInv' /\ Len(log') <= Len(log)
    BY <1>8, TickKeeps
  <2>2. Len(log') \in Nat
    BY <2>1 DEF TbInv, InOrder
  <2> QED
    BY <1>0, <2>1, <2>2
<1>9. CASE UNCHANGED tb_vars
  BY <1>0, <1>9 DEF tb_vars, TbInv, InOrder
<1> QED
  BY <1>1, <1>2, <1>3, <1>4, <1>6, <1>7, <1>8, <1>9 DEF TbNext

\* The module starts so.
LEMMA TbStarts == TbInit => TbInv
<1> SUFFICES ASSUME TbInit PROVE TbInv
  OBVIOUS
<1>1. PICK k \in Keys \union {NoKey}, p \in Periods : tb = tb_open(k, TB_RATE_MAX, p)
  BY DEF TbInit
<1>2. log = <<>>
  BY DEF TbInit
<1>3. tb = [f \in TbFields |-> tb[f]] /\ tb.max_per_hour = TB_RATE_MAX /\ tb.queued_at = <<>>
  BY <1>1 DEF tb_open, TbFields
<1>4. Newest(<<>>, TB_RATE_MAX) = <<>>
  BY TbAssumption DEF Newest
<1> QED
  BY <1>2, <1>3, <1>4, TbAssumption DEF TbInv, InOrder, Rates

\* textbelt.max_per_hour bounds what is accepted within an hour although the
\* module remembers no more than TB_RATE_MAX acceptances (admit, note_queued).
THEOREM HourlyCapHolds == TbSpec => HourlyCap
<1>1. TbInit => TbInv
  BY TbStarts
<1>2. TbInv /\ [TbNext]_tb_vars => TbInv'
  BY TbKeeps
<1>3. TbInv /\ [TbNext]_tb_vars =>
         [tb.max_per_hour > 0 /\ Len(log') > Len(log) => Len(log') <= tb.max_per_hour]_tb_vars
  BY TbKeeps
<1> QED
  BY <1>1, <1>2, <1>3, PTL DEF TbSpec, HourlyCap

----------------------------------------------------------------------------
(* The watermarks: a mark is what the file says while it has not left its window. *)

\* There is one row of an age.
OneRow == \A a \in Ages : \A v, w \in file[a] : v = w

\* A mark is no older than its window and the time since the file was read.
AgeBound == mark.have => mark.age <= WM_WINDOW + WM_EVERY - due

WmInv ==
    /\ WmTypeOK /\ OneRow /\ AgeBound
    /\ ~slipped => MarkExact
    /\ mark.have => NoneNewerBeats

----------------------------------------------------------------------------

\* A mark that holds no sample is a mark.
LEMMA NoMarkType ==
    ASSUME NEW high \in BOOLEAN
    PROVE  /\ NoMark(high) \in [high : BOOLEAN, have : BOOLEAN, value : Values, age : Nat]
           /\ ~NoMark(high).have /\ NoMark(high).high = high
<1>1. (CHOOSE v \in Values : TRUE) \in Values
  BY WmAssumption
<1> QED
  BY <1>1 DEF NoMark

\* What feed_marks makes of a mark and a sample: the mark or the sample.
LEMMA FedMark ==
    ASSUME WmTypeOK, NEW age \in 0 .. WM_LAG, NEW v \in Values
    PROVE  LET fed == feed_marks(mark, age, v)
           IN /\ fed \in [high : BOOLEAN, have : BOOLEAN, value : Values, age : Nat]
              /\ fed.have /\ fed.high = mark.high
              /\ \/ fed = mark /\ ~LeftWindow(mark, age) /\ ~Beats(mark.high, v, mark.value)
                 \/ /\ fed.value = v /\ fed.age = age
                    /\ ~mark.have \/ LeftWindow(mark, age) \/ Beats(mark.high, v, mark.value)
<1>1. age \in Nat
  BY WmAssumption
<1>2. CASE ~mark.have \/ LeftWindow(mark, age) \/ Beats(mark.high, v, mark.value)
  <2>1. feed_marks(mark, age, v) = [mark EXCEPT !.have = TRUE, !.value = v, !.age = age]
    BY <1>2 DEF feed_marks
  <2> QED
    BY <1>1, <1>2, <2>1 DEF WmTypeOK
<1>3. CASE ~(~mark.have \/ LeftWindow(mark, age) \/ Beats(mark.high, v, mark.value))
  <2>1. feed_marks(mark, age, v) = mark
    BY <1>3 DEF feed_marks
  <2> QED
    BY <1>3, <2>1 DEF WmTypeOK
<1> QED
  BY <1>2, <1>3

\* A sample that is written keeps the invariant.
LEMMA WmInsertKeeps == WmInv /\ insert_sample => WmInv'
<1> SUFFICES ASSUME WmInv, insert_sample PROVE WmInv'
  OBVIOUS
<1> USE WmAssumption
<1>1. PICK age \in 0 .. WM_LAG, v \in Values, committed \in BOOLEAN :
          /\ \A a \in RowAges : a > age
          /\ mark.have => mark.age > age
          /\ file' = IF committed THEN [file EXCEPT ![age] = {v}] ELSE file
          /\ mark' = feed_marks(mark, age, v)
          /\ slipped' = (slipped \/ (~committed /\ mark' # mark))
          /\ UNCHANGED <<due, wm_settled>>
  <2>1. wm_settled \in BOOLEAN
    BY DEF WmInv, WmTypeOK
  <2> QED
    BY <2>1 DEF insert_sample
<1>2. WmTypeOK
  BY DEF WmInv
<1>3. /\ mark' \in [high : BOOLEAN, have : BOOLEAN, value : Values, age : Nat]
      /\ mark'.have /\ mark'.high = mark.high
      /\ \/ mark' = mark /\ ~LeftWindow(mark, age) /\ ~Beats(mark.high, v, mark.value)
         \/ /\ mark'.value = v /\ mark'.age = age
            /\ ~mark.have \/ LeftWindow(mark, age) \/ Beats(mark.high, v, mark.value)
  BY <1>1, <1>2, FedMark
<1>4. age \in Ages /\ age \in Nat
  BY <1>1 DEF Ages
<1>5. /\ file' \in [Ages -> SUBSET Values]
      /\ \A a \in Ages : a # age => file'[a] = file[a]
      /\ IF committed THEN file'[age] = {v} ELSE file' = file
  BY <1>1, <1>2, <1>4 DEF WmTypeOK
<1>7. file[age] = {}
  BY <1>1, <1>4 DEF RowAges
<1>6. RowAges' = IF committed THEN RowAges \union {age} ELSE RowAges
  BY <1>4, <1>5 DEF RowAges
<1>8. WmTypeOK'
  <2>1. slipped' \in BOOLEAN /\ wm_settled' \in BOOLEAN /\ due' \in 0 .. WM_EVERY
    BY <1>1, <1>2 DEF WmTypeOK
  <2> QED
    BY <1>3, <1>5, <2>1 DEF WmTypeOK
<1>9. OneRow'
  <2>1. CASE committed
    BY <1>5, <2>1 DEF WmInv, OneRow
  <2>2. CASE ~committed
    BY <1>5, <2>2 DEF WmInv, OneRow
  <2> QED
    BY <2>1, <2>2
<1>10. AgeBound'
  BY <1>1, <1>2, <1>3 DEF WmInv, AgeBound, WmTypeOK
<1>11. ~slipped' => MarkExact'
  <2> SUFFICES ASSUME ~slipped' PROVE MarkExact'
    OBVIOUS
  <2>0. ~slipped /\ MarkExact /\ (committed \/ mark' = mark)
    BY <1>1 DEF WmInv
  <2>a. CASE ~committed
    BY <1>5, <1>6, <2>0, <2>a DEF MarkExact
  <2>1. CASE committed /\ ~mark.have
    <3>1. RowAges = {}
      BY <2>0, <2>1 DEF MarkExact
    <3>2. mark'.value = v /\ mark'.age = age
      BY <1>3, <2>1
    <3>3. committed /\ RowAges' = {age}
      BY <1>6, <2>1, <3>1
    <3>4. ~Beats(mark'.high, v, v)
      BY <1>1, <1>3 DEF Beats
    <3> QED
      BY <1>3, <1>5, <3>2, <3>3, <3>4 DEF MarkExact
  <2>2. CASE committed /\ mark.have
    <3>1. /\ mark.age \in RowAges /\ file[mark.age] = {mark.value}
          /\ \A a \in RowAges : \A w \in file[a] : ~Beats(mark.high, w, mark.value)
      BY <2>0, <2>2 DEF MarkExact
    <3>2. mark.age \in Ages /\ mark.age # age
      BY <1>7, <3>1 DEF RowAges
    <3>3. \A a \in RowAges : file[a] \subseteq Values
      BY <1>2 DEF RowAges, WmTypeOK
    <3>4. ~LeftWindow(mark, age)
      BY <1>4, <3>2 DEF LeftWindow, Ages
    <3>5. CASE mark' = mark /\ ~Beats(mark.high, v, mark.value)
      <4>1. \A a \in RowAges' : \A w \in file'[a] : ~Beats(mark.high, w, mark.value)
        BY <1>5, <1>6, <2>2, <3>1, <3>5 DEF RowAges
      <4>2. mark.age \in RowAges' /\ file'[mark.age] = {mark.value}
        BY <1>5, <1>6, <2>2, <3>1, <3>2
      <4> QED
        BY <2>2, <3>5, <4>1, <4>2 DEF MarkExact
    <3>6. CASE mark'.value = v /\ mark'.age = age /\ Beats(mark.high, v, mark.value)
      <4>1. \A w \in Values : ~Beats(mark.high, w, mark.value) => ~Beats(mark.high, w, v)
        <5>1. mark.value \in Int /\ v \in Int /\ mark.high \in BOOLEAN
          BY <1>2 DEF WmTypeOK
        <5>2. \A w \in Int : ~Beats(mark.high, w, mark.value) => ~Beats(mark.high, w, v)
          BY <3>6, <5>1 DEF Beats
        <5> QED
          BY <5>2
      <4>2. ~Beats(mark.high, v, v)
        BY <1>1 DEF Beats
      <4>3. \A a \in RowAges' : \A w \in file'[a] : ~Beats(mark.high, w, v)
        BY <1>5, <1>6, <2>2, <3>1, <3>3, <4>1, <4>2 DEF RowAges
      <4> QED
        BY <1>3, <1>5, <1>6, <2>2, <3>6, <4>3 DEF MarkExact
    <3> QED
      BY <1>3, <2>2, <3>4, <3>5, <3>6
  <2> QED
    BY <2>a, <2>1, <2>2
<1>12. NoneNewerBeats'
  <2>0. \A a \in RowAges' : a = age \/ (a \in RowAges /\ file'[a] = file[a])
    <3>1. \A a \in RowAges' : a \in Ages
      BY DEF RowAges
    <3>2. \A a \in RowAges' : a = age \/ a \in RowAges
      BY <1>6
    <3> QED
      BY <1>5, <3>1, <3>2
  <2>1. CASE mark'.value = v /\ mark'.age = age
    <3>1. \A a \in RowAges' : ~(a < age)
      BY <1>1, <1>4, <2>0 DEF RowAges, Ages
    <3> QED
      BY <2>1, <3>1 DEF NoneNewerBeats
  <2>2. CASE mark' = mark /\ ~Beats(mark.high, v, mark.value)
    <3>1. NoneNewerBeats
      BY <1>3, <2>2 DEF WmInv
    <3>2. \A w \in file'[age] : w = v
      BY <1>5, <1>7
    <3> QED
      BY <2>0, <2>2, <3>1, <3>2 DEF NoneNewerBeats
  <2> QED
    BY <1>3, <2>1, <2>2
<1> QED
  BY <1>8, <1>9, <1>10, <1>11, <1>12 DEF WmInv

\* Reading the file keeps the invariant.
LEMMA WmReadKeeps == WmInv /\ mf_history_watermark_slice => WmInv'
<1> SUFFICES ASSUME WmInv, mf_history_watermark_slice PROVE WmInv'
  OBVIOUS
<1> USE WmAssumption
<1>1. /\ due' = WM_EVERY /\ UNCHANGED <<file, wm_settled>>
      /\ WmTypeOK
  BY DEF mf_history_watermark_slice, read_marks, WmInv
<1>1a. wm_settled' \in BOOLEAN
  BY <1>1 DEF WmTypeOK
<1>1b. PICK answered \in BOOLEAN :
          /\ IF RowAges = {} \/ ~answered THEN mark' = NoMark(mark.high)
             ELSE \E a \in BestAges(mark.high) : \E v \in file[a] :
                     mark' = [mark EXCEPT !.have = TRUE, !.value = v, !.age = a]
          /\ slipped' = ~answered
  <2>1. wm_settled \in BOOLEAN
    BY <1>1 DEF WmTypeOK
  <2> QED
    BY <2>1 DEF mf_history_watermark_slice, read_marks
<1>2. RowAges' = RowAges /\ OneRow'
  BY <1>1 DEF RowAges, OneRow, WmInv
<1>2a. due' \in 0 .. WM_EVERY
  BY <1>1
<1>2b. slipped' \in BOOLEAN
  BY <1>1b
<1>3. CASE (RowAges = {} \/ ~answered) /\ mark' = NoMark(mark.high)
  <2>1. mark.high \in BOOLEAN
    BY <1>1 DEF WmTypeOK
  <2>2. /\ mark' \in [high : BOOLEAN, have : BOOLEAN, value : Values, age : Nat]
        /\ ~mark'.have
    BY <1>3, <2>1, NoMarkType
  <2>3. WmTypeOK'
    BY <1>1, <1>1a, <1>2a, <1>2b, <2>2 DEF WmTypeOK
  <2>4. ~slipped' => MarkExact'
    BY <1>1b, <1>2, <1>3, <2>2 DEF MarkExact
  <2> QED
    BY <1>2, <2>2, <2>3, <2>4 DEF WmInv, AgeBound
<1>4. ASSUME NEW a \in BestAges(mark.high), NEW v \in file[a],
             mark' = [mark EXCEPT !.have = TRUE, !.value = v, !.age = a]
      PROVE  WmInv'
  <2>1. /\ a \in RowAges /\ a \in Ages /\ a \in Nat /\ a <= WM_WINDOW
        /\ v \in Values /\ file[a] = {v}
        /\ \A b \in RowAges : \A w \in file[b] : ~Beats(mark.high, w, v)
    BY <1>1, <1>4 DEF BestAges, RowAges, Ages, WmTypeOK, WmInv, OneRow
  <2>2. /\ mark' \in [high : BOOLEAN, have : BOOLEAN, value : Values, age : Nat]
        /\ mark'.have /\ mark'.high = mark.high /\ mark'.value = v /\ mark'.age = a
    BY <1>1, <1>4, <2>1 DEF WmTypeOK
  <2>3. WmTypeOK'
    BY <1>1, <1>1a, <1>2a, <1>2b, <2>2 DEF WmTypeOK
  <2>4. AgeBound'
    BY <1>1, <2>1, <2>2 DEF AgeBound
  <2>5. MarkExact'
    BY <1>1, <1>2, <2>1, <2>2 DEF MarkExact
  <2>6. NoneNewerBeats'
    BY <1>1, <1>2, <2>1, <2>2 DEF NoneNewerBeats
  <2> QED
    BY <1>2, <2>3, <2>4, <2>5, <2>6 DEF WmInv
<1> QED
  BY <1>1b, <1>3, <1>4

\* Declaring the marks anew keeps the invariant.
LEMMA WmDeclareKeeps == WmInv /\ parse_marks => WmInv'
<1> SUFFICES ASSUME WmInv, parse_marks PROVE WmInv'
  OBVIOUS
<1> USE WmAssumption
<1>1. /\ mark' = NoMark(mark.high) /\ due' = 0 /\ slipped' = TRUE
      /\ UNCHANGED <<file, wm_settled>>
  BY DEF parse_marks
<1>2. mark.high \in BOOLEAN
  BY DEF WmInv, WmTypeOK
<1>3. /\ mark' \in [high : BOOLEAN, have : BOOLEAN, value : Values, age : Nat]
      /\ ~mark'.have
  BY <1>1, <1>2, NoMarkType
<1>4. due' \in 0 .. WM_EVERY /\ slipped' \in BOOLEAN
  BY <1>1
<1>5. WmTypeOK'
  BY <1>1, <1>3, <1>4 DEF WmInv, WmTypeOK
<1>6. OneRow'
  BY <1>1 DEF WmInv, OneRow
<1> QED
  BY <1>1, <1>3, <1>5, <1>6 DEF WmInv, AgeBound

\* The passing of time keeps the invariant.
LEMMA WmTickKeeps == WmInv /\ WmTick => WmInv'
<1> SUFFICES ASSUME WmInv, WmTick PROVE WmInv'
  OBVIOUS
<1> USE WmAssumption
<1>1. /\ due > 0 /\ due' = due - 1
      /\ file' = [a \in Ages |-> IF a = 0 THEN {} ELSE file[a - 1]]
      /\ mark' = IF mark.have THEN [mark EXCEPT !.age = @ + 1] ELSE mark
      /\ slipped' = (slipped \/ (mark.have /\ mark.age >= WM_WINDOW))
      /\ UNCHANGED wm_settled
  BY DEF WmTick
<1>2. /\ WmTypeOK /\ mark.age \in Nat /\ due \in 0 .. WM_EVERY
  BY DEF WmInv, WmTypeOK
<1>3. \A a \in Ages : a # 0 => a - 1 \in Ages
  BY DEF Ages
<1>4. /\ file' \in [Ages -> SUBSET Values]
      /\ \A a \in Ages : file'[a] = IF a = 0 THEN {} ELSE file[a - 1]
  BY <1>1, <1>2, <1>3 DEF WmTypeOK
<1>5. \A a \in RowAges' : a # 0 /\ a \in Ages /\ a - 1 \in RowAges /\ file'[a] = file[a - 1]
  BY <1>3, <1>4 DEF RowAges
<1>6. /\ mark' \in [high : BOOLEAN, have : BOOLEAN, value : Values, age : Nat]
      /\ mark'.have = mark.have /\ mark'.high = mark.high /\ mark'.value = mark.value
      /\ mark.have => mark'.age = mark.age + 1
  BY <1>1, <1>2 DEF WmTypeOK
<1>7. due' \in 0 .. WM_EVERY
  BY <1>1, <1>2
<1>8. slipped' \in BOOLEAN /\ wm_settled' \in BOOLEAN
  BY <1>1, <1>2 DEF WmTypeOK
<1>9. WmTypeOK'
  BY <1>4, <1>6, <1>7, <1>8 DEF WmTypeOK
<1>10. OneRow'
  BY <1>3, <1>4 DEF WmInv, OneRow
<1>11. AgeBound'
  BY <1>1, <1>2, <1>6 DEF WmInv, AgeBound
<1>12. mark'.have => NoneNewerBeats'
  <2> SUFFICES ASSUME mark'.have, NEW a \in RowAges', a < mark'.age, NEW v \in file'[a]
               PROVE  ~Beats(mark'.high, v, mark'.value)
    BY DEF NoneNewerBeats
  <2>1. NoneNewerBeats
    BY <1>6 DEF WmInv
  <2>2. a - 1 \in RowAges /\ v \in file[a - 1] /\ a \in Nat
    BY <1>5 DEF Ages
  <2>3. a - 1 < mark.age
    BY <1>2, <1>6, <2>2
  <2> QED
    BY <1>6, <2>1, <2>2, <2>3 DEF NoneNewerBeats
<1>13. ~slipped' => MarkExact'
  <2> SUFFICES ASSUME ~slipped' PROVE MarkExact'
    OBVIOUS
  <2>1. MarkExact /\ ~(mark.have /\ mark.age >= WM_WINDOW)
    BY <1>1 DEF WmInv
  <2>2. CASE ~mark.have
    <3>1. RowAges' = {}
      BY <1>5, <2>1, <2>2 DEF MarkExact
    <3> QED
      BY <1>6, <2>2, <3>1 DEF MarkExact
  <2>3. CASE mark.have
    <3>1. /\ mark.age \in RowAges /\ file[mark.age] = {mark.value}
          /\ \A a \in RowAges : \A v \in file[a] : ~Beats(mark.high, v, mark.value)
      BY <2>1, <2>3 DEF MarkExact
    <3>2. mark'.age = mark.age + 1 /\ mark'.age \in Ages /\ mark'.age # 0
      BY <1>2, <1>6, <2>1, <2>3 DEF Ages
    <3>3. file'[mark'.age] = {mark.value}
      BY <1>2, <1>4, <3>1, <3>2
    <3>4. mark'.age \in RowAges'
      BY <3>2, <3>3 DEF RowAges
    <3>5. \A a \in RowAges' : \A v \in file'[a] : ~Beats(mark.high, v, mark.value)
      BY <1>5, <3>1
    <3> QED
      BY <1>6, <2>3, <3>3, <3>4, <3>5 DEF MarkExact
  <2> QED
    BY <2>2, <2>3
<1> QED
  BY <1>9, <1>10, <1>11, <1>12, <1>13 DEF WmInv

----------------------------------------------------------------------------

\* A module starts with empty marks that are due.
LEMMA WmStartHolds == WmInit => WmInv
<1> SUFFICES ASSUME NEW high \in BOOLEAN, WmRests(high) PROVE WmInv
  BY DEF WmInit
<1> USE WmAssumption
<1>1. /\ file = [a \in Ages |-> {}]
      /\ mark = NoMark(high) /\ due = 0 /\ slipped = TRUE /\ wm_settled = FALSE
  BY DEF WmRests
<1>2. /\ mark \in [high : BOOLEAN, have : BOOLEAN, value : Values, age : Nat]
      /\ ~mark.have
  BY <1>1, NoMarkType
<1>3. file \in [Ages -> SUBSET Values] /\ \A a \in Ages : file[a] = {}
  BY <1>1
<1>4. due \in 0 .. WM_EVERY
  BY <1>1
<1>4a. slipped \in BOOLEAN /\ wm_settled \in BOOLEAN
  BY <1>1, Zenon
<1>5. WmTypeOK /\ OneRow
  BY <1>2, <1>3, <1>4, <1>4a DEF WmTypeOK, OneRow
<1> QED
  BY <1>1, <1>2, <1>5 DEF WmInv, AgeBound

\* Every step keeps it.
LEMMA WmKeeps == WmInv /\ [WmNext]_wm_vars => WmInv'
<1> SUFFICES ASSUME WmInv, [WmNext]_wm_vars PROVE WmInv'
  OBVIOUS
<1>1. CASE UNCHANGED wm_vars
  BY <1>1 DEF wm_vars, WmInv, WmTypeOK, OneRow, AgeBound, MarkExact, NoneNewerBeats, RowAges
<1>2. CASE WmSettle
  BY <1>2 DEF WmSettle, WmInv, WmTypeOK, OneRow, AgeBound, MarkExact, NoneNewerBeats, RowAges
<1> QED
  BY <1>1, <1>2, WmInsertKeeps, WmReadKeeps, WmDeclareKeeps, WmTickKeeps DEF WmNext

\* The inductive invariant holds in every state of a watermark.
THEOREM WmInvariance == WmSpec => []WmInv
<1> QED
  BY WmKeeps, WmStartHolds, PTL DEF WmSpec

\* Whatever the window, the values and the time between two readings of the
\* file, and whatever queries and commits fail: a mark that has not left its window
\* nor taken a sample that was lost is what the file would say, and otherwise it is never beaten by a newer row nor older than its window and the
\* time between two readings (feed_marks, read_marks).
THEOREM MarksHold == WmSpec => []MarksTrue
<1>1. WmInv => MarksTrue
  <2> SUFFICES ASSUME WmInv PROVE MarksTrue
    OBVIOUS
  <2>1. mark.have => mark.age <= WM_WINDOW + WM_EVERY
    BY WmAssumption DEF WmInv, WmTypeOK, AgeBound
  <2> QED
    BY <2>1 DEF WmInv, MarksTrue
<1> QED
  BY <1>1, WmInvariance, PTL

----------------------------------------------------------------------------
(* The circular lists of the scheduler are queues (ListsAreQueues), for any       *)
(* threads, channels and hash.  A list is described by the set S of its threads   *)
(* and, for each of them, by the set lat[t] of those that came later: S is        *)
(* ordered by lat, and next goes from each thread to the one that came next and   *)
(* from the newest to the oldest.  LaterOnes and OnList, which follow the         *)
(* pointers, find just these sets.                                                *)

(* One ring of threads. *)

\* S is ordered by lat, and each part of it has a newest.
Ordered(S, lat) ==
    /\ \A t \in S : lat[t] \subseteq S /\ t \notin lat[t]
    /\ \A t, u \in S : u \in lat[t] => lat[u] \subseteq lat[t]
    /\ \A t, u \in S : t # u => t \in lat[u] \/ u \in lat[t]
    /\ \A X \in SUBSET S : X # {} => \E t \in X : lat[t] \cap X = {}

\* next leads round S in this order, and h is the newest.
Ring(next, h, S, lat) ==
    /\ S = {} <=> h = NULL
    /\ S # {} => h \in S /\ lat[h] = {} /\ next[h] \in S /\ S = {next[h]} \union lat[next[h]]
    /\ \A t \in S \ {h} : next[t] \in S /\ lat[t] = {next[t]} \union lat[next[t]]

Nexts == [Threads -> Threads \union {NULL}]
Lats == [Threads -> SUBSET Threads]

\* Both speak only of next and lat in S.
LEMMA RingFrame ==
    ASSUME NEW next, NEW next2, NEW h, NEW S \in SUBSET Threads, NEW lat, NEW lat2,
           Ordered(S, lat), Ring(next, h, S, lat),
           \A t \in S : next2[t] = next[t] /\ lat2[t] = lat[t]
    PROVE  Ordered(S, lat2) /\ Ring(next2, h, S, lat2)
<1>1. Ordered(S, lat2)
  <2>1. \A t \in S : lat2[t] \subseteq S /\ t \notin lat2[t]
    BY DEF Ordered
  <2>2. \A t, u \in S : u \in lat2[t] => lat2[u] \subseteq lat2[t]
    BY DEF Ordered
  <2>3. \A t, u \in S : t # u => t \in lat2[u] \/ u \in lat2[t]
    BY DEF Ordered
  <2>4. ASSUME NEW X \in SUBSET S, X # {} PROVE \E t \in X : lat2[t] \cap X = {}
    <3>1. PICK t \in X : lat[t] \cap X = {}
      BY <2>4 DEF Ordered
    <3>2. QED BY <3>1
  <2>5. QED BY <2>1, <2>2, <2>3, <2>4 DEF Ordered
<1>2. Ring(next2, h, S, lat2)
  <2>1. S = {} <=> h = NULL
    BY DEF Ring
  <2>2. ASSUME S # {}
        PROVE  h \in S /\ lat2[h] = {} /\ next2[h] \in S /\ S = {next2[h]} \union lat2[next2[h]]
    BY <2>2 DEF Ring
  <2>3. ASSUME NEW t \in S \ {h}
        PROVE  next2[t] \in S /\ lat2[t] = {next2[t]} \union lat2[next2[t]]
    BY <2>3 DEF Ring
  <2>4. QED BY <2>1, <2>2, <2>3 DEF Ring
<1>3. QED BY <1>1, <1>2

\* No two threads have the same next.
LEMMA NextInjective ==
    ASSUME NEW next, NEW h, NEW S, NEW lat, Ordered(S, lat), Ring(next, h, S, lat),
           NEW t \in S, NEW u \in S, next[t] = next[u]
    PROVE  t = u
<1>1. SUFFICES ASSUME NEW a \in S, NEW b \in S, b \in lat[a], next[a] = next[b] PROVE FALSE
  BY <1>1 DEF Ordered
<1>2. a # h /\ a # b
  <2>1. S # {} /\ lat[h] = {}
    BY DEF Ring
  <2>2. a \notin lat[a]
    BY DEF Ordered
  <2>3. QED BY <1>1, <2>1, <2>2
<1>3. next[a] \in S /\ lat[a] = {next[a]} \union lat[next[a]]
  BY <1>2 DEF Ring
<1>4. CASE b = h
  <2>1. S = {next[a]} \union lat[next[a]]
    BY <1>1, <1>4 DEF Ring
  <2>2. a = next[a] \/ a \in lat[next[a]]
    BY <2>1
  <2>3. a \in lat[a]
    BY <2>2, <1>3
  <2>4. QED BY <2>3 DEF Ordered
<1>5. CASE b # h
  <2>1. next[a] \in lat[b]
    BY <1>5, <1>1 DEF Ring
  <2>2. b = next[a] \/ b \in lat[next[a]]
    BY <1>1, <1>3
  <2>3. b \in lat[b]
    BY <2>1, <2>2, <1>3 DEF Ordered
  <2>4. QED BY <2>3 DEF Ordered
<1>6. QED BY <1>4, <1>5

\* Every thread is the next of one.
LEMMA NextSurjective ==
    ASSUME NEW next, NEW h, NEW S, NEW lat, Ordered(S, lat), Ring(next, h, S, lat),
           NEW t \in S
    PROVE  \E u \in S : next[u] = t
<1>1. CASE t = next[h]
  BY <1>1 DEF Ring
<1>2. CASE t # next[h]
  <2> DEFINE X == {u \in S : t \in lat[u]}
  <2>1. next[h] \in X
    BY <1>2 DEF Ring
  <2>2. PICK g \in X : lat[g] \cap X = {}
    <3>1. X \in SUBSET S /\ X # {}
      BY <2>1
    <3> HIDE DEF X
    <3>2. QED BY <3>1 DEF Ordered
  <2>3. g # h
    BY <2>2 DEF Ring
  <2>4. next[g] \in S /\ lat[g] = {next[g]} \union lat[next[g]]
    BY <2>2, <2>3 DEF Ring
  <2>5. next[g] \notin X
    BY <2>2, <2>4
  <2>6. t = next[g]
    BY <2>2, <2>4, <2>5
  <2>7. QED BY <2>2, <2>6
<1>3. QED BY <1>1, <1>2

\* pt_i_link leaves a ring in which the new thread is the newest.
LinkNext(next, h, n) ==
    IF h = NULL THEN [next EXCEPT ![n] = n]
    ELSE [next EXCEPT ![n] = next[h], ![h] = n]
Joined(S, lat, n) ==
    [t \in Threads |-> IF t \in S THEN lat[t] \union {n} ELSE IF t = n THEN {} ELSE lat[t]]

\* n, linked behind the newest, is the newest of the ring.
LEMMA RingLink ==
    ASSUME NEW next \in Nexts, NEW h \in Threads \union {NULL}, NEW S \in SUBSET Threads,
           NEW lat \in Lats, Ordered(S, lat), Ring(next, h, S, lat),
           NEW n \in Threads, n \notin S
    PROVE  /\ Ordered(S \union {n}, Joined(S, lat, n))
           /\ Ring(LinkNext(next, h, n), n, S \union {n}, Joined(S, lat, n))
<1> DEFINE lat2 == Joined(S, lat, n)
           next2 == LinkNext(next, h, n)
           S2 == S \union {n}
<1>1. /\ \A t \in S : lat2[t] = lat[t] \union {n}
      /\ lat2[n] = {}
  BY DEF Joined
<1>2. /\ \A t \in S \ {h} : next2[t] = next[t]
      /\ h = NULL => next2[n] = n
      /\ h # NULL => h \in S /\ next2[n] = next[h] /\ next2[h] = n
  BY ThreadAssumption DEF LinkNext, Nexts, Ring
<1>3. n # NULL
  BY ThreadAssumption
<1> HIDE DEF lat2, next2
<1>4. Ordered(S2, lat2)
  <2>1. \A t \in S2 : lat2[t] \subseteq S2 /\ t \notin lat2[t]
    BY <1>1 DEF Ordered
  <2>2. \A t, u \in S2 : u \in lat2[t] => lat2[u] \subseteq lat2[t]
    BY <1>1 DEF Ordered
  <2>3. \A t, u \in S2 : t # u => t \in lat2[u] \/ u \in lat2[t]
    BY <1>1 DEF Ordered
  <2>4. ASSUME NEW X \in SUBSET S2, X # {} PROVE \E t \in X : lat2[t] \cap X = {}
    <3> DEFINE Y == X \cap S
    <3>1. CASE n \in X
      BY <3>1, <1>1
    <3>2. CASE n \notin X
      <4>1. Y \in SUBSET S /\ Y = X
        BY <3>2
      <4>2. PICK t \in Y : lat[t] \cap Y = {}
        <5> HIDE DEF Y
        <5>1. QED BY <2>4, <4>1 DEF Ordered
      <4>3. lat2[t] = lat[t] \union {n}
        BY <4>1, <4>2, <1>1
      <4>4. QED BY <3>2, <4>1, <4>2, <4>3
    <3>3. QED BY <3>1, <3>2
  <2>5. QED BY <2>1, <2>2, <2>3, <2>4 DEF Ordered
<1>5. Ring(next2, n, S2, lat2)
  <2>1. S2 # {}
    OBVIOUS
  <2>2. CASE h = NULL
    <3>1. S = {}
      BY <2>2 DEF Ring
    <3>2. QED BY <1>1, <1>2, <1>3, <2>2, <3>1 DEF Ring
  <2>3. CASE h # NULL
    <3>1. S # {} /\ h \in S /\ lat[h] = {} /\ next[h] \in S /\ S = {next[h]} \union lat[next[h]]
      BY <2>3 DEF Ring
    <3>2. next2[n] \in S2 /\ S2 = {next2[n]} \union lat2[next2[n]]
      BY <1>1, <1>2, <2>3, <3>1
    <3>3. ASSUME NEW t \in S2 \ {n}
          PROVE  next2[t] \in S2 /\ lat2[t] = {next2[t]} \union lat2[next2[t]]
      <4>1. CASE t = h
        BY <4>1, <1>1, <1>2, <2>3, <3>1
      <4>2. CASE t # h
        <5>1. next2[t] = next[t] /\ next[t] \in S /\ lat[t] = {next[t]} \union lat[next[t]]
          BY <4>2, <1>2 DEF Ring
        <5>2. QED BY <5>1, <1>1
      <4>3. QED BY <4>1, <4>2
    <3>4. QED BY <1>1, <1>3, <3>2, <3>3 DEF Ring
  <2>4. QED BY <2>2, <2>3
<1>6. QED BY <1>4, <1>5 DEF lat2, next2

\* pt_i_unlink leaves a ring without the thread behind prev.
UnlinkNext(next, prev) == [next EXCEPT ![prev] = next[next[prev]], ![next[prev]] = NULL]
UnlinkHead(next, h, prev) ==
    IF next[prev] = prev THEN NULL ELSE IF next[prev] = h THEN prev ELSE h
Gone(lat, n) == [t \in Threads |-> lat[t] \ {n}]

\* The thread behind prev, unlinked, leaves a ring of the others.
LEMMA RingUnlink ==
    ASSUME NEW next \in Nexts, NEW h \in Threads \union {NULL}, NEW S \in SUBSET Threads,
           NEW lat \in Lats, Ordered(S, lat), Ring(next, h, S, lat),
           NEW prev \in S, NEW n, n = next[prev]
    PROVE  /\ n \in S
           /\ Ordered(S \ {n}, Gone(lat, n))
           /\ Ring(UnlinkNext(next, prev), UnlinkHead(next, h, prev), S \ {n}, Gone(lat, n))
<1> DEFINE lat2 == Gone(lat, n)
           next2 == UnlinkNext(next, prev)
           h2 == UnlinkHead(next, h, prev)
           S2 == S \ {n}
<1>0. h # NULL /\ h \in S /\ lat[h] = {} /\ next[h] \in S /\ S = {next[h]} \union lat[next[h]]
  BY DEF Ring
<1>1. n \in S /\ n # NULL
  BY <1>0, ThreadAssumption DEF Ring
<1>2. \A t \in S : lat2[t] = lat[t] \ {n}
  BY DEF Gone
<1>3. /\ \A t \in S2 \ {prev} : next2[t] = next[t] /\ next[t] # n
      /\ n # prev => next2[prev] = next[n]
  <2>1. \A t \in S \ {prev} : next[t] # n
    BY NextInjective
  <2>2. QED BY <2>1, <1>1 DEF UnlinkNext, Nexts
<1>4. h2 = IF n = prev THEN NULL ELSE IF n = h THEN prev ELSE h
  BY DEF UnlinkHead
<1>5. \A t \in S \ {h} : next[t] \in S /\ lat[t] = {next[t]} \union lat[next[t]]
  BY DEF Ring
<1> HIDE DEF lat2, next2, h2
<1>6. Ordered(S2, lat2)
  <2>1. \A t \in S2 : lat2[t] \subseteq S2 /\ t \notin lat2[t]
    BY <1>2 DEF Ordered
  <2>2. \A t, u \in S2 : u \in lat2[t] => lat2[u] \subseteq lat2[t]
    BY <1>2 DEF Ordered
  <2>3. \A t, u \in S2 : t # u => t \in lat2[u] \/ u \in lat2[t]
    BY <1>2 DEF Ordered
  <2>4. ASSUME NEW X \in SUBSET S2, X # {} PROVE \E t \in X : lat2[t] \cap X = {}
    <3>1. X \in SUBSET S
      OBVIOUS
    <3>2. PICK t \in X : lat[t] \cap X = {}
      BY <2>4, <3>1 DEF Ordered
    <3>3. QED BY <1>2, <3>1, <3>2
  <2>5. QED BY <2>1, <2>2, <2>3, <2>4 DEF Ordered
<1>7. Ring(next2, h2, S2, lat2)
  <2>1. CASE n = prev
    <3>1. prev = h
      <4>1. prev \notin lat[prev]
        BY DEF Ordered
      <4>2. QED BY <4>1, <1>5, <2>1
    <3>2. S = {n}
      BY <3>1, <1>0, <2>1
    <3>3. QED BY <3>2, <1>4, <2>1 DEF Ring
  <2>2. CASE n # prev /\ prev = h
    <3>1. h2 = h /\ h \in S2
      BY <1>0, <1>4, <2>2
    <3>2. next[n] \in S /\ lat[n] = {next[n]} \union lat[next[n]] /\ S = {n} \union lat[n]
      BY <1>0, <1>1, <1>5, <2>2
    <3>3. n \notin lat[n] /\ n \notin lat[next[n]]
      <4>1. n \notin lat[n]
        BY <1>1 DEF Ordered
      <4>2. QED BY <4>1, <3>2
    <3>4. next2[h] = next[n] /\ next[n] \in S2 /\ S2 = {next[n]} \union lat2[next[n]]
      BY <1>2, <1>3, <2>2, <3>2, <3>3
    <3>5. lat2[h] = {}
      BY <1>0, <1>2
    <3>6. ASSUME NEW t \in S2 \ {h}
          PROVE  next2[t] \in S2 /\ lat2[t] = {next2[t]} \union lat2[next2[t]]
      BY <1>2, <1>3, <1>5, <2>2
    <3>7. QED BY <3>1, <3>4, <3>5, <3>6, <1>0 DEF Ring
  <2>3. CASE n # prev /\ n = h
    <3>1. h2 = prev /\ prev \in S2 /\ prev # h
      BY <1>4, <2>3
    <3>2. lat2[prev] = {}
      <4>1. lat[prev] = {n} \union lat[n]
        BY <1>5, <3>1
      <4>2. lat[n] = {}
        BY <1>0, <2>3
      <4>3. lat2[prev] = lat[prev] \ {n}
        BY <1>2
      <4>4. QED BY <4>1, <4>2, <4>3
    <3>3. next2[prev] = next[h]
      BY <1>3, <2>3
    <3>4. next[h] # h
      BY <1>0, <3>1
    <3>5. next[h] \in S2 /\ S2 = {next[h]} \union lat2[next[h]]
      BY <1>0, <1>2, <2>3, <3>4
    <3>6. ASSUME NEW t \in S2 \ {prev}
          PROVE  next2[t] \in S2 /\ lat2[t] = {next2[t]} \union lat2[next2[t]]
      BY <1>2, <1>3, <1>5, <2>3
    <3>7. prev # NULL
      BY ThreadAssumption
    <3>8. QED BY <3>1, <3>2, <3>3, <3>5, <3>6, <3>7 DEF Ring
  <2>4. CASE n # prev /\ n # h /\ prev # h
    <3>1. h2 = h /\ h \in S2
      BY <1>0, <1>4, <2>4
    <3>2. lat2[h] = {}
      BY <1>0, <1>2
    <3>3. next2[h] = next[h] /\ next[h] # n
      BY <1>3, <2>4, <3>1
    <3>4. next[h] \in S2 /\ S2 = {next[h]} \union lat2[next[h]]
      BY <1>0, <1>2, <3>3
    <3>5. ASSUME NEW t \in S2 \ {h}
          PROVE  next2[t] \in S2 /\ lat2[t] = {next2[t]} \union lat2[next2[t]]
      <4>1. CASE t = prev
        <5>1. lat[prev] = {n} \union lat[n] /\ next[n] \in S /\ lat[n] = {next[n]} \union lat[next[n]]
          BY <1>1, <1>5, <2>4
        <5>2. n \notin lat[n]
          BY <1>1 DEF Ordered
        <5>3. next2[t] = next[n]
          BY <1>3, <2>4, <4>1
        <5>4. QED BY <5>1, <5>2, <5>3, <1>2, <4>1
      <4>2. CASE t # prev
        BY <1>2, <1>3, <1>5, <4>2
      <4>3. QED BY <4>1, <4>2
    <3>6. QED BY <3>1, <3>2, <3>3, <3>4, <3>5, <1>0 DEF Ring
  <2>5. QED BY <2>1, <2>2, <2>3, <2>4
<1>8. QED BY <1>1, <1>6, <1>7 DEF lat2, next2, h2

----------------------------------------------------------------------------
(* All lists of a state. *)

\* What the lists of s are: on[l] the threads on list l, lat as above.
Shape(s, on, lat) ==
    /\ on \in [PtHeads -> SUBSET Threads] /\ lat \in Lats
    /\ \A l \in PtHeads : Ordered(on[l], lat) /\ Ring(s.next, s.head[l], on[l], lat)
    /\ \A l, m \in PtHeads : l # m => on[l] \cap on[m] = {}
    /\ \A t \in Threads : s.next[t] # NULL <=> \E l \in PtHeads : t \in on[l]

\* The pointers lead LaterOnes and OnList to these sets.
LEMMA Determined ==
    ASSUME NEW s \in PtStates, NEW on, NEW lat, Shape(s, on, lat)
    PROVE  /\ \A t \in Listed(s) : LaterOnes(s)[t] = lat[t]
           /\ \A l \in PtHeads : OnList(s, l) = on[l]
           /\ \A t \in Threads : t \in Listed(s) <=> \E l \in PtHeads : t \in on[l]
<1>1. \A t \in Threads : t \in Listed(s) <=> \E l \in PtHeads : t \in on[l]
  BY DEF Shape, Listed
<1> DEFINE Eq(f) ==
        f = [t \in Listed(s) |->
                IF \E l \in PtHeads : s.head[l] = t THEN {}
                ELSE {s.next[t]} \union f[s.next[t]]]
<1>2. \A l \in PtHeads : \A t \in on[l] :
          /\ t \in Threads /\ t \in Listed(s)
          /\ (\E m \in PtHeads : s.head[m] = t) <=> t = s.head[l]
          /\ t = s.head[l] => lat[t] = {}
          /\ t # s.head[l] => s.next[t] \in on[l] /\ lat[t] = {s.next[t]} \union lat[s.next[t]]
  <2> SUFFICES ASSUME NEW l \in PtHeads, NEW t \in on[l]
               PROVE  /\ t \in Threads /\ t \in Listed(s)
                      /\ (\E m \in PtHeads : s.head[m] = t) <=> t = s.head[l]
                      /\ t = s.head[l] => lat[t] = {}
                      /\ t # s.head[l] => /\ s.next[t] \in on[l]
                                         /\ lat[t] = {s.next[t]} \union lat[s.next[t]]
    OBVIOUS
  <2>1. t \in Threads /\ t \in Listed(s)
    BY <1>1 DEF Shape
  <2>2. ASSUME NEW m \in PtHeads, s.head[m] = t PROVE t = s.head[l]
    <3>1. t # NULL
      BY <2>1, ThreadAssumption
    <3>2. Ring(s.next, s.head[m], on[m], lat)
      BY DEF Shape
    <3>3. t \in on[m]
      BY <2>2, <3>1, <3>2 DEF Ring
    <3>4. m = l
      BY <3>3 DEF Shape
    <3>5. QED BY <3>4, <2>2
  <2>3. Ring(s.next, s.head[l], on[l], lat)
    BY DEF Shape
  <2>4. QED BY <2>1, <2>2, <2>3 DEF Ring
<1>3. \E f : Eq(f)
  <2> DEFINE f == [t \in Listed(s) |-> lat[t]]
  <2>1. \A t \in Listed(s) :
            f[t] = IF \E l \in PtHeads : s.head[l] = t THEN {}
                   ELSE {s.next[t]} \union f[s.next[t]]
    <3> SUFFICES ASSUME NEW t \in Listed(s)
                 PROVE  f[t] = IF \E l \in PtHeads : s.head[l] = t THEN {}
                               ELSE {s.next[t]} \union f[s.next[t]]
      OBVIOUS
    <3>1. PICK l \in PtHeads : t \in on[l]
      BY <1>1 DEF Listed
    <3>2. CASE t = s.head[l]
      <4>1. lat[t] = {} /\ \E m \in PtHeads : s.head[m] = t
        BY <3>1, <3>2, <1>2
      <4>2. f[t] = lat[t]
        OBVIOUS
      <4>3. QED BY <4>1, <4>2
    <3>3. CASE t # s.head[l]
      <4>1. s.next[t] \in Listed(s) /\ lat[t] = {s.next[t]} \union lat[s.next[t]]
        BY <3>1, <3>3, <1>2
      <4>2. ~ \E m \in PtHeads : s.head[m] = t
        BY <3>1, <3>3, <1>2
      <4>3. QED BY <4>1, <4>2
    <3>4. QED BY <3>2, <3>3
  <2>2. Eq(f)
    <3> HIDE DEF f
    <3>1. f = [t \in Listed(s) |-> f[t]]
      BY DEF f
    <3>2. QED BY <2>1, <3>1
  <2> HIDE DEF f, Eq
  <2>3. QED BY <2>2
<1>4. LaterOnes(s) = CHOOSE f : Eq(f)
  BY DEF LaterOnes
<1>5. Eq(LaterOnes(s))
  <2> HIDE DEF Eq
  <2>1. QED BY <1>3, <1>4
<1>6. ASSUME NEW l \in PtHeads PROVE \A t \in on[l] : LaterOnes(s)[t] = lat[t]
  <2> DEFINE X == {t \in on[l] : LaterOnes(s)[t] # lat[t]}
  <2> SUFFICES ASSUME X # {} PROVE FALSE
    OBVIOUS
  <2>1. PICK g \in X : lat[g] \cap X = {}
    <3>1. Ordered(on[l], lat) /\ X \in SUBSET on[l]
      BY DEF Shape
    <3> HIDE DEF X
    <3>2. QED BY <3>1 DEF Ordered
  <2>2. LaterOnes(s)[g] = IF \E m \in PtHeads : s.head[m] = g THEN {}
                      ELSE {s.next[g]} \union LaterOnes(s)[s.next[g]]
    <3>1. g \in Listed(s)
      BY <2>1, <1>2
    <3>2. QED BY <3>1, <1>5
  <2>3. CASE g = s.head[l]
    <3>1. LaterOnes(s)[g] = {}
      BY <2>2, <2>3
    <3>2. Ring(s.next, s.head[l], on[l], lat) /\ on[l] # {}
      BY <2>1 DEF Shape
    <3>3. lat[g] = {}
      BY ONLY <2>3, <3>2 DEF Ring
    <3>4. QED BY <2>1, <3>1, <3>3
  <2>4. CASE g # s.head[l]
    <3>1. /\ s.next[g] \in on[l] /\ lat[g] = {s.next[g]} \union lat[s.next[g]]
          /\ ~ \E m \in PtHeads : s.head[m] = g
      BY <2>1, <2>4, <1>2
    <3>2. LaterOnes(s)[s.next[g]] = lat[s.next[g]]
      BY <2>1, <3>1
    <3>3. QED BY <2>1, <2>2, <3>1, <3>2
  <2>5. QED BY <2>3, <2>4
<1>7. \A t \in Listed(s) : LaterOnes(s)[t] = lat[t]
  BY <1>1, <1>6 DEF Listed
<1>8. ASSUME NEW l \in PtHeads PROVE OnList(s, l) = on[l]
  <2>1. ASSUME NEW t \in on[l] PROVE t \in OnList(s, l)
    <3>1. t \in Listed(s) /\ LaterOnes(s)[t] = lat[t]
      BY <1>2, <1>6
    <3>2. s.head[l] \in on[l] /\ lat[s.head[l]] = {}
      BY DEF Shape, Ring
    <3>3. t = s.head[l] \/ s.head[l] \in lat[t]
      BY <3>2 DEF Shape, Ordered
    <3>4. QED BY <3>1, <3>3 DEF OnList
  <2>2. ASSUME NEW t \in OnList(s, l) PROVE t \in on[l]
    <3>1. t \in Listed(s) /\ t \in Threads /\ (t = s.head[l] \/ s.head[l] \in lat[t])
      BY <1>7 DEF OnList, Listed
    <3>2. PICK m \in PtHeads : t \in on[m]
      BY <1>1, <3>1
    <3>3. s.head[l] \in on[m] /\ s.head[l] \in Threads
      BY <3>1, <3>2 DEF Shape, Ordered
    <3>4. s.head[l] # NULL
      BY <3>3, ThreadAssumption
    <3>5. s.head[l] \in on[l]
      BY <3>4 DEF Shape, Ring
    <3>6. QED BY <3>2, <3>3, <3>5 DEF Shape
  <2>3. QED BY <2>1, <2>2
<1>9. QED BY <1>1, <1>7, <1>8

\* n comes to list l, or leaves it.
With(on, l, n) == [on EXCEPT ![l] = @ \union {n}]
Without(on, l, n) == [on EXCEPT ![l] = @ \ {n}]

\* pt_i_link adds n to list l and leaves the other lists alone.
LEMMA LinkState ==
    ASSUME NEW s \in PtStates, NEW on, NEW lat, Shape(s, on, lat), NEW l \in PtHeads,
           NEW n \in Threads, \A m \in PtHeads : n \notin on[m], NEW r, r = pt_i_link(s, l, n)
    PROVE  /\ r \in PtStates
           /\ Shape(r, With(on, l, n), Joined(on[l], lat, n))
           /\ r.head[l] = n /\ \A m \in PtHeads \ {l} : r.head[m] = s.head[m]
           /\ r.channel = s.channel /\ r.alive = s.alive /\ r.running = s.running
           /\ r.waking = s.waking /\ r.one = s.one /\ r.prev = s.prev
<1> DEFINE next2 == LinkNext(s.next, s.head[l], n)
           head2 == [s.head EXCEPT ![l] = n]
           on2 == With(on, l, n)
           lat2 == Joined(on[l], lat, n)
<1>1. r = [s EXCEPT !.next = next2, !.head = head2]
  BY DEF pt_i_link, LinkNext
<1>2. /\ next2 \in Nexts /\ head2 \in [PtHeads -> Threads \union {NULL}]
      /\ s.head[l] \in Threads \union {NULL} /\ s.next \in Nexts
  <2>1. s.next \in Nexts /\ s.head \in [PtHeads -> Threads \union {NULL}]
    BY DEF PtStates, Nexts
  <2>2. s.head[l] \in Threads \union {NULL}
    BY <2>1
  <2>3. next2 \in Nexts
    <3>1. s.head[l] # NULL => s.next[s.head[l]] \in Threads \union {NULL}
      BY <2>1, <2>2 DEF Nexts
    <3>2. QED BY <2>1, <2>2, <3>1 DEF LinkNext, Nexts
  <2>4. QED BY <2>1, <2>2, <2>3
<1>3. /\ r \in PtStates /\ r.next = next2 /\ r.head = head2
      /\ r.channel = s.channel /\ r.alive = s.alive /\ r.running = s.running
      /\ r.waking = s.waking /\ r.one = s.one /\ r.prev = s.prev
  <2> HIDE DEF next2, head2
  <2>1. QED BY <1>1, <1>2 DEF PtStates, Nexts
<1>4. on2 \in [PtHeads -> SUBSET Threads] /\ lat2 \in Lats
  BY DEF Shape, Lats, Joined, With
<1>5. /\ on2[l] = on[l] \union {n} /\ \A m \in PtHeads \ {l} : on2[m] = on[m]
      /\ head2[l] = n /\ \A m \in PtHeads \ {l} : head2[m] = s.head[m]
  BY DEF Shape, PtStates, With
<1>6. ASSUME NEW m \in PtHeads PROVE Ordered(on2[m], lat2) /\ Ring(next2, head2[m], on2[m], lat2)
  <2>1. /\ Ordered(on[m], lat) /\ Ring(s.next, s.head[m], on[m], lat)
        /\ on[m] \in SUBSET Threads /\ lat \in Lats
    BY DEF Shape
  <2>2. CASE m = l
    <3> HIDE DEF next2, head2, on2, lat2
    <3>1. n \notin on[l]
      OBVIOUS
    <3>2. /\ Ordered(on[l] \union {n}, lat2)
          /\ Ring(next2, n, on[l] \union {n}, lat2)
      BY <1>2, <2>1, <2>2, <3>1, RingLink DEF next2, lat2
    <3>3. QED BY <3>2, <1>5, <2>2
  <2>3. CASE m # l
    <3>1. ASSUME NEW t \in on[m] PROVE next2[t] = s.next[t] /\ lat2[t] = lat[t]
      <4>1. t \in Threads /\ t # n /\ t \notin on[l]
        BY <2>1, <2>3 DEF Shape
      <4>2. t # s.head[l]
        <5>1. t # NULL
          BY <4>1, ThreadAssumption
        <5>2. s.head[l] = NULL \/ s.head[l] \in on[l]
          BY DEF Shape, Ring
        <5>3. QED BY <4>1, <5>1, <5>2
      <4>3. QED BY <4>1, <4>2, <1>2 DEF LinkNext, Joined, Nexts
    <3> HIDE DEF next2, head2, on2, lat2
    <3>2. Ordered(on[m], lat2) /\ Ring(next2, s.head[m], on[m], lat2)
      BY <2>1, <3>1, RingFrame
    <3>3. QED BY <3>2, <1>5, <2>3
  <2>4. QED BY <2>2, <2>3
<1>7. \A m, k \in PtHeads : m # k => on2[m] \cap on2[k] = {}
  BY <1>5 DEF Shape
<1>8. ASSUME NEW t \in Threads PROVE next2[t] # NULL <=> \E m \in PtHeads : t \in on2[m]
  <2>1. s.next[t] # NULL <=> \E m \in PtHeads : t \in on[m]
    BY DEF Shape
  <2>2. CASE t = n
    <3>1. n \in on2[l] /\ n # NULL
      BY <1>5, ThreadAssumption
    <3>2. s.head[l] # NULL => n # s.head[l] /\ s.next[s.head[l]] # NULL
      <4>1. s.head[l] # NULL => s.head[l] \in on[l] /\ s.next[s.head[l]] \in on[l]
        BY DEF Shape, Ring
      <4>2. on[l] \subseteq Threads
        BY DEF Shape
      <4>3. QED BY <4>1, <4>2, ThreadAssumption
    <3>3. next2[n] # NULL
      BY <1>2, <3>1, <3>2 DEF LinkNext, Nexts
    <3>4. QED BY <2>2, <3>1, <3>3
  <2>3. CASE t # n /\ t = s.head[l]
    <3>1. s.head[l] # NULL /\ n # NULL
      BY <2>3, ThreadAssumption
    <3>2. next2[t] = n
      BY <1>2, <2>3, <3>1 DEF LinkNext, Nexts
    <3>3. t \in on[l]
      BY <2>3, <3>1 DEF Shape, Ring
    <3>4. QED BY <3>1, <3>2, <3>3, <1>5
  <2>4. CASE t # n /\ t # s.head[l]
    <3>1. next2[t] = s.next[t]
      BY <1>2, <2>4 DEF LinkNext, Nexts
    <3>2. (\E m \in PtHeads : t \in on2[m]) <=> (\E m \in PtHeads : t \in on[m])
      BY <1>5, <2>4
    <3>3. QED BY <2>1, <3>1, <3>2
  <2>5. QED BY <2>2, <2>3, <2>4
<1>9. Shape(r, on2, lat2)
  <2> HIDE DEF next2, head2, on2, lat2
  <2>1. QED BY <1>3, <1>4, <1>6, <1>7, <1>8 DEF Shape
<1>10. QED BY <1>3, <1>5, <1>9

\* pt_i_unlink takes the thread behind prev from list l and leaves the others alone.
LEMMA UnlinkState ==
    ASSUME NEW s \in PtStates, NEW on, NEW lat, Shape(s, on, lat), NEW l \in PtHeads,
           NEW prev \in on[l], NEW n, n = s.next[prev], NEW r, r = pt_i_unlink(s, l, prev)
    PROVE  /\ r \in PtStates /\ n \in on[l]
           /\ Shape(r, Without(on, l, n), Gone(lat, n))
           /\ r.head[l] = UnlinkHead(s.next, s.head[l], prev)
           /\ \A m \in PtHeads \ {l} : r.head[m] = s.head[m]
           /\ r.channel = s.channel /\ r.alive = s.alive /\ r.running = s.running
           /\ r.waking = s.waking /\ r.one = s.one /\ r.prev = s.prev
<1> DEFINE next2 == UnlinkNext(s.next, prev)
           h2 == UnlinkHead(s.next, s.head[l], prev)
           head2 == [s.head EXCEPT ![l] = h2]
           on2 == Without(on, l, n)
           lat2 == Gone(lat, n)
<1>0. /\ s.next \in Nexts /\ s.head \in [PtHeads -> Threads \union {NULL}]
      /\ s.head[l] \in Threads \union {NULL} /\ on[l] \in SUBSET Threads /\ lat \in Lats
      /\ Ordered(on[l], lat) /\ Ring(s.next, s.head[l], on[l], lat)
  BY DEF PtStates, Nexts, Shape
<1>1. r = [s EXCEPT !.next = next2, !.head = head2]
  BY <1>0 DEF pt_i_unlink, UnlinkNext, UnlinkHead
<1> HIDE DEF next2, h2, head2, on2, lat2
<1>2. /\ n \in on[l] /\ Ordered(on[l] \ {n}, lat2) /\ Ring(next2, h2, on[l] \ {n}, lat2)
  BY <1>0, RingUnlink DEF next2, h2, lat2
<1>3. next2 \in Nexts /\ h2 \in Threads \union {NULL}
  <2>1. n \in Threads /\ s.next[n] \in Threads \union {NULL} /\ prev \in Threads
    BY <1>0, <1>2 DEF Nexts
  <2>2. QED BY <1>0, <2>1 DEF next2, h2, UnlinkNext, UnlinkHead, Nexts
<1>4. head2 \in [PtHeads -> Threads \union {NULL}]
  BY <1>0, <1>3 DEF head2
<1>5. /\ r \in PtStates /\ r.next = next2 /\ r.head = head2
      /\ r.channel = s.channel /\ r.alive = s.alive /\ r.running = s.running
      /\ r.waking = s.waking /\ r.one = s.one /\ r.prev = s.prev
  BY <1>1, <1>3, <1>4 DEF PtStates, Nexts
<1>6. on2 \in [PtHeads -> SUBSET Threads] /\ lat2 \in Lats
  BY DEF Shape, Lats, Gone, on2, lat2, Without
<1>7. /\ on2[l] = on[l] \ {n} /\ \A m \in PtHeads \ {l} : on2[m] = on[m]
      /\ head2[l] = h2 /\ \A m \in PtHeads \ {l} : head2[m] = s.head[m]
  BY <1>0 DEF Shape, on2, head2, Without
<1>8. ASSUME NEW m \in PtHeads PROVE Ordered(on2[m], lat2) /\ Ring(next2, head2[m], on2[m], lat2)
  <2>1. CASE m = l
    BY <1>2, <1>7, <2>1
  <2>2. CASE m # l
    <3>0. /\ Ordered(on[m], lat) /\ Ring(s.next, s.head[m], on[m], lat)
          /\ on[m] \in SUBSET Threads
      BY DEF Shape
    <3>1. ASSUME NEW t \in on[m] PROVE next2[t] = s.next[t] /\ lat2[t] = lat[t]
      <4>1. t \in Threads /\ t # n /\ t # prev /\ n \notin on[m]
        BY <1>2, <2>2, <3>0 DEF Shape
      <4>2. n \notin lat[t]
        BY <4>1, <3>0 DEF Ordered
      <4>3. lat2[t] = lat[t]
        BY <4>1, <4>2 DEF lat2, Gone
      <4>4. QED BY <4>1, <4>3, <1>0 DEF next2, UnlinkNext, Nexts
    <3>2. Ordered(on[m], lat2) /\ Ring(next2, s.head[m], on[m], lat2)
      BY <3>0, <3>1, RingFrame
    <3>3. QED BY <3>2, <1>7, <2>2
  <2>3. QED BY <2>1, <2>2
<1>9. \A m, k \in PtHeads : m # k => on2[m] \cap on2[k] = {}
  BY <1>7 DEF Shape
<1>10. ASSUME NEW t \in Threads PROVE next2[t] # NULL <=> \E m \in PtHeads : t \in on2[m]
  <2>1. s.next[t] # NULL <=> \E m \in PtHeads : t \in on[m]
    BY DEF Shape
  <2>2. CASE t = n
    <3>1. next2[n] = NULL
      BY <1>0, <1>2 DEF next2, UnlinkNext, Nexts
    <3>2. \A m \in PtHeads : n \notin on2[m]
      BY <1>2, <1>7 DEF Shape
    <3>3. QED BY <2>2, <3>1, <3>2
  <2>3. CASE t # n /\ t \in on[l]
    <3>1. t \in on2[l]
      BY <1>7, <2>3
    <3>2. next2[t] \in on2[l] /\ on2[l] \subseteq Threads
      BY <3>1, <1>8, <1>6 DEF Ring
    <3>3. QED BY <3>1, <3>2, ThreadAssumption
  <2>4. CASE t # n /\ t \notin on[l]
    <3>1. next2[t] = s.next[t]
      BY <1>0, <2>4 DEF next2, UnlinkNext, Nexts
    <3>2. (\E m \in PtHeads : t \in on2[m]) <=> (\E m \in PtHeads : t \in on[m])
      BY <1>7, <2>4
    <3>3. QED BY <2>1, <3>1, <3>2
  <2>5. QED BY <2>2, <2>3, <2>4
<1>11. Shape(r, on2, lat2)
  BY <1>5, <1>6, <1>8, <1>9, <1>10 DEF Shape
<1>12. QED BY <1>2, <1>5, <1>7, <1>11 DEF on2, lat2, h2

----------------------------------------------------------------------------
(* The queues that the lists are. *)

\* Who waits on channel c; who of them pt_i_wake is going to move; who came before whom.
Here(on, ch, c) == {t \in on[pt_i_get_wait_list(c)] : ch[t] = c}
Target(on, lat, ch, c, one) ==
    {t \in Here(on, ch, c) : one => \A u \in Here(on, ch, c) : t \notin lat[u]}
Ahead(on, lat, ch, M, t, u) ==
    \/ t \in on[READY] /\ u \in M
    \/ /\ (\E l \in PtHeads : t \in on[l]) /\ u \in lat[t]
       /\ t \in on[READY] \/ ch[t] = ch[u]
       /\ (t \in M) <=> (u \in M)
Came(on, lat, ch, M) == {p \in Threads \X Threads : Ahead(on, lat, ch, M, p[1], p[2])}
MovedOn(s, on, lat) ==
    IF s.waking = NULL THEN {} ELSE Target(on, lat, s.channel, s.waking, s.one)

\* A channel has a wait list, which is not the ready list.
LEMMA WaitLists == \A c : pt_i_get_wait_list(c) \in PtHeads \ {READY}
  BY DEF pt_i_get_wait_list, PtHeads, READY, PT_NWAIT

\* The ready list is a list.
LEMMA ReadyIsAList == READY \in PtHeads
  BY DEF PtHeads, READY, PT_NWAIT

\* What ListsAreQueues calls the queues, in these terms.
LEMMA View ==
    ASSUME NEW s \in PtStates, NEW on, NEW lat, Shape(s, on, lat)
    PROVE  /\ OnList(s, READY) = on[READY]
           /\ \A c : Waiting(s, c) = Here(on, s.channel, c)
           /\ ToMove(s) = MovedOn(s, on, lat)
           /\ Earlier(s) = Came(on, lat, s.channel, MovedOn(s, on, lat))
<1>1. /\ \A t \in Listed(s) : LaterOnes(s)[t] = lat[t]
      /\ \A l \in PtHeads : OnList(s, l) = on[l]
      /\ \A t \in Threads : t \in Listed(s) <=> \E l \in PtHeads : t \in on[l]
  BY Determined
<1>2. OnList(s, READY) = on[READY]
  BY <1>1, ReadyIsAList
<1>3. ASSUME NEW c PROVE Waiting(s, c) = Here(on, s.channel, c)
  BY <1>1, WaitLists DEF Waiting, Here
<1>4. ToMove(s) = MovedOn(s, on, lat)
  <2> DEFINE W == Here(on, s.channel, s.waking)
  <2>1. \A u \in W : LaterOnes(s)[u] = lat[u]
    <3>1. pt_i_get_wait_list(s.waking) \in PtHeads
      BY WaitLists
    <3>2. \A u \in W : u \in Listed(s)
      BY <1>1, <3>1 DEF Here, Shape
    <3>3. QED BY <1>1, <3>2
  <2>2. Waiting(s, s.waking) = W
    BY <1>3
  <2>3. s.one \in BOOLEAN
    BY DEF PtStates
  <2> HIDE DEF W
  <2>4. Target(on, lat, s.channel, s.waking, s.one)
            = {t \in W : s.one => \A u \in W : t \notin lat[u]}
    BY DEF Target, W
  <2>5. QED BY <2>1, <2>2, <2>3, <2>4 DEF ToMove, MovedOn
<1>5. Earlier(s) = Came(on, lat, s.channel, MovedOn(s, on, lat))
  <2> DEFINE M == MovedOn(s, on, lat)
             A(t, u) ==
                 \/ t \in on[READY] /\ u \in M
                 \/ /\ t \in Listed(s) /\ u \in LaterOnes(s)[t]
                    /\ t \in on[READY] \/ s.channel[t] = s.channel[u]
                    /\ (t \in M) <=> (u \in M)
  <2>1. Earlier(s) = {p \in Threads \X Threads : A(p[1], p[2])}
    BY <1>2, <1>4 DEF Earlier
  <2>2. \A t, u \in Threads : A(t, u) <=> Ahead(on, lat, s.channel, M, t, u)
    BY <1>1 DEF Ahead
  <2> HIDE DEF A, M
  <2>3. QED BY <2>1, <2>2 DEF Came, M
<1>6. QED BY <1>2, <1>3, <1>4, <1>5

\* Orders compared pair by pair.
LEMMA BehindPairs ==
    ASSUME NEW b \in SUBSET (Threads \X Threads), NEW Q \in SUBSET Threads, NEW S \in SUBSET Threads
    PROVE  /\ Queues!Behind(b, Q, S) \in SUBSET (Threads \X Threads)
           /\ \A t, u \in Threads :
                 <<t, u>> \in Queues!Behind(b, Q, S)
                     <=> (<<t, u>> \in b /\ (t \in S <=> u \in S)) \/ (t \in Q /\ u \in S)
  BY DEF Queues!Behind

\* Who came before whom, pair by pair.
LEMMA CamePairs ==
    \A on, lat, ch, M :
        /\ Came(on, lat, ch, M) \in SUBSET (Threads \X Threads)
        /\ \A t, u \in Threads :
              <<t, u>> \in Came(on, lat, ch, M) <=> Ahead(on, lat, ch, M, t, u)
  BY DEF Came

\* Relations with the same pairs are the same.
LEMMA SamePairs ==
    ASSUME NEW b \in SUBSET (Threads \X Threads), NEW d \in SUBSET (Threads \X Threads),
           \A t, u \in Threads : <<t, u>> \in b <=> <<t, u>> \in d
    PROVE  b = d
  OBVIOUS

\* n comes to list l, on which it is the last of the queue Q.
LEMMA Comes ==
    ASSUME NEW on \in [PtHeads -> SUBSET Threads], NEW lat \in Lats, NEW ch, NEW ch2,
           NEW l \in PtHeads, NEW n \in Threads, NEW Q,
           \A m \in PtHeads : n \notin on[m] /\ Ordered(on[m], lat),
           \A m, k \in PtHeads : m # k => on[m] \cap on[k] = {},
           \A t \in Threads \ {n} : ch2[t] = ch[t],
           Q = IF l = READY THEN on[READY] ELSE {t \in on[l] : ch[t] = ch2[n]}
    PROVE  Came(With(on, l, n), Joined(on[l], lat, n), ch2, {})
               = Queues!Behind(Came(on, lat, ch, {}), Q, {n})
<1> DEFINE on2 == With(on, l, n)
           lat2 == Joined(on[l], lat, n)
<1>1. /\ on2[l] = on[l] \union {n} /\ \A m \in PtHeads \ {l} : on2[m] = on[m]
      /\ on2 \in [PtHeads -> SUBSET Threads] /\ {} \in SUBSET Threads
      /\ Q \in SUBSET Threads /\ {n} \in SUBSET Threads
  BY ReadyIsAList DEF With
<1>2. \A t \in Threads : lat2[t] = IF t \in on[l] THEN lat[t] \union {n}
                                  ELSE IF t = n THEN {} ELSE lat[t]
  BY DEF Joined
<1> HIDE DEF on2, lat2
<1>3. ASSUME NEW t \in Threads, NEW u \in Threads
      PROVE  <<t, u>> \in Came(on2, lat2, ch2, {})
                 <=> <<t, u>> \in Queues!Behind(Came(on, lat, ch, {}), Q, {n})
  <2>1. <<t, u>> \in Came(on2, lat2, ch2, {})
            <=> /\ (\E m \in PtHeads : t \in on2[m]) /\ u \in lat2[t]
                /\ t \in on2[READY] \/ ch2[t] = ch2[u]
    BY <1>1, CamePairs DEF Ahead
  <2>2. <<t, u>> \in Came(on, lat, ch, {})
            <=> /\ (\E m \in PtHeads : t \in on[m]) /\ u \in lat[t]
                /\ t \in on[READY] \/ ch[t] = ch[u]
    BY <1>1, CamePairs DEF Ahead
  <2>3. <<t, u>> \in Queues!Behind(Came(on, lat, ch, {}), Q, {n})
            <=> \/ <<t, u>> \in Came(on, lat, ch, {}) /\ (t = n <=> u = n)
                \/ t \in Q /\ u = n
    <3>1. Came(on, lat, ch, {}) \in SUBSET (Threads \X Threads)
      BY <1>1, CamePairs DEF Ahead
    <3>2. QED BY <1>1, <3>1, BehindPairs
  <2>4. CASE t = n
    BY <2>1, <2>2, <2>3, <2>4, <1>2
  <2>5. CASE t # n /\ t \in on[l]
    <3>1. (\E m \in PtHeads : t \in on[m]) /\ (\E m \in PtHeads : t \in on2[m])
      BY <1>1, <2>5
    <3>2. t \in on2[READY] <=> t \in on[READY]
      BY <1>1, <2>5, ReadyIsAList
    <3>3. n \notin lat[t] /\ lat2[t] = lat[t] \union {n}
      BY <1>2, <2>5 DEF Ordered
    <3>4. t \in on[READY] <=> l = READY
      BY <2>5, ReadyIsAList
    <3>5. CASE u = n
      <4>1. <<t, u>> \in Came(on2, lat2, ch2, {}) <=> l = READY \/ ch[t] = ch2[n]
        BY <2>1, <3>1, <3>2, <3>3, <3>4, <3>5, <2>5
      <4>2. t \in Q <=> l = READY \/ ch[t] = ch2[n]
        BY <2>5
      <4>3. QED BY <4>1, <4>2, <2>2, <2>3, <3>3, <3>5
    <3>6. CASE u # n
      BY <2>1, <2>2, <2>3, <2>5, <3>1, <3>2, <3>3, <3>6
    <3>7. QED BY <3>5, <3>6
  <2>6. CASE t # n /\ t \notin on[l]
    <3>1. (\E m \in PtHeads : t \in on[m]) <=> (\E m \in PtHeads : t \in on2[m])
      BY <1>1, <2>6
    <3>2. t \in on2[READY] <=> t \in on[READY]
      BY <1>1, <2>6, ReadyIsAList
    <3>3. t \notin Q /\ lat2[t] = lat[t]
      BY <1>2, <2>6
    <3>4. (\E m \in PtHeads : t \in on[m]) => n \notin lat[t]
      BY DEF Ordered
    <3>5. QED BY <2>1, <2>2, <2>3, <2>6, <3>1, <3>2, <3>3, <3>4
  <2>7. QED BY <2>4, <2>5, <2>6
<1>4. /\ Came(on2, lat2, ch2, {}) \in SUBSET (Threads \X Threads)
      /\ Queues!Behind(Came(on, lat, ch, {}), Q, {n}) \in SUBSET (Threads \X Threads)
  BY <1>1, CamePairs, BehindPairs
<1>5. Came(on2, lat2, ch2, {}) = Queues!Behind(Came(on, lat, ch, {}), Q, {n})
  <2> DEFINE B == Came(on2, lat2, ch2, {})
             D == Queues!Behind(Came(on, lat, ch, {}), Q, {n})
  <2>1. /\ B \in SUBSET (Threads \X Threads) /\ D \in SUBSET (Threads \X Threads)
        /\ \A t, u \in Threads : <<t, u>> \in B <=> <<t, u>> \in D
    BY <1>3, <1>4
  <2> HIDE DEF B, D
  <2>2. B = D
    BY <2>1, SamePairs
  <2>3. QED BY <2>2 DEF B, D
<1>6. QED BY <1>5 DEF on2, lat2

\* n leaves list l.
LEMMA Leaves ==
    ASSUME NEW on \in [PtHeads -> SUBSET Threads], NEW lat \in Lats, NEW ch,
           NEW l \in PtHeads, NEW n \in on[l],
           \A m \in PtHeads : Ordered(on[m], lat),
           \A m, k \in PtHeads : m # k => on[m] \cap on[k] = {}
    PROVE  Came(Without(on, l, n), Gone(lat, n), ch, {})
               = Queues!Behind(Came(on, lat, ch, {}), {}, {n})
<1> DEFINE on2 == Without(on, l, n)
           lat2 == Gone(lat, n)
<1>1. /\ on2[l] = on[l] \ {n} /\ \A m \in PtHeads \ {l} : on2[m] = on[m]
      /\ on2 \in [PtHeads -> SUBSET Threads] /\ {} \in SUBSET Threads
      /\ {n} \in SUBSET Threads /\ n \in Threads
  BY DEF Without
<1>2. \A t \in Threads : lat2[t] = lat[t] \ {n}
  BY DEF Gone
<1>3. \A m \in PtHeads : n \in on[m] => m = l
  OBVIOUS
<1> HIDE DEF on2, lat2
<1>4. ASSUME NEW t \in Threads, NEW u \in Threads
      PROVE  <<t, u>> \in Came(on2, lat2, ch, {})
                 <=> <<t, u>> \in Queues!Behind(Came(on, lat, ch, {}), {}, {n})
  <2>1. <<t, u>> \in Came(on2, lat2, ch, {})
            <=> /\ (\E m \in PtHeads : t \in on2[m]) /\ u \in lat2[t]
                /\ t \in on2[READY] \/ ch[t] = ch[u]
    BY <1>1, CamePairs DEF Ahead
  <2>2. <<t, u>> \in Came(on, lat, ch, {})
            <=> /\ (\E m \in PtHeads : t \in on[m]) /\ u \in lat[t]
                /\ t \in on[READY] \/ ch[t] = ch[u]
    BY <1>1, CamePairs DEF Ahead
  <2>3. <<t, u>> \in Queues!Behind(Came(on, lat, ch, {}), {}, {n})
            <=> <<t, u>> \in Came(on, lat, ch, {}) /\ (t = n <=> u = n)
    <3>1. Came(on, lat, ch, {}) \in SUBSET (Threads \X Threads)
      BY <1>1, CamePairs DEF Ahead
    <3> DEFINE Z == {}
               N == {n}
    <3>2. Z \in SUBSET Threads /\ N \in SUBSET Threads
      BY <1>1
    <3>3. t \notin Z /\ (t \in N <=> t = n) /\ (u \in N <=> u = n)
      OBVIOUS
    <3> HIDE DEF Z, N
    <3>4. <<t, u>> \in Queues!Behind(Came(on, lat, ch, {}), Z, N)
              <=> (<<t, u>> \in Came(on, lat, ch, {}) /\ (t \in N <=> u \in N)) \/ (t \in Z /\ u \in N)
      BY <3>1, <3>2, BehindPairs
    <3>5. QED BY <3>3, <3>4 DEF Z, N
  <2>4. CASE t = n
    <3>1. \A m \in PtHeads : n \notin on2[m]
      BY <1>1, <1>3
    <3>2. n \notin lat[n]
      BY DEF Ordered
    <3>3. QED BY <2>1, <2>2, <2>3, <2>4, <3>1, <3>2
  <2>5. CASE t # n
    <3>1. (\E m \in PtHeads : t \in on[m]) <=> (\E m \in PtHeads : t \in on2[m])
      BY <1>1, <2>5
    <3>2. t \in on2[READY] <=> t \in on[READY]
      BY <1>1, <2>5, ReadyIsAList
    <3>3. QED BY <1>2, <2>1, <2>2, <2>3, <2>5, <3>1, <3>2
  <2>6. QED BY <2>4, <2>5
<1>5. /\ Came(on2, lat2, ch, {}) \in SUBSET (Threads \X Threads)
      /\ Queues!Behind(Came(on, lat, ch, {}), {}, {n}) \in SUBSET (Threads \X Threads)
  BY <1>1, CamePairs, BehindPairs
<1>6. Came(on2, lat2, ch, {}) = Queues!Behind(Came(on, lat, ch, {}), {}, {n})
  <2> DEFINE B == Came(on2, lat2, ch, {})
             D == Queues!Behind(Came(on, lat, ch, {}), {}, {n})
  <2>1. /\ B \in SUBSET (Threads \X Threads) /\ D \in SUBSET (Threads \X Threads)
        /\ \A t, u \in Threads : <<t, u>> \in B <=> <<t, u>> \in D
    BY <1>4, <1>5
  <2> HIDE DEF B, D
  <2>2. B = D
    BY <2>1, SamePairs
  <2>3. QED BY <2>2 DEF B, D
<1>7. QED BY <1>6 DEF on2, lat2

\* Those of W are going to be moved.
LEMMA Starts ==
    ASSUME NEW on \in [PtHeads -> SUBSET Threads], NEW lat \in Lats, NEW ch,
           NEW l \in PtHeads \ {READY}, NEW W \in SUBSET on[l],
           \A m \in PtHeads : Ordered(on[m], lat),
           \A m, k \in PtHeads : m # k => on[m] \cap on[k] = {}
    PROVE  Came(on, lat, ch, W) = Queues!Behind(Came(on, lat, ch, {}), on[READY], W)
<1>1. W \in SUBSET Threads /\ {} \in SUBSET Threads /\ on[READY] \in SUBSET Threads
  BY ReadyIsAList
<1>2. Came(on, lat, ch, {}) \in SUBSET (Threads \X Threads)
  BY <1>1, CamePairs DEF Ahead
<1>3. ASSUME NEW t \in Threads, NEW u \in Threads
      PROVE  <<t, u>> \in Came(on, lat, ch, W)
                 <=> <<t, u>> \in Queues!Behind(Came(on, lat, ch, {}), on[READY], W)
  <2> DEFINE P == /\ (\E m \in PtHeads : t \in on[m]) /\ u \in lat[t]
                  /\ t \in on[READY] \/ ch[t] = ch[u]
             I == (t \in W) <=> (u \in W)
             N == t \in on[READY] /\ u \in W
  <2>1. <<t, u>> \in Came(on, lat, ch, W) <=> N \/ (P /\ I)
    BY <1>1, CamePairs DEF Ahead
  <2>2. <<t, u>> \in Came(on, lat, ch, {}) <=> P
    BY <1>1, CamePairs DEF Ahead
  <2>3. <<t, u>> \in Queues!Behind(Came(on, lat, ch, {}), on[READY], W)
            <=> (<<t, u>> \in Came(on, lat, ch, {}) /\ I) \/ N
    BY <1>1, <1>2, BehindPairs
  <2> HIDE DEF P, I, N
  <2>4. QED BY <2>1, <2>2, <2>3
<1>4. /\ Came(on, lat, ch, W) \in SUBSET (Threads \X Threads)
      /\ Queues!Behind(Came(on, lat, ch, {}), on[READY], W) \in SUBSET (Threads \X Threads)
  BY <1>1, <1>2, CamePairs, BehindPairs
<1>5. QED BY <1>3, <1>4, SamePairs

\* t, the first of those that are going to be moved, is moved: nothing is seen of it.
LEMMA Moves ==
    ASSUME NEW on \in [PtHeads -> SUBSET Threads], NEW lat \in Lats, NEW ch,
           NEW l \in PtHeads \ {READY}, NEW W \in SUBSET on[l], NEW t \in W,
           \A m \in PtHeads : Ordered(on[m], lat),
           \A m, k \in PtHeads : m # k => on[m] \cap on[k] = {},
           \A u \in W : ch[u] = ch[t],
           \A u \in on[l] : t \in lat[u] => ch[u] # ch[t],
           NEW on2, on2 = Without(on, l, t), NEW V, V = W \ {t},
           NEW on3, on3 = With(on2, READY, t),
           NEW lat3, lat3 = Joined(on2[READY], Gone(lat, t), t)
    PROVE  Came(on3, lat3, ch, V) = Came(on, lat, ch, W)
<1>1. /\ on3 \in [PtHeads -> SUBSET Threads]
      /\ on2[READY] = on[READY] /\ on3[READY] = on[READY] \union {t} /\ on3[l] = on[l] \ {t}
      /\ \A m \in PtHeads \ {READY, l} : on3[m] = on[m]
      /\ W \in SUBSET Threads /\ V \in SUBSET Threads /\ t \in Threads /\ t \notin on[READY]
  BY ReadyIsAList DEF With, Without
<1>7. \A a : a \in V <=> a \in W /\ a # t
  OBVIOUS
<1>2. \A a \in Threads : lat3[a] = IF a \in on[READY] THEN (lat[a] \ {t}) \union {t}
                                  ELSE IF a = t THEN {} ELSE lat[a] \ {t}
  BY <1>1 DEF Joined, Gone
<1>3. ASSUME NEW a \in Threads, NEW b \in Threads
      PROVE  <<a, b>> \in Came(on3, lat3, ch, V) <=> <<a, b>> \in Came(on, lat, ch, W)
  <2>1. <<a, b>> \in Came(on3, lat3, ch, V)
            <=> \/ a \in on3[READY] /\ b \in V
                \/ /\ (\E m \in PtHeads : a \in on3[m]) /\ b \in lat3[a]
                   /\ a \in on3[READY] \/ ch[a] = ch[b]
                   /\ (a \in V) <=> (b \in V)
    BY CamePairs DEF Ahead
  <2>2. <<a, b>> \in Came(on, lat, ch, W)
            <=> \/ a \in on[READY] /\ b \in W
                \/ /\ (\E m \in PtHeads : a \in on[m]) /\ b \in lat[a]
                   /\ a \in on[READY] \/ ch[a] = ch[b]
                   /\ (a \in W) <=> (b \in W)
    BY <1>1, CamePairs DEF Ahead
  <2>3. CASE a \in on[READY]
    <3>1. a \in on3[READY] /\ a \notin W /\ a # t
      BY <1>1, <2>3, ReadyIsAList
    <3>2. (\E m \in PtHeads : a \in on[m]) /\ (\E m \in PtHeads : a \in on3[m])
      BY <2>3, <3>1, ReadyIsAList
    <3>3. lat[a] \subseteq on[READY]
      BY <2>3, ReadyIsAList DEF Ordered
    <3>4. lat[a] \cap W = {} /\ t \notin lat[a]
      BY <3>3, ReadyIsAList
    <3>5. lat3[a] = lat[a] \union {t}
      BY <1>2, <2>3, <3>4
    <3>6. QED BY <1>7, <2>1, <2>2, <2>3, <3>1, <3>2, <3>4, <3>5
  <2>4. CASE a = t
    <3>1. a \in on3[READY] /\ lat3[a] = {} /\ a \notin on[READY] /\ a \in W
      BY <1>1, <1>2, <2>4
    <3>2. <<a, b>> \in Came(on3, lat3, ch, V) <=> b \in V
      BY <2>1, <3>1
    <3>3. <<a, b>> \in Came(on, lat, ch, W) <=> b \in lat[t] /\ b \in W
      BY <2>2, <2>4, <3>1
    <3>4. t \notin lat[t]
      BY DEF Ordered
    <3>5. b \in V => b \in lat[t]
      <4>1. SUFFICES ASSUME b \in W, b # t PROVE b \in lat[t]
        BY <1>7
      <4>2. t \in lat[b] \/ b \in lat[t]
        BY <4>1 DEF Ordered
      <4>3. QED BY <4>1, <4>2
    <3>6. QED BY <1>7, <3>2, <3>3, <3>4, <3>5
  <2>5. CASE a \notin on[READY] /\ a # t
    <3>1. a \notin on3[READY] /\ lat3[a] = lat[a] \ {t}
      BY <1>1, <1>2, <2>5
    <3>2. (\E m \in PtHeads : a \in on[m]) <=> (\E m \in PtHeads : a \in on3[m])
      <4>1. ASSUME NEW m \in PtHeads PROVE a \in on[m] <=> a \in on3[m]
        BY <1>1, <2>5
      <4>2. QED BY <4>1
    <3>3. CASE b = t
      <4>1. ASSUME NEW m \in PtHeads, a \in on[m], t \in lat[a] PROVE ch[a] # ch[t]
        <5>1. t \in on[m]
          BY <4>1 DEF Ordered
        <5>2. m = l
          BY <5>1
        <5>3. QED BY <4>1, <5>2
      <4>2. <<a, b>> \notin Came(on, lat, ch, W)
        BY <2>2, <2>5, <3>3, <4>1
      <4>3. QED BY <1>7, <2>1, <3>1, <3>3, <4>2
    <3>4. CASE b # t
      BY <1>7, <2>1, <2>2, <2>5, <3>1, <3>2, <3>4
    <3>5. QED BY <3>3, <3>4
  <2>6. QED BY <2>3, <2>4, <2>5
<1>4. /\ Came(on3, lat3, ch, V) \in SUBSET (Threads \X Threads)
      /\ Came(on, lat, ch, W) \in SUBSET (Threads \X Threads)
  BY <1>1, CamePairs DEF Ahead
<1>5. Came(on3, lat3, ch, V) = Came(on, lat, ch, W)
  <2> DEFINE B == Came(on3, lat3, ch, V)
             D == Came(on, lat, ch, W)
  <2>1. /\ B \in SUBSET (Threads \X Threads) /\ D \in SUBSET (Threads \X Threads)
        /\ \A a, b \in Threads : <<a, b>> \in B <=> <<a, b>> \in D
    BY <1>3, <1>4
  <2> HIDE DEF B, D
  <2>2. B = D
    BY <2>1, SamePairs
  <2>3. QED BY <2>2 DEF B, D
<1>6. QED BY <1>5

----------------------------------------------------------------------------
(* The inductive invariant, and what the operations do to the queues. *)

\* Who is on a list is alive and does not run, and whoever waits is on the list of its
\* channel.
Sound(s, on) ==
    /\ \A l \in PtHeads : on[l] \subseteq s.alive /\ s.running \notin on[l]
    /\ \A l \in PtHeads \ {READY} : \A t \in on[l] :
          s.channel[t] \in Chans /\ pt_i_get_wait_list(s.channel[t]) = l

\* The loop of pt_i_wake has passed only threads that wait for something else.
Walks(s, on, lat) ==
    s.waking # NULL =>
        LET l == pt_i_get_wait_list(s.waking)
        IN /\ s.prev \in on[l]
           /\ s.prev # s.head[l] =>
                 \A u \in on[l] : u = s.prev \/ s.prev \in lat[u] => s.channel[u] # s.waking

PtInv ==
    /\ PtTypeOK
    /\ \E on, lat : Shape(pts, on, lat) /\ Sound(pts, on) /\ Walks(pts, on, lat)

\* The queues as ListsAreQueues names them.
QReady(s) == OnList(s, READY) \union ToMove(s)
QWaiting(s) == [c \in Chans |-> Waiting(s, c) \ ToMove(s)]

\* While pt_i_wake does not walk, the queues are what the lists hold.
LEMMA CalmView ==
    ASSUME NEW s \in PtStates, NEW on, NEW lat, Shape(s, on, lat), s.waking = NULL
    PROVE  /\ QReady(s) = on[READY]
           /\ QWaiting(s) = [c \in Chans |-> Here(on, s.channel, c)]
           /\ Earlier(s) = Came(on, lat, s.channel, {})
<1>1. /\ OnList(s, READY) = on[READY] /\ ToMove(s) = {}
      /\ \A c : Waiting(s, c) = Here(on, s.channel, c)
      /\ Earlier(s) = Came(on, lat, s.channel, {})
  BY View DEF MovedOn
<1>2. QReady(s) = on[READY]
  BY <1>1 DEF QReady
<1>3. QWaiting(s) = [c \in Chans |-> Here(on, s.channel, c)]
  BY <1>1 DEF QWaiting
<1>4. QED BY <1>1, <1>2, <1>3

\* n is linked to list l; s1 is s but for n's channel and what the lists do not show.
LEMMA Linked ==
    ASSUME NEW s \in PtStates, NEW s1 \in PtStates, NEW on, NEW lat, Shape(s, on, lat),
           s1.next = s.next, s1.head = s.head, s.waking = NULL, s1.waking = NULL,
           NEW l \in PtHeads, NEW n \in Threads, \A m \in PtHeads : n \notin on[m],
           \A t \in Threads \ {n} : s1.channel[t] = s.channel[t],
           Sound(s1, on), n \in s1.alive, n # s1.running,
           l # READY => s1.channel[n] \in Chans /\ pt_i_get_wait_list(s1.channel[n]) = l,
           NEW r, r = pt_i_link(s1, l, n)
    PROVE  /\ r \in PtStates /\ r.alive = s1.alive /\ r.running = s1.running /\ r.waking = NULL
           /\ \E on2, lat2 : Shape(r, on2, lat2) /\ Sound(r, on2) /\ Walks(r, on2, lat2)
           /\ l = READY => /\ QReady(r) = QReady(s) \union {n} /\ QWaiting(r) = QWaiting(s)
                          /\ Earlier(r) = Queues!Behind(Earlier(s), QReady(s), {n})
           /\ l # READY => LET c == s1.channel[n]
                          IN /\ QReady(r) = QReady(s)
                             /\ QWaiting(r) = [QWaiting(s) EXCEPT ![c] = @ \union {n}]
                             /\ Earlier(r) = Queues!Behind(Earlier(s), QWaiting(s)[c], {n})
<1> DEFINE on2 == With(on, l, n)
           lat2 == Joined(on[l], lat, n)
           c == s1.channel[n]
<1>0. Shape(s1, on, lat)
  BY DEF Shape
<1>1. /\ r \in PtStates /\ Shape(r, on2, lat2)
      /\ r.channel = s1.channel /\ r.alive = s1.alive /\ r.running = s1.running
      /\ r.waking = NULL
  BY <1>0, LinkState
<1>2. /\ on2[l] = on[l] \union {n} /\ \A m \in PtHeads \ {l} : on2[m] = on[m]
      /\ on \in [PtHeads -> SUBSET Threads] /\ lat \in Lats
      /\ \A m \in PtHeads : n \notin on[m] /\ Ordered(on[m], lat)
      /\ \A m, k \in PtHeads : m # k => on[m] \cap on[k] = {}
  BY DEF Shape, With
<1>3. /\ QReady(s) = on[READY]
      /\ QWaiting(s) = [d \in Chans |-> Here(on, s.channel, d)]
      /\ Earlier(s) = Came(on, lat, s.channel, {})
  BY CalmView
<1>4. /\ QReady(r) = on2[READY]
      /\ QWaiting(r) = [d \in Chans |-> Here(on2, r.channel, d)]
      /\ Earlier(r) = Came(on2, lat2, r.channel, {})
  <2> HIDE DEF on2, lat2
  <2>1. QED BY <1>1, CalmView
<1>5. Sound(r, on2) /\ Walks(r, on2, lat2)
  <2> HIDE DEF on2, lat2
  <2>1. ASSUME NEW m \in PtHeads PROVE on2[m] \subseteq r.alive /\ r.running \notin on2[m]
    BY <1>1, <1>2 DEF Sound
  <2>2. ASSUME NEW m \in PtHeads \ {READY}, NEW t \in on2[m]
        PROVE  r.channel[t] \in Chans /\ pt_i_get_wait_list(r.channel[t]) = m
    BY <1>1, <1>2 DEF Sound
  <2>3. QED BY <1>1, <2>1, <2>2 DEF Sound, Walks
<1>6. CASE l = READY
  <2>1. QReady(r) = QReady(s) \union {n}
    BY <1>2, <1>3, <1>4, <1>6
  <2>2. ASSUME NEW d \in Chans PROVE Here(on2, r.channel, d) = Here(on, s.channel, d)
    <3>1. on2[pt_i_get_wait_list(d)] = on[pt_i_get_wait_list(d)]
      BY <1>2, <1>6, WaitLists
    <3>2. \A t \in on[pt_i_get_wait_list(d)] : r.channel[t] = s.channel[t]
      BY <1>1, <1>2, WaitLists
    <3> HIDE DEF on2
    <3>3. QED BY <3>1, <3>2 DEF Here
  <2>3. QWaiting(r) = QWaiting(s)
    BY <1>3, <1>4, <2>2
  <2>4. Earlier(r) = Queues!Behind(Earlier(s), QReady(s), {n})
    <3>1. Came(on2, lat2, r.channel, {}) = Queues!Behind(Came(on, lat, s.channel, {}), on[READY], {n})
      BY <1>1, <1>2, <1>6, Comes, SMTT(30)
    <3> HIDE DEF on2, lat2
    <3>2. QED BY <3>1, <1>3, <1>4
  <2>5. QED BY <1>1, <1>5, <1>6, <2>1, <2>3, <2>4
<1>7. CASE l # READY
  <2>1. QReady(r) = QReady(s)
    BY <1>2, <1>3, <1>4, <1>7, ReadyIsAList
  <2>2. c \in Chans /\ pt_i_get_wait_list(c) = l
    BY <1>7
  <2>3. ASSUME NEW d \in Chans
        PROVE  Here(on2, r.channel, d) = IF d = c THEN Here(on, s.channel, d) \union {n}
                                         ELSE Here(on, s.channel, d)
    <3> DEFINE k == pt_i_get_wait_list(d)
    <3>1. on2[k] = IF k = l THEN on[k] \union {n} ELSE on[k]
      BY <1>2, WaitLists
    <3>2. (\A t \in on[k] : r.channel[t] = s.channel[t]) /\ r.channel[n] = c
      BY <1>1, <1>2, WaitLists
    <3>3. d = c => k = l
      BY <2>2
    <3> HIDE DEF on2, c
    <3>4. QED BY <3>1, <3>2, <3>3 DEF Here
  <2>4. QWaiting(r) = [QWaiting(s) EXCEPT ![c] = @ \union {n}]
    <3> DEFINE H(d) == Here(on, s.channel, d)
    <3>1. \A d \in Chans : Here(on2, r.channel, d) = IF d = c THEN H(d) \union {n} ELSE H(d)
      BY <2>3
    <3>2. QWaiting(s) = [d \in Chans |-> H(d)]
      BY <1>3
    <3> HIDE DEF on2, c, H
    <3>3. QWaiting(r) = [d \in Chans |-> IF d = c THEN H(d) \union {n} ELSE H(d)]
      BY <1>4, <3>1
    <3>4. QED BY <2>2, <3>2, <3>3
  <2>5. Earlier(r) = Queues!Behind(Earlier(s), QWaiting(s)[c], {n})
    <3> DEFINE Q == {t \in on[l] : s.channel[t] = s1.channel[n]}
    <3>1. QWaiting(s)[c] = Q
      BY <1>3, <2>2 DEF Here
    <3>2. Q = IF l = READY THEN on[READY] ELSE {t \in on[l] : s.channel[t] = s1.channel[n]}
      BY <1>7
    <3> HIDE DEF Q
    <3>3. Came(on2, lat2, s1.channel, {}) = Queues!Behind(Came(on, lat, s.channel, {}), Q, {n})
      BY <1>2, <3>2, Comes, SMTT(30)
    <3> HIDE DEF on2, lat2, c
    <3>4. QED BY <3>1, <3>3, <1>1, <1>3, <1>4
  <2>6. QED BY <1>1, <1>5, <1>7, <2>1, <2>4, <2>5
<1>8. QED BY <1>6, <1>7

\* The thread behind prev is unlinked from list l.
LEMMA Unlinked ==
    ASSUME NEW s \in PtStates, NEW on, NEW lat, Shape(s, on, lat), Sound(s, on),
           s.waking = NULL, NEW l \in PtHeads, NEW prev \in on[l], NEW n, n = s.next[prev],
           NEW r, r = pt_i_unlink(s, l, prev)
    PROVE  /\ r \in PtStates /\ Shape(r, Without(on, l, n), Gone(lat, n))
           /\ Sound(r, Without(on, l, n))
           /\ n \in on[l] /\ n \in Threads
           /\ \A m \in PtHeads : n \notin Without(on, l, n)[m]
           /\ r.channel = s.channel /\ r.alive = s.alive /\ r.running = s.running
           /\ r.waking = NULL
           /\ QReady(r) = QReady(s) \ {n}
           /\ QWaiting(r) = [c \in Chans |-> QWaiting(s)[c] \ {n}]
           /\ Earlier(r) = Queues!Behind(Earlier(s), {}, {n})
<1> DEFINE on2 == Without(on, l, n)
           lat2 == Gone(lat, n)
<1>1. /\ r \in PtStates /\ Shape(r, on2, lat2) /\ n \in on[l]
      /\ r.channel = s.channel /\ r.alive = s.alive /\ r.running = s.running
      /\ r.waking = NULL
  BY UnlinkState
<1>2. /\ on \in [PtHeads -> SUBSET Threads] /\ lat \in Lats
      /\ \A m \in PtHeads : Ordered(on[m], lat)
      /\ \A m, k \in PtHeads : m # k => on[m] \cap on[k] = {}
  BY DEF Shape
<1>3. /\ on2[l] = on[l] \ {n} /\ \A m \in PtHeads \ {l} : on2[m] = on[m]
  BY <1>2 DEF Without
<1>4. n \in Threads /\ \A m \in PtHeads : n \notin on2[m] /\ on2[m] = on[m] \ {n}
  BY <1>1, <1>2, <1>3
<1> HIDE DEF on2, lat2
<1>5. Sound(r, on2)
  BY <1>1, <1>4 DEF Sound
<1>6. /\ QReady(s) = on[READY]
      /\ QWaiting(s) = [d \in Chans |-> Here(on, s.channel, d)]
      /\ Earlier(s) = Came(on, lat, s.channel, {})
  BY CalmView
<1>7. /\ QReady(r) = on2[READY]
      /\ QWaiting(r) = [d \in Chans |-> Here(on2, r.channel, d)]
      /\ Earlier(r) = Came(on2, lat2, r.channel, {})
  BY <1>1, CalmView
<1>8. QReady(r) = QReady(s) \ {n}
  BY <1>4, <1>6, <1>7, ReadyIsAList
<1>9. QWaiting(r) = [c \in Chans |-> QWaiting(s)[c] \ {n}]
  <2>1. ASSUME NEW d \in Chans PROVE Here(on2, r.channel, d) = Here(on, s.channel, d) \ {n}
    BY <1>1, <1>4, WaitLists DEF Here
  <2>2. QED BY <1>6, <1>7, <2>1
<1>10. Earlier(r) = Queues!Behind(Earlier(s), {}, {n})
  <2>1. Came(on2, lat2, s.channel, {}) = Queues!Behind(Came(on, lat, s.channel, {}), {}, {n})
    BY <1>1, <1>2, Leaves DEF on2, lat2
  <2>2. QED BY <2>1, <1>1, <1>6, <1>7
<1>11. QED BY <1>1, <1>4, <1>5, <1>8, <1>9, <1>10 DEF on2, lat2

\* T leaves the queue of channel c, in which t is the oldest.
Less(waiting, c, T) == [waiting EXCEPT ![c] = @ \ T]
IsOldest(s, c, t) ==
    t \in QWaiting(s)[c] /\ \A u \in QWaiting(s)[c] \ {t} : <<t, u>> \in Earlier(s)

\* r is what pt_i_wake makes of s: those of channel c that are in T go at once, as the
\* queues see it.
Awake(s, r, on, lat, c, T) ==
    /\ Shape(r, on, lat) /\ Sound(r, on) /\ Walks(r, on, lat)
    /\ QReady(r) = QReady(s) \union T
    /\ QWaiting(r) = Less(QWaiting(s), c, T)
    /\ Earlier(r) = Queues!Behind(Earlier(s), QReady(s), T)

\* The pointer of the loop of pt_i_wake is set: those that it will move are those of T.
LEMMA WakeStarted ==
    ASSUME NEW s \in PtStates, NEW on, NEW lat, Shape(s, on, lat), Sound(s, on),
           s.waking = NULL, NEW c \in Chans, NEW T \in SUBSET Here(on, s.channel, c),
           NEW r \in PtStates, r.alive = s.alive, r.running = s.running,
           r.channel = s.channel, r.next = s.next, r.head = s.head,
           NEW l, l = pt_i_get_wait_list(c),
           s.head[l] = NULL => r = s,
           s.head[l] # NULL => r.waking = c /\ r.prev = s.head[l] /\ MovedOn(r, on, lat) = T
    PROVE  Awake(s, r, on, lat, c, T)
<1> DEFINE H(d) == Here(on, s.channel, d)
<1>1. /\ l \in PtHeads \ {READY} /\ on[l] \in SUBSET Threads /\ lat \in Lats
      /\ on \in [PtHeads -> SUBSET Threads]
      /\ \A m \in PtHeads : Ordered(on[m], lat)
      /\ \A m, k \in PtHeads : m # k => on[m] \cap on[k] = {}
      /\ on[l] = {} <=> s.head[l] = NULL
      /\ s.head[l] # NULL => s.head[l] \in on[l]
  BY WaitLists DEF Shape, Ring
<1>2. T \in SUBSET on[l]
  BY DEF Here
<1>4. Shape(r, on, lat) /\ Sound(r, on)
  BY DEF Shape, Sound
<1>5. Walks(r, on, lat)
  <2>1. CASE s.head[l] = NULL
    BY <2>1 DEF Walks
  <2>2. CASE s.head[l] # NULL
    BY <1>1, <2>2 DEF Walks
  <2>3. QED BY <2>1, <2>2
<1>6. MovedOn(r, on, lat) = T
  <2>1. CASE s.head[l] = NULL
    <3>1. T = {}
      BY <1>1, <1>2, <2>1
    <3>2. QED BY <2>1, <3>1 DEF MovedOn
  <2>2. CASE s.head[l] # NULL
    BY <2>2
  <2>3. QED BY <2>1, <2>2
<1>7. /\ QReady(s) = on[READY] /\ QWaiting(s) = [d \in Chans |-> H(d)]
      /\ Earlier(s) = Came(on, lat, s.channel, {})
  BY CalmView
<1>8. /\ OnList(r, READY) = on[READY] /\ ToMove(r) = T
      /\ \A d : Waiting(r, d) = H(d)
      /\ Earlier(r) = Came(on, lat, s.channel, T)
  BY <1>4, <1>6, View
<1>9. QReady(r) = QReady(s) \union T
  BY <1>7, <1>8 DEF QReady
<1>11. QWaiting(r) = Less(QWaiting(s), c, T)
  <2>1. QWaiting(r) = [d \in Chans |-> H(d) \ T]
    BY <1>8 DEF QWaiting
  <2>2. \A d \in Chans : d # c => H(d) \ T = H(d)
    BY <1>2 DEF Here
  <2>3. QWaiting(s) = [d \in Chans |-> H(d)]
    BY <1>7
  <2> HIDE DEF H
  <2>4. [QWaiting(s) EXCEPT ![c] = @ \ T] = [d \in Chans |-> IF d = c THEN H(d) \ T ELSE H(d)]
    BY <2>3
  <2>5. QED BY <2>1, <2>2, <2>4 DEF Less
<1>12. Earlier(r) = Queues!Behind(Earlier(s), QReady(s), T)
  <2>1. T \in SUBSET on[l]
    BY <1>2
  <2>2. Came(on, lat, s.channel, T) = Queues!Behind(Came(on, lat, s.channel, {}), on[READY], T)
    BY <1>1, <2>1, Starts
  <2>3. QED BY <2>2, <1>7, <1>8
<1>13. QED BY <1>4, <1>5, <1>9, <1>11, <1>12 DEF Awake

\* pt_i_wake is called for everybody who waits on c.
LEMMA WakeAll ==
    ASSUME NEW s \in PtStates, NEW on, NEW lat, Shape(s, on, lat), Sound(s, on),
           s.waking = NULL, NEW c \in Chans, NEW r, r = pt_i_wake(s, c, FALSE),
           NEW T, T = QWaiting(s)[c]
    PROVE  /\ r \in PtStates /\ r.alive = s.alive /\ r.running = s.running
           /\ Awake(s, r, on, lat, c, T)
<1> DEFINE l == pt_i_get_wait_list(c)
<1>1. T = Here(on, s.channel, c)
  BY CalmView
<1>2. /\ r \in PtStates /\ r.alive = s.alive /\ r.running = s.running
      /\ r.channel = s.channel /\ r.next = s.next /\ r.head = s.head
      /\ s.head[l] = NULL => r = s
      /\ s.head[l] # NULL => r.waking = c /\ ~r.one /\ r.prev = s.head[l]
  <2>1. CASE s.head[l] = NULL
    BY <2>1 DEF pt_i_wake
  <2>2. CASE s.head[l] # NULL
    <3>1. l \in PtHeads
      BY WaitLists
    <3>2. r = [s EXCEPT !.waking = c, !.one = FALSE, !.prev = s.head[l]] /\ s.head[l] \in Threads
      BY <2>2, <3>1 DEF pt_i_wake, PtStates
    <3>3. QED BY <3>2, <2>2 DEF PtStates
  <2>3. QED BY <2>1, <2>2
<1>3. s.head[l] # NULL => MovedOn(r, on, lat) = T
  BY <1>1, <1>2, ThreadAssumption DEF MovedOn, Target, Chans
<1> HIDE DEF l
<1>4. l = pt_i_get_wait_list(c)
  BY DEF l
<1>5. QED BY <1>1, <1>2, <1>3, <1>4, WakeStarted

\* pt_i_wake is called for the one who has waited longest on c.
LEMMA WakeOne ==
    ASSUME NEW s \in PtStates, NEW on, NEW lat, Shape(s, on, lat), Sound(s, on),
           s.waking = NULL, NEW c \in Chans, NEW r, r = pt_i_wake(s, c, TRUE)
    PROVE  /\ r \in PtStates /\ r.alive = s.alive /\ r.running = s.running
           /\ \E T : /\ T = {} \/ \E t : T = {t} /\ IsOldest(s, c, t)
                    /\ Awake(s, r, on, lat, c, T)
<1> DEFINE l == pt_i_get_wait_list(c)
           W == Here(on, s.channel, c)
           T == {t \in W : \A u \in W : t \notin lat[u]}
<1>1. /\ l \in PtHeads \ {READY} /\ on[l] \in SUBSET Threads /\ Ordered(on[l], lat)
      /\ W \in SUBSET on[l] /\ \A t \in W : s.channel[t] = c
  BY WaitLists DEF Shape, Here
<1>2. /\ r \in PtStates /\ r.alive = s.alive /\ r.running = s.running
      /\ r.channel = s.channel /\ r.next = s.next /\ r.head = s.head
      /\ s.head[l] = NULL => r = s
      /\ s.head[l] # NULL => r.waking = c /\ r.one /\ r.prev = s.head[l]
  <2>1. CASE s.head[l] = NULL
    BY <2>1 DEF pt_i_wake
  <2>2. CASE s.head[l] # NULL
    <3>1. r = [s EXCEPT !.waking = c, !.one = TRUE, !.prev = s.head[l]] /\ s.head[l] \in Threads
      BY <1>1, <2>2 DEF pt_i_wake, PtStates
    <3>2. QED BY <3>1, <2>2 DEF PtStates
  <2>3. QED BY <2>1, <2>2
<1>3. s.head[l] # NULL => MovedOn(r, on, lat) = T
  BY <1>2, ThreadAssumption DEF MovedOn, Target, Chans
<1>4. QWaiting(s)[c] = W /\ Earlier(s) = Came(on, lat, s.channel, {})
  BY CalmView
<1>5. T \in SUBSET W /\ l = pt_i_get_wait_list(c)
  OBVIOUS
<1> HIDE DEF l, W
<1>6. ASSUME T # {}
      PROVE  \E t \in W : T = {t} /\ \A u \in W \ {t} : <<t, u>> \in Earlier(s)
  <2>1. PICK t \in W : t \in T /\ \A u \in W : t \notin lat[u]
    BY <1>6
  <2>2. \A u \in W \ {t} : u \in lat[t]
    BY <1>1, <2>1 DEF Ordered
  <2>3. T = {t}
    BY <2>1, <2>2
  <2>4. ASSUME NEW u \in W \ {t} PROVE <<t, u>> \in Earlier(s)
    <3>1. /\ t \in Threads /\ u \in Threads /\ u \in lat[t]
          /\ s.channel[t] = s.channel[u] /\ \E m \in PtHeads : t \in on[m]
      BY <1>1, <2>1, <2>2
    <3>2. Ahead(on, lat, s.channel, {}, t, u)
      BY <3>1 DEF Ahead
    <3>3. QED BY <3>1, <3>2, <1>4, CamePairs
  <2>5. QED BY <2>1, <2>3, <2>4
<1>7. T = {} \/ \E t : T = {t} /\ IsOldest(s, c, t)
  BY <1>4, <1>6 DEF IsOldest
<1> HIDE DEF T
<1>8. T \in SUBSET Here(on, s.channel, c)
  BY <1>5 DEF W
<1>9. Awake(s, r, on, lat, c, T)
  BY <1>2, <1>3, <1>5, <1>8, WakeStarted
<1>10. QED BY <1>2, <1>7, <1>9

\* The queues are seen in the lists and the channels alone.
LEMMA SameView ==
    ASSUME NEW s \in PtStates, NEW r \in PtStates, NEW on, NEW lat, Shape(s, on, lat),
           s.waking = NULL, r.waking = NULL, r.next = s.next, r.head = s.head,
           r.channel = s.channel
    PROVE  /\ Shape(r, on, lat)
           /\ QReady(r) = QReady(s) /\ QWaiting(r) = QWaiting(s) /\ Earlier(r) = Earlier(s)
<1>1. Shape(r, on, lat)
  BY DEF Shape
<1>2. QED BY <1>1, CalmView

\* An order in which nobody moves stays as it is.
LEMMA BehindNobody ==
    ASSUME NEW b \in SUBSET (Threads \X Threads), NEW Q
    PROVE  Queues!Behind(b, Q, {}) = b
<1>1. Q \X {} = {}
  OBVIOUS
<1>2. {p \in b : p[1] \in {} <=> p[2] \in {}} = b
  OBVIOUS
<1>3. QED BY <1>1, <1>2 DEF Queues!Behind

----------------------------------------------------------------------------
(* Every step keeps the invariant and is a step of the queues. *)

\* pt_i_create_thread links a new thread to the ready list.
LEMMA CreateStep ==
    ASSUME PtInv, NEW t \in Threads, pt_create(t)
    PROVE  PtInv' /\ Queues!Create(t)
<1>1. PICK on, lat : Shape(pts, on, lat) /\ Sound(pts, on) /\ Walks(pts, on, lat)
  BY DEF PtInv
<1>2. pts \in PtStates /\ pts.running \in pts.alive \union {NULL} /\ pts.waking = NULL
  BY DEF PtInv, PtTypeOK, pt_create, NotWaking
<1>3. t \notin pts.alive /\ t # NULL /\ \A m \in PtHeads : t \notin on[m]
  BY <1>1, ThreadAssumption DEF pt_create, Sound
<1> DEFINE s1 == [pts EXCEPT !.alive = @ \union {t}, !.channel[t] = NULL, !.next[t] = NULL]
<1>4. pts' = pt_i_link(s1, READY, t)
  BY DEF pt_create
<1>5. /\ s1 \in PtStates /\ s1.next = pts.next /\ s1.head = pts.head /\ s1.waking = NULL
      /\ s1.alive = pts.alive \union {t} /\ s1.running = pts.running
      /\ \A u \in Threads \ {t} : s1.channel[u] = pts.channel[u]
  <2>1. pts.next[t] = NULL
    BY <1>1, <1>3 DEF Shape
  <2>2. [pts.next EXCEPT ![t] = NULL] = pts.next
    BY <1>2, <2>1 DEF PtStates
  <2>3. QED BY <1>2, <2>2 DEF PtStates
<1> HIDE DEF s1
<1>6. Sound(s1, on)
  BY <1>1, <1>3, <1>5, WaitLists DEF Sound, Shape
<1>7. t \in s1.alive /\ t # s1.running /\ READY \in PtHeads
  BY <1>2, <1>3, <1>5, ReadyIsAList
<1>8. /\ pts' \in PtStates /\ pts'.alive = s1.alive /\ pts'.running = s1.running
      /\ \E on2, lat2 : Shape(pts', on2, lat2) /\ Sound(pts', on2) /\ Walks(pts', on2, lat2)
      /\ QReady(pts') = QReady(pts) \union {t} /\ QWaiting(pts') = QWaiting(pts)
      /\ Earlier(pts') = Queues!Behind(Earlier(pts), QReady(pts), {t})
  BY <1>1, <1>2, <1>3, <1>4, <1>5, <1>6, <1>7, Linked, SMTT(30)
<1>9. PtInv'
  BY <1>2, <1>5, <1>8 DEF PtInv, PtTypeOK
<1>10. Queues!Create(t)
  BY <1>3, <1>5, <1>8 DEF Queues!Create, QReady, QWaiting
<1>11. QED BY <1>9, <1>10

\* protothread_run takes the oldest of the ready list.
LEMMA RunStep ==
    ASSUME PtInv, protothread_run
    PROVE  PtInv' /\ Queues!Run
<1>1. PICK on, lat : Shape(pts, on, lat) /\ Sound(pts, on) /\ Walks(pts, on, lat)
  BY DEF PtInv
<1>2. pts \in PtStates /\ pts.waking = NULL /\ pts.running = NULL
  BY DEF PtInv, PtTypeOK, protothread_run, NotWaking
<1> DEFINE h == pts.head[READY]
           n == pts.next[h]
           s == pt_i_unlink(pts, READY, h)
           on2 == Without(on, READY, n)
           lat2 == Gone(lat, n)
<1>3. h # NULL /\ pts' = [s EXCEPT !.running = n]
  BY DEF protothread_run
<1>4. h \in on[READY] /\ on[READY] = {n} \union lat[n] /\ READY \in PtHeads
  BY <1>1, <1>3, ReadyIsAList DEF Shape, Ring
<1> HIDE DEF h, s, on2, lat2
<1>5. /\ s \in PtStates /\ Shape(s, on2, lat2) /\ Sound(s, on2)
      /\ n \in on[READY] /\ n \in Threads /\ \A m \in PtHeads : n \notin on2[m]
      /\ s.channel = pts.channel /\ s.alive = pts.alive /\ s.running = pts.running
      /\ s.waking = NULL
      /\ QReady(s) = QReady(pts) \ {n}
      /\ QWaiting(s) = [c \in Chans |-> QWaiting(pts)[c] \ {n}]
      /\ Earlier(s) = Queues!Behind(Earlier(pts), {}, {n})
  BY <1>1, <1>2, <1>4, Unlinked, SMTT(30) DEF s, on2, lat2
<1>6. /\ pts' \in PtStates /\ pts'.next = s.next /\ pts'.head = s.head
      /\ pts'.channel = s.channel /\ pts'.alive = s.alive /\ pts'.running = n
      /\ pts'.waking = NULL
  BY <1>3, <1>5 DEF PtStates
<1>7. /\ Shape(pts', on2, lat2)
      /\ QReady(pts') = QReady(s) /\ QWaiting(pts') = QWaiting(s) /\ Earlier(pts') = Earlier(s)
  BY <1>5, <1>6, SameView
<1>8. Sound(pts', on2) /\ Walks(pts', on2, lat2)
  BY <1>5, <1>6 DEF Sound, Walks
<1>9. n \in pts.alive
  BY <1>1, <1>4, <1>5 DEF Sound
<1>10. PtInv'
  BY <1>5, <1>6, <1>7, <1>8, <1>9 DEF PtInv, PtTypeOK
<1>11. /\ QReady(pts) = on[READY] /\ QWaiting(pts) = [c \in Chans |-> Here(on, pts.channel, c)]
       /\ Earlier(pts) = Came(on, lat, pts.channel, {})
  BY <1>1, <1>2, CalmView
<1>12. n \in QReady(pts) /\ \A u \in QReady(pts) \ {n} : <<n, u>> \in Earlier(pts)
  <2>1. SUFFICES ASSUME NEW u \in on[READY] \ {n} PROVE <<n, u>> \in Earlier(pts)
    BY <1>5, <1>11
  <2>2. u \in Threads /\ u \in lat[n]
    BY <1>1, <1>4 DEF Shape
  <2>3. Ahead(on, lat, pts.channel, {}, n, u)
    BY <1>4, <1>5, <2>2 DEF Ahead
  <2>4. QED BY <1>5, <1>11, <2>2, <2>3, CamePairs
<1>13. QWaiting(s) = QWaiting(pts)
  <2>1. ASSUME NEW c \in Chans PROVE QWaiting(pts)[c] \ {n} = QWaiting(pts)[c]
    <3>1. n \notin on[pt_i_get_wait_list(c)]
      BY <1>1, <1>4, <1>5, WaitLists DEF Shape
    <3>2. QED BY <1>11, <3>1 DEF Here
  <2>2. QED BY <1>5, <1>11, <2>1
<1>14. Queues!Run
  BY <1>2, <1>5, <1>6, <1>7, <1>12, <1>13 DEF Queues!Run, Queues!Oldest, QReady, QWaiting
<1>15. QED BY <1>10, <1>14

\* The thread that runs is on no list.
LEMMA SliceFacts ==
    ASSUME PtInv, InSlice, NEW on, NEW lat, Shape(pts, on, lat), Sound(pts, on)
    PROVE  /\ pts \in PtStates /\ pts.waking = NULL /\ pts.running # NULL
           /\ pts.running \in Threads /\ pts.running \in pts.alive
           /\ \A m \in PtHeads : pts.running \notin on[m] /\ NULL \notin on[m]
<1>1. pts \in PtStates /\ pts.waking = NULL /\ pts.running # NULL /\ pts.running \in pts.alive
  BY DEF PtInv, PtTypeOK, InSlice, NotWaking
<1>2. pts.running \in Threads
  BY <1>1 DEF PtStates
<1>3. \A m \in PtHeads : pts.running \notin on[m] /\ NULL \notin on[m]
  BY ThreadAssumption DEF Sound, Shape
<1>4. QED BY <1>1, <1>2, <1>3

\* pt_yield links the thread that runs to the ready list.
LEMMA YieldStep ==
    ASSUME PtInv, pt_yield
    PROVE  PtInv' /\ Queues!Yield
<1>1. PICK on, lat : Shape(pts, on, lat) /\ Sound(pts, on) /\ Walks(pts, on, lat)
  BY DEF PtInv
<1> DEFINE n == pts.running
           s1 == [pts EXCEPT !.running = NULL]
<1>2. /\ pts \in PtStates /\ pts.waking = NULL /\ n # NULL /\ n \in Threads /\ n \in pts.alive
      /\ \A m \in PtHeads : n \notin on[m] /\ NULL \notin on[m]
      /\ pts' = pt_i_link(s1, READY, n)
  BY <1>1, SliceFacts DEF pt_yield
<1>3. /\ s1 \in PtStates /\ s1.next = pts.next /\ s1.head = pts.head /\ s1.waking = NULL
      /\ s1.alive = pts.alive /\ s1.running = NULL /\ s1.channel = pts.channel
  BY <1>2 DEF PtStates
<1> HIDE DEF s1
<1>4. Sound(s1, on)
  BY <1>1, <1>2, <1>3 DEF Sound
<1>5. /\ pts' \in PtStates /\ pts'.alive = s1.alive /\ pts'.running = s1.running
      /\ \E on2, lat2 : Shape(pts', on2, lat2) /\ Sound(pts', on2) /\ Walks(pts', on2, lat2)
      /\ QReady(pts') = QReady(pts) \union {n} /\ QWaiting(pts') = QWaiting(pts)
      /\ Earlier(pts') = Queues!Behind(Earlier(pts), QReady(pts), {n})
  <2>1. n \in s1.alive /\ n # s1.running /\ READY \in PtHeads
    BY <1>2, <1>3, ReadyIsAList
  <2> HIDE DEF n
  <2>2. QED BY <1>1, <1>2, <1>3, <1>4, <2>1, Linked
<1>6. PtInv'
  BY <1>3, <1>5 DEF PtInv, PtTypeOK
<1>7. Queues!Yield
  BY <1>2, <1>3, <1>5 DEF Queues!Yield, QReady, QWaiting
<1>8. QED BY <1>6, <1>7

\* pt_wait links the thread that runs to the list of its channel.
LEMMA WaitStep ==
    ASSUME PtInv, NEW c \in Chans, pt_wait(c)
    PROVE  PtInv' /\ Queues!Wait(c)
<1>1. PICK on, lat : Shape(pts, on, lat) /\ Sound(pts, on) /\ Walks(pts, on, lat)
  BY DEF PtInv
<1> DEFINE n == pts.running
           l == pt_i_get_wait_list(c)
           s1 == [pts EXCEPT !.channel[pts.running] = c, !.running = NULL]
<1>2. /\ pts \in PtStates /\ pts.waking = NULL /\ n # NULL /\ n \in Threads /\ n \in pts.alive
      /\ \A m \in PtHeads : n \notin on[m] /\ NULL \notin on[m]
      /\ pts' = pt_i_link(s1, l, n)
  BY <1>1, SliceFacts DEF pt_wait
<1>3. /\ s1 \in PtStates /\ s1.next = pts.next /\ s1.head = pts.head /\ s1.waking = NULL
      /\ s1.alive = pts.alive /\ s1.running = NULL /\ s1.channel[n] = c
      /\ \A t \in Threads \ {n} : s1.channel[t] = pts.channel[t]
  BY <1>2 DEF PtStates
<1>4. l \in PtHeads /\ l # READY
  BY WaitLists
<1> HIDE DEF s1, l
<1>5. Sound(s1, on)
  BY <1>1, <1>2, <1>3 DEF Sound, Shape
<1>6. /\ pts' \in PtStates /\ pts'.alive = s1.alive /\ pts'.running = s1.running
      /\ \E on2, lat2 : Shape(pts', on2, lat2) /\ Sound(pts', on2) /\ Walks(pts', on2, lat2)
      /\ QReady(pts') = QReady(pts) /\ QWaiting(pts') = [QWaiting(pts) EXCEPT ![c] = @ \union {n}]
      /\ Earlier(pts') = Queues!Behind(Earlier(pts), QWaiting(pts)[c], {n})
  <2>1. n \in s1.alive /\ n # s1.running /\ s1.channel[n] \in Chans
        /\ pt_i_get_wait_list(s1.channel[n]) = l
    BY <1>2, <1>3 DEF l
  <2> HIDE DEF n
  <2>2. LET d == s1.channel[n]
        IN /\ pts' \in PtStates /\ pts'.alive = s1.alive /\ pts'.running = s1.running
           /\ \E on2, lat2 : Shape(pts', on2, lat2) /\ Sound(pts', on2) /\ Walks(pts', on2, lat2)
           /\ QReady(pts') = QReady(pts)
           /\ QWaiting(pts') = [QWaiting(pts) EXCEPT ![d] = @ \union {n}]
           /\ Earlier(pts') = Queues!Behind(Earlier(pts), QWaiting(pts)[d], {n})
    BY <1>1, <1>2, <1>3, <1>4, <1>5, <2>1, Linked
  <2>3. QED BY <1>3, <2>2
<1>7. PtInv'
  BY <1>3, <1>6 DEF PtInv, PtTypeOK
<1>8. Queues!Wait(c)
  BY <1>2, <1>3, <1>6 DEF Queues!Wait, QReady, QWaiting
<1>9. QED BY <1>7, <1>8

\* A thread that ends wakes those that join it.
LEMMA DoneStep ==
    ASSUME PtInv, PtDone
    PROVE  PtInv' /\ Queues!Exit
<1>1. PICK on, lat : Shape(pts, on, lat) /\ Sound(pts, on) /\ Walks(pts, on, lat)
  BY DEF PtInv
<1> DEFINE n == pts.running
           s1 == [pts EXCEPT !.alive = @ \ {pts.running}, !.running = NULL]
           T == QWaiting(s1)[n]
<1>2. /\ pts \in PtStates /\ pts.waking = NULL /\ n # NULL /\ n \in Threads /\ n \in pts.alive
      /\ \A m \in PtHeads : n \notin on[m] /\ NULL \notin on[m]
      /\ pts' = pt_i_wake(s1, n, FALSE)
  BY <1>1, SliceFacts DEF PtDone
<1>3. /\ s1 \in PtStates /\ s1.next = pts.next /\ s1.head = pts.head /\ s1.waking = NULL
      /\ s1.alive = pts.alive \ {n} /\ s1.running = NULL /\ s1.channel = pts.channel
  BY <1>2 DEF PtStates
<1> HIDE DEF s1, T
<1>4. /\ Shape(s1, on, lat)
      /\ QReady(s1) = QReady(pts) /\ QWaiting(s1) = QWaiting(pts) /\ Earlier(s1) = Earlier(pts)
  BY <1>1, <1>2, <1>3, SameView
<1>5. Sound(s1, on)
  BY <1>1, <1>2, <1>3 DEF Sound
<1>6. /\ pts' \in PtStates /\ pts'.alive = s1.alive /\ pts'.running = s1.running
      /\ Shape(pts', on, lat) /\ Sound(pts', on) /\ Walks(pts', on, lat)
      /\ QReady(pts') = QReady(s1) \union T
      /\ QWaiting(pts') = Less(QWaiting(s1), n, T)
      /\ Earlier(pts') = Queues!Behind(Earlier(s1), QReady(s1), T)
      /\ T = QWaiting(s1)[n]
  <2>1. n \in Chans
    BY <1>2 DEF Chans
  <2> HIDE DEF n
  <2>2. T = QWaiting(s1)[n]
    BY DEF T
  <2>3. /\ pts' \in PtStates /\ pts'.alive = s1.alive /\ pts'.running = s1.running
        /\ Awake(s1, pts', on, lat, n, T)
    BY <1>2, <1>3, <1>4, <1>5, <2>1, <2>2, WakeAll, ZenonT(30)
  <2>4. QED BY <2>2, <2>3 DEF Awake
<1>7. PtInv'
  BY <1>3, <1>6 DEF PtInv, PtTypeOK
<1>8. Queues!Exit
  BY <1>2, <1>3, <1>4, <1>6 DEF Queues!Exit, Queues!Wake, QReady, QWaiting, Less
<1>9. QED BY <1>7, <1>8

\* pt_signal wakes the one who has waited longest, if anybody waits.
LEMMA SignalStep ==
    ASSUME PtInv, NEW c \in Chans, pt_signal(c)
    PROVE  PtInv' /\ (Queues!Signal(c) \/ UNCHANGED Queues!vars)
<1>1. PICK on, lat : Shape(pts, on, lat) /\ Sound(pts, on) /\ Walks(pts, on, lat)
  BY DEF PtInv
<1>2. pts \in PtStates /\ pts.running \in pts.alive \union {NULL} /\ pts.waking = NULL
  BY DEF PtInv, PtTypeOK, pt_signal, NotWaking
<1>8. pts' = pt_i_wake(pts, c, TRUE)
  BY DEF pt_signal
<1>9. /\ pts' \in PtStates /\ pts'.alive = pts.alive /\ pts'.running = pts.running
      /\ \E T : /\ T = {} \/ \E t : T = {t} /\ IsOldest(pts, c, t)
               /\ Awake(pts, pts', on, lat, c, T)
  BY <1>1, <1>2, <1>8, WakeOne
<1>10. PICK T : /\ T = {} \/ \E t : T = {t} /\ IsOldest(pts, c, t)
                /\ Awake(pts, pts', on, lat, c, T)
  BY <1>9
<1>3. /\ Shape(pts', on, lat) /\ Sound(pts', on) /\ Walks(pts', on, lat)
      /\ T = {} \/ \E t : T = {t} /\ IsOldest(pts, c, t)
      /\ QReady(pts') = QReady(pts) \union T
      /\ QWaiting(pts') = Less(QWaiting(pts), c, T)
      /\ Earlier(pts') = Queues!Behind(Earlier(pts), QReady(pts), T)
  BY <1>10 DEF Awake
<1>4. PtInv'
  BY <1>2, <1>3, <1>9 DEF PtInv, PtTypeOK
<1>5. CASE T = {}
  <2>1. Earlier(pts) \in SUBSET (Threads \X Threads)
    BY DEF Earlier
  <2>2. Earlier(pts') = Earlier(pts)
    BY <1>3, <1>5, <2>1, BehindNobody
  <2>3. QReady(pts') = QReady(pts)
    BY <1>3, <1>5
  <2>4. QWaiting(pts') = QWaiting(pts)
    BY <1>3, <1>5 DEF QWaiting, Less
  <2>5. UNCHANGED Queues!vars
    BY <1>9, <2>2, <2>3, <2>4 DEF Queues!vars, QReady, QWaiting
  <2>6. QED BY <1>4, <2>5
<1>6. ASSUME NEW t, T = {t}, IsOldest(pts, c, t) PROVE Queues!Signal(c)
  <2>1. t \in {v \in QWaiting(pts)[c] : \A u \in QWaiting(pts)[c] \ {v} : <<v, u>> \in Earlier(pts)}
    BY <1>6 DEF IsOldest
  <2>2. /\ pts'.alive = pts.alive /\ pts'.running = pts.running
        /\ QReady(pts') = QReady(pts) \union {t}
        /\ QWaiting(pts') = [QWaiting(pts) EXCEPT ![c] = @ \ {t}]
        /\ Earlier(pts') = Queues!Behind(Earlier(pts), QReady(pts), {t})
    BY <1>3, <1>6, <1>9 DEF Less
  <2>3. QED BY <2>1, <2>2 DEF Queues!Signal, Queues!Oldest, Queues!Wake, QReady, QWaiting
<1>7. QED BY <1>3, <1>4, <1>5, <1>6

\* pt_broadcast wakes everybody who waits.
LEMMA BroadcastStep ==
    ASSUME PtInv, NEW c \in Chans, pt_broadcast(c)
    PROVE  PtInv' /\ Queues!Broadcast(c)
<1>1. PICK on, lat : Shape(pts, on, lat) /\ Sound(pts, on) /\ Walks(pts, on, lat)
  BY DEF PtInv
<1>2. pts \in PtStates /\ pts.running \in pts.alive \union {NULL} /\ pts.waking = NULL
  BY DEF PtInv, PtTypeOK, pt_broadcast, NotWaking
<1> DEFINE T == QWaiting(pts)[c]
<1>8. pts' = pt_i_wake(pts, c, FALSE)
  BY DEF pt_broadcast
<1> HIDE DEF T
<1>3. /\ pts' \in PtStates /\ pts'.alive = pts.alive /\ pts'.running = pts.running
      /\ Shape(pts', on, lat) /\ Sound(pts', on) /\ Walks(pts', on, lat)
      /\ QReady(pts') = QReady(pts) \union T
      /\ QWaiting(pts') = Less(QWaiting(pts), c, T)
      /\ Earlier(pts') = Queues!Behind(Earlier(pts), QReady(pts), T)
      /\ T = QWaiting(pts)[c]
  <2>1. T = QWaiting(pts)[c]
    BY DEF T
  <2>2. /\ pts' \in PtStates /\ pts'.alive = pts.alive /\ pts'.running = pts.running
        /\ Awake(pts, pts', on, lat, c, T)
    BY <1>1, <1>2, <1>8, <2>1, WakeAll
  <2>3. QED BY <2>1, <2>2 DEF Awake
<1>4. PtInv'
  BY <1>2, <1>3 DEF PtInv, PtTypeOK
<1>5. Queues!Broadcast(c)
  BY <1>3 DEF Queues!Broadcast, Queues!Wake, QReady, QWaiting, Less
<1>6. QED BY <1>4, <1>5

\* pt_kill takes the thread from its list and wakes those that join it.
LEMMA KillStep ==
    ASSUME PtInv, NEW t \in Threads, pt_kill(t)
    PROVE  PtInv' /\ Queues!Kill(t)
<1>1. PICK on, lat : Shape(pts, on, lat) /\ Sound(pts, on) /\ Walks(pts, on, lat)
  BY DEF PtInv
<1>2. /\ pts \in PtStates /\ pts.running \in pts.alive \union {NULL} /\ pts.waking = NULL
      /\ t # pts.running
  BY DEF PtInv, PtTypeOK, pt_kill, NotWaking
<1> DEFINE l == IF t \in OnList(pts, READY) THEN READY ELSE pt_i_get_wait_list(pts.channel[t])
           prev == CHOOSE u \in OnList(pts, l) : pts.next[u] = t
           s == pt_i_unlink(pts, l, prev)
           s1 == [s EXCEPT !.alive = @ \ {t}]
           on2 == Without(on, l, t)
           lat2 == Gone(lat, t)
           T == QWaiting(s1)[t]
<1>3. t \in OnList(pts, l) /\ pts' = pt_i_wake(s1, t, FALSE)
  BY DEF pt_kill, pt_i_find_and_unlink
<1>4. l \in PtHeads
  BY ReadyIsAList, WaitLists
<1> HIDE DEF l
<1>5. OnList(pts, l) = on[l]
  BY <1>1, <1>2, <1>4, Determined
<1>6. prev \in on[l] /\ pts.next[prev] = t
  <2>1. \E u \in on[l] : pts.next[u] = t
    <3>1. Ordered(on[l], lat) /\ Ring(pts.next, pts.head[l], on[l], lat) /\ t \in on[l]
      BY <1>1, <1>3, <1>4, <1>5 DEF Shape
    <3>2. QED BY <3>1, NextSurjective
  <2>2. QED BY <2>1, <1>5
<1> HIDE DEF prev, s, on2, lat2
<1>7. /\ s \in PtStates /\ Shape(s, on2, lat2) /\ Sound(s, on2)
      /\ t \in on[l] /\ \A m \in PtHeads : t \notin on2[m]
      /\ s.alive = pts.alive /\ s.running = pts.running /\ s.waking = NULL
      /\ QReady(s) = QReady(pts) \ {t}
      /\ QWaiting(s) = [c \in Chans |-> QWaiting(pts)[c] \ {t}]
      /\ Earlier(s) = Queues!Behind(Earlier(pts), {}, {t})
  BY <1>1, <1>2, <1>4, <1>6, Unlinked DEF s, on2, lat2
<1>8. /\ s1 \in PtStates /\ s1.next = s.next /\ s1.head = s.head /\ s1.waking = NULL
      /\ s1.alive = pts.alive \ {t} /\ s1.running = pts.running /\ s1.channel = s.channel
  BY <1>7 DEF PtStates
<1> HIDE DEF s1, T
<1>9. /\ Shape(s1, on2, lat2)
      /\ QReady(s1) = QReady(s) /\ QWaiting(s1) = QWaiting(s) /\ Earlier(s1) = Earlier(s)
  BY <1>7, <1>8, SameView
<1>10. Sound(s1, on2)
  BY <1>7, <1>8 DEF Sound
<1>11. /\ pts' \in PtStates /\ pts'.alive = s1.alive /\ pts'.running = s1.running
       /\ Shape(pts', on2, lat2) /\ Sound(pts', on2) /\ Walks(pts', on2, lat2)
       /\ QReady(pts') = QReady(s1) \union T
       /\ QWaiting(pts') = Less(QWaiting(s1), t, T)
       /\ Earlier(pts') = Queues!Behind(Earlier(s1), QReady(s1), T)
       /\ T = QWaiting(s1)[t]
  <2>1. t \in Chans
    BY DEF Chans
  <2>2. T = QWaiting(s1)[t]
    BY DEF T
  <2>3. /\ pts' \in PtStates /\ pts'.alive = s1.alive /\ pts'.running = s1.running
        /\ Awake(s1, pts', on2, lat2, t, T)
    BY <1>3, <1>8, <1>9, <1>10, <2>1, <2>2, WakeAll, ZenonT(30)
  <2>4. QED BY <2>2, <2>3 DEF Awake
<1>12. t \in pts.alive
  BY <1>1, <1>4, <1>7 DEF Sound
<1>13. PtInv'
  BY <1>2, <1>8, <1>11 DEF PtInv, PtTypeOK
<1>14. Queues!Kill(t)
  <2> DEFINE joins == QWaiting(pts)[t] \ {t}
  <2>1. t \in Chans /\ T = joins
    BY <1>7, <1>9, <1>11 DEF Chans
  <2>2. QReady(pts') = (QReady(pts) \ {t}) \union joins
    BY <1>7, <1>9, <1>11, <2>1
  <2>3. QWaiting(pts') = [c \in Chans |-> IF c = t THEN {} ELSE QWaiting(pts)[c] \ {t}]
    BY <1>7, <1>9, <1>11, <2>1, ZenonT(30) DEF Less
  <2>4. Earlier(pts') = Queues!Behind(Queues!Behind(Earlier(pts), {}, {t}), QReady(pts) \ {t}, joins)
    BY <1>7, <1>9, <1>11, <2>1
  <2>5. QED BY <1>2, <1>8, <1>11, <1>12, <2>2, <2>3, <2>4 DEF Queues!Kill, QReady, QWaiting
<1>15. QED BY <1>13, <1>14

\* What is seen of the queues while pt_i_wake walks.
LEMMA QueuesView ==
    ASSUME NEW s \in PtStates, NEW on, NEW lat, Shape(s, on, lat)
    PROVE  /\ QReady(s) = on[READY] \union MovedOn(s, on, lat)
           /\ QWaiting(s) = [c \in Chans |-> Here(on, s.channel, c) \ MovedOn(s, on, lat)]
           /\ Earlier(s) = Came(on, lat, s.channel, MovedOn(s, on, lat))
<1>1. /\ OnList(s, READY) = on[READY] /\ ToMove(s) = MovedOn(s, on, lat)
      /\ \A c : Waiting(s, c) = Here(on, s.channel, c)
      /\ Earlier(s) = Came(on, lat, s.channel, MovedOn(s, on, lat))
  BY View
<1>2. QReady(s) = on[READY] \union MovedOn(s, on, lat)
  BY <1>1 DEF QReady
<1>3. QWaiting(s) = [c \in Chans |-> Here(on, s.channel, c) \ MovedOn(s, on, lat)]
  BY <1>1 DEF QWaiting
<1>4. QED BY <1>1, <1>2, <1>3

\* Where pt_i_wake is: t follows prev, and whoever came to the list before t waits for
\* something else.
LEMMA WakeFacts ==
    ASSUME PtInv, ~NotWaking, NEW on, NEW lat, Shape(pts, on, lat), Walks(pts, on, lat),
           NEW l, l = pt_i_get_wait_list(pts.waking), NEW t, t = pts.next[pts.prev]
    PROVE  /\ pts \in PtStates /\ pts.waking \in Chans /\ pts.waking # NULL
           /\ l \in PtHeads \ {READY} /\ pts.prev \in on[l] /\ t \in on[l]
           /\ Ordered(on[l], lat) /\ Ring(pts.next, pts.head[l], on[l], lat)
           /\ \A u \in on[l] : t \in lat[u] => pts.channel[u] # pts.waking
<1>1. pts \in PtStates /\ pts.waking # NULL /\ pts.waking \in Chans
  BY DEF PtInv, PtTypeOK, PtStates, NotWaking
<1>2. l \in PtHeads \ {READY}
  BY WaitLists
<1>3. /\ pts.prev \in on[l]
      /\ pts.prev # pts.head[l] =>
            \A u \in on[l] : u = pts.prev \/ pts.prev \in lat[u] => pts.channel[u] # pts.waking
  BY <1>1 DEF Walks
<1>4. Ordered(on[l], lat) /\ Ring(pts.next, pts.head[l], on[l], lat)
  BY <1>2 DEF Shape
<1>5. t \in on[l]
  BY <1>3, <1>4 DEF Ring
<1>6. ASSUME NEW u \in on[l], t \in lat[u] PROVE pts.channel[u] # pts.waking
  <2>1. t \notin lat[t] /\ u # t /\ u \notin lat[t]
    BY <1>4, <1>5, <1>6 DEF Ordered
  <2>2. CASE pts.prev = pts.head[l]
    <3>1. on[l] = {t} \union lat[t]
      BY <1>3, <1>4, <2>2 DEF Ring
    <3>2. QED BY <2>1, <3>1
  <2>3. CASE pts.prev # pts.head[l]
    <3>1. lat[pts.prev] = {t} \union lat[t]
      BY <1>3, <1>4, <2>3 DEF Ring
    <3>2. u \notin lat[pts.prev]
      BY <2>1, <3>1
    <3>3. u = pts.prev \/ pts.prev \in lat[u]
      BY <1>3, <1>4, <3>2 DEF Ordered
    <3>4. QED BY <1>3, <2>3, <3>3
  <2>4. QED BY <2>2, <2>3
<1>7. QED BY <1>1, <1>2, <1>3, <1>4, <1>5, <1>6

\* pt_i_wake goes past a thread that waits for something else: nothing is seen of it.
LEMMA PassesStep ==
    ASSUME PtInv, ~NotWaking, NEW l, l = pt_i_get_wait_list(pts.waking),
           NEW t, t = pts.next[pts.prev], WakePasses(l, t)
    PROVE  PtInv' /\ UNCHANGED Queues!vars
<1>1. PICK on, lat : Shape(pts, on, lat) /\ Sound(pts, on) /\ Walks(pts, on, lat)
  BY DEF PtInv
<1>2. /\ pts \in PtStates /\ pts.waking \in Chans /\ pts.waking # NULL
      /\ l \in PtHeads \ {READY} /\ pts.prev \in on[l] /\ t \in on[l]
      /\ Ordered(on[l], lat) /\ Ring(pts.next, pts.head[l], on[l], lat)
      /\ \A u \in on[l] : t \in lat[u] => pts.channel[u] # pts.waking
  BY <1>1, WakeFacts
<1>3. pts.channel[t] # pts.waking /\ t \in Threads
  BY <1>1, <1>2 DEF WakePasses, Shape
<1>4. /\ pts' \in PtStates /\ pts'.next = pts.next /\ pts'.head = pts.head
      /\ pts'.channel = pts.channel /\ pts'.alive = pts.alive /\ pts'.running = pts.running
      /\ t = pts.head[l] => pts'.waking = NULL
      /\ t # pts.head[l] => pts'.waking = pts.waking /\ pts'.one = pts.one /\ pts'.prev = t
  <2>1. CASE t = pts.head[l]
    <3>1. pts' = [pts EXCEPT !.waking = NULL, !.one = FALSE, !.prev = NULL]
      BY <2>1 DEF WakePasses, Return
    <3>2. QED BY <1>2, <2>1, <3>1 DEF PtStates
  <2>2. CASE t # pts.head[l]
    <3>1. pts' = [pts EXCEPT !.prev = t]
      BY <2>2 DEF WakePasses
    <3>2. QED BY <1>2, <1>3, <2>2, <3>1 DEF PtStates
  <2>3. QED BY <2>1, <2>2
<1>5. Shape(pts', on, lat) /\ Sound(pts', on)
  BY <1>1, <1>4 DEF Shape, Sound
<1>6. Walks(pts', on, lat)
  <2>1. CASE t = pts.head[l]
    BY <1>4, <2>1 DEF Walks
  <2>2. CASE t # pts.head[l]
    BY <1>2, <1>3, <1>4, <2>2 DEF Walks
  <2>3. QED BY <2>1, <2>2
<1>7. PtInv'
  BY <1>4, <1>5, <1>6 DEF PtInv, PtTypeOK
<1>8. MovedOn(pts', on, lat) = MovedOn(pts, on, lat)
  <2>1. CASE t = pts.head[l]
    <3>1. lat[t] = {}
      BY <1>2, <2>1 DEF Ring
    <3>2. \A u \in on[l] : pts.channel[u] # pts.waking
      BY <1>2, <1>3, <3>1 DEF Ordered
    <3>3. MovedOn(pts, on, lat) = {}
      BY <1>2, <3>2 DEF MovedOn, Target, Here
    <3>4. QED BY <1>4, <2>1, <3>3 DEF MovedOn
  <2>2. CASE t # pts.head[l]
    BY <1>4, <2>2 DEF MovedOn
  <2>3. QED BY <2>1, <2>2
<1>9. /\ QReady(pts') = QReady(pts) /\ QWaiting(pts') = QWaiting(pts)
      /\ Earlier(pts') = Earlier(pts)
  <2> DEFINE M == MovedOn(pts, on, lat)
  <2>1. /\ QReady(pts) = on[READY] \union M
        /\ QWaiting(pts) = [c \in Chans |-> Here(on, pts.channel, c) \ M]
        /\ Earlier(pts) = Came(on, lat, pts.channel, M)
    BY <1>1, <1>2, QueuesView
  <2>2. /\ QReady(pts') = on[READY] \union M
        /\ QWaiting(pts') = [c \in Chans |-> Here(on, pts'.channel, c) \ M]
        /\ Earlier(pts') = Came(on, lat, pts'.channel, M)
    BY <1>4, <1>5, <1>8, QueuesView
  <2> HIDE DEF M
  <2>3. QED BY <1>4, <2>1, <2>2
<1>10. UNCHANGED Queues!vars
  BY <1>4, <1>9 DEF Queues!vars, QReady, QWaiting
<1>11. QED BY <1>7, <1>10

\* T is what pt_i_wake still has to move, with t the first of it.
StillThere(s, on, l, t, T) ==
    /\ t \in T /\ T \in SUBSET on[l] /\ \A u \in T : s.channel[u] = s.waking
    /\ s.one \/ on[l] = {t} => T = {t}
    /\ ~s.one => T = Here(on, s.channel, s.waking)

\* What is left to be moved when t has been.
LEMMA MovedLeaves ==
    ASSUME NEW on, NEW lat, NEW l \in PtHeads, NEW t \in on[l], NEW s \in PtStates,
           Ordered(on[l], lat), s.waking # NULL, l = pt_i_get_wait_list(s.waking),
           s.channel[t] = s.waking, \A u \in on[l] : t \in lat[u] => s.channel[u] # s.waking,
           NEW T, T = MovedOn(s, on, lat)
    PROVE  StillThere(s, on, l, t, T)
<1> DEFINE W == {u \in on[l] : s.channel[u] = s.waking}
           M == {v \in W : s.one => \A u \in W : v \notin lat[u]}
<1>1. T = M
  BY DEF MovedOn, Target, Here
<1>2. t \in M
  OBVIOUS
<1>3. ASSUME s.one, NEW v \in M PROVE v = t
  <2>1. v \in W /\ v \notin lat[t] /\ t \notin lat[v]
    BY <1>2, <1>3
  <2>2. QED BY <2>1 DEF Ordered
<1>4. s.one => M = {t}
  BY <1>2, <1>3
<1>5. on[l] = {t} => M = {t}
  BY <1>2
<1>6. W = Here(on, s.channel, s.waking)
  BY DEF Here
<1>7. QED BY <1>1, <1>2, <1>4, <1>5, <1>6 DEF StillThere

\* pt_i_wake moves a thread to the ready list: nothing is seen of it.
LEMMA MovesStep ==
    ASSUME PtInv, ~NotWaking, NEW l, l = pt_i_get_wait_list(pts.waking),
           NEW t, t = pts.next[pts.prev], WakeMoves(l, t)
    PROVE  PtInv' /\ UNCHANGED Queues!vars
<1>1. PICK on, lat : Shape(pts, on, lat) /\ Sound(pts, on) /\ Walks(pts, on, lat)
  BY DEF PtInv
<1>2. /\ pts \in PtStates /\ pts.waking \in Chans /\ pts.waking # NULL
      /\ l \in PtHeads \ {READY} /\ pts.prev \in on[l] /\ t \in on[l]
      /\ Ordered(on[l], lat) /\ Ring(pts.next, pts.head[l], on[l], lat)
      /\ \A u \in on[l] : t \in lat[u] => pts.channel[u] # pts.waking
  BY <1>1, WakeFacts
<1>3. /\ on \in [PtHeads -> SUBSET Threads] /\ lat \in Lats /\ t \in Threads
      /\ \A m \in PtHeads : Ordered(on[m], lat)
      /\ \A m, k \in PtHeads : m # k => on[m] \cap on[k] = {}
  BY <1>1, <1>2 DEF Shape
<1> DEFINE on2 == Without(on, l, t)
           lat2 == Gone(lat, t)
           on3 == With(on2, READY, t)
           lat3 == Joined(on2[READY], lat2, t)
           s2 == pt_i_unlink(pts, l, pts.prev)
           woken == pt_i_link(s2, READY, t)
           W == MovedOn(pts, on, lat)
           V == W \ {t}
<1>4. /\ pts.channel[t] = pts.waking
      /\ pts' = IF pts.one \/ woken.head[l] = NULL THEN Return(woken) ELSE woken
  BY DEF WakeMoves
<1> HIDE DEF woken, s2, on3, lat3, on2, lat2
<1>5. /\ s2 \in PtStates /\ Shape(s2, on2, lat2)
      /\ s2.head[l] = UnlinkHead(pts.next, pts.head[l], pts.prev)
      /\ s2.channel = pts.channel /\ s2.alive = pts.alive /\ s2.running = pts.running
      /\ s2.waking = pts.waking /\ s2.one = pts.one /\ s2.prev = pts.prev
  BY <1>1, <1>2, UnlinkState DEF s2, on2, lat2
<1>6. /\ on2[l] = on[l] \ {t} /\ \A m \in PtHeads \ {l} : on2[m] = on[m]
      /\ on2 \in [PtHeads -> SUBSET Threads]
  BY <1>2, <1>3 DEF on2, Without
<1>7. \A m \in PtHeads : t \notin on2[m]
  BY <1>2, <1>3, <1>6
<1>8. /\ woken \in PtStates /\ Shape(woken, on3, lat3)
      /\ woken.head[l] = s2.head[l]
      /\ woken.channel = pts.channel /\ woken.alive = pts.alive
      /\ woken.running = pts.running /\ woken.waking = pts.waking
      /\ woken.one = pts.one /\ woken.prev = pts.prev
  BY <1>2, <1>3, <1>5, <1>7, ReadyIsAList, LinkState DEF woken, on3, lat3
<1>9. /\ on3[READY] = on[READY] \union {t} /\ on3[l] = on[l] \ {t}
      /\ \A m \in PtHeads \ {READY, l} : on3[m] = on[m]
      /\ \A u \in on[l] \ {t} : lat3[u] = lat[u] \ {t}
  <2>1. /\ on3[READY] = on2[READY] \union {t} /\ \A m \in PtHeads \ {READY} : on3[m] = on2[m]
    BY <1>6, ReadyIsAList DEF on3, With
  <2>2. \A u \in on[l] \ {t} : u \in Threads /\ u \notin on2[READY]
    BY <1>2, <1>3, <1>6, ReadyIsAList
  <2>3. \A u \in on[l] \ {t} : lat3[u] = lat[u] \ {t}
    BY <2>2 DEF lat3, Joined, lat2, Gone
  <2>4. QED BY <1>2, <1>6, <2>1, <2>3, ReadyIsAList
<1>10. woken.head[l] = NULL <=> on[l] = {t}
  <2>1. Ring(woken.next, woken.head[l], on3[l], lat3)
    BY <1>2, <1>8 DEF Shape
  <2>2. QED BY <1>2, <1>9, <2>1 DEF Ring
<1>11. /\ t \in W /\ W \in SUBSET on[l] /\ \A u \in W : pts.channel[u] = pts.waking
       /\ pts.one \/ on[l] = {t} => W = {t}
       /\ ~pts.one => W = Here(on, pts.channel, pts.waking)
  <2>1. W = MovedOn(pts, on, lat)
    OBVIOUS
  <2>2. /\ pts \in PtStates /\ pts.waking # NULL /\ l = pt_i_get_wait_list(pts.waking)
        /\ l \in PtHeads /\ t \in on[l] /\ Ordered(on[l], lat)
        /\ pts.channel[t] = pts.waking
        /\ \A u \in on[l] : t \in lat[u] => pts.channel[u] # pts.waking
    BY <1>2, <1>4
  <2> HIDE DEF W, V, on2, lat2, on3, lat3, s2, woken
  <2>3. StillThere(pts, on, l, t, W)
    BY ONLY <2>1, <2>2, MovedLeaves
  <2>4. QED BY <2>3 DEF StillThere
<1> HIDE DEF W
<1>12. /\ pts' \in PtStates /\ pts'.next = woken.next /\ pts'.head = woken.head
       /\ pts'.channel = pts.channel /\ pts'.alive = pts.alive /\ pts'.running = pts.running
       /\ pts.one \/ on[l] = {t} => pts'.waking = NULL
       /\ ~pts.one /\ on[l] # {t} => /\ pts'.waking = pts.waking /\ pts'.one = pts.one
                                    /\ pts'.prev = pts.prev
  <2>1. CASE pts.one \/ on[l] = {t}
    <3>1. pts' = [woken EXCEPT !.waking = NULL, !.one = FALSE, !.prev = NULL]
      BY <1>4, <1>10, <2>1 DEF Return
    <3>2. QED BY <1>8, <2>1, <3>1 DEF PtStates
  <2>2. CASE ~pts.one /\ on[l] # {t}
    <3>1. pts' = woken
      BY <1>4, <1>10, <2>2
    <3>2. QED BY <1>8, <2>2, <3>1
  <2>3. QED BY <2>1, <2>2
<1>13. Shape(pts', on3, lat3)
  BY <1>8, <1>12 DEF Shape
<1>14. Sound(pts', on3)
  <2>1. ASSUME NEW m \in PtHeads PROVE on3[m] \subseteq pts'.alive /\ pts'.running \notin on3[m]
    BY <1>1, <1>2, <1>9, <1>12 DEF Sound
  <2>2. ASSUME NEW m \in PtHeads \ {READY}, NEW u \in on3[m]
        PROVE  pts'.channel[u] \in Chans /\ pt_i_get_wait_list(pts'.channel[u]) = m
    BY <1>1, <1>9, <1>12 DEF Sound
  <2>3. QED BY <2>1, <2>2 DEF Sound
<1>15. Walks(pts', on3, lat3)
  <2>1. CASE pts.one \/ on[l] = {t}
    BY <1>12, <2>1 DEF Walks
  <2>2. CASE ~pts.one /\ on[l] # {t}
    <3>1. pts.prev # t
      <4>1. SUFFICES ASSUME pts.prev = t PROVE FALSE
        OBVIOUS
      <4>2. woken.head[l] = NULL
        BY <1>5, <1>8, <4>1 DEF UnlinkHead
      <4>3. QED BY <1>10, <2>2, <4>2
    <3>2. pts.prev # woken.head[l] =>
              pts.prev # pts.head[l]
      BY <1>5, <1>8, <3>1 DEF UnlinkHead
    <3>3. pts.prev # pts.head[l] =>
              \A u \in on[l] : u = pts.prev \/ pts.prev \in lat[u] => pts.channel[u] # pts.waking
      BY <1>1, <1>2 DEF Walks
    <3>4. pts.prev \in on3[l] /\ \A u \in on3[l] : u \in on[l] /\ lat3[u] \subseteq lat[u]
      BY <1>2, <1>9, <3>1
    <3>5. /\ pts'.waking = pts.waking /\ pts'.prev = pts.prev /\ pts'.head[l] = woken.head[l]
          /\ pts'.channel = pts.channel
      BY <1>12, <2>2
    <3>6. QED BY <1>2, <3>2, <3>3, <3>4, <3>5 DEF Walks
  <2>3. QED BY <2>1, <2>2
<1>16. MovedOn(pts', on3, lat3) = V
  <2>1. CASE pts.one \/ on[l] = {t}
    BY <1>11, <1>12, <2>1 DEF MovedOn
  <2>2. CASE ~pts.one /\ on[l] # {t}
    <3>1. MovedOn(pts', on3, lat3) = {u \in on3[l] : pts.channel[u] = pts.waking}
      BY <1>2, <1>12, <2>2 DEF MovedOn, Target, Here
    <3>2. W = {u \in on[l] : pts.channel[u] = pts.waking}
      BY <1>11, <2>2 DEF Here
    <3>3. QED BY <1>9, <3>1, <3>2
  <2>3. QED BY <2>1, <2>2
<1>17. QReady(pts') = QReady(pts)
  <2>1. QReady(pts) = on[READY] \union W /\ QReady(pts') = on3[READY] \union V
    <3>1. QReady(pts) = on[READY] \union W
      BY <1>1, <1>2, QueuesView DEF W
    <3>2. QReady(pts') = on3[READY] \union V
      BY <1>12, <1>13, <1>16, QueuesView
    <3>3. QED BY <3>1, <3>2
  <2>2. QED BY <1>9, <1>11, <2>1
<1>18. QWaiting(pts') = QWaiting(pts)
  <2>1. QWaiting(pts) = [c \in Chans |-> Here(on, pts.channel, c) \ W]
    BY <1>1, <1>2, QueuesView DEF W
  <2>2. QWaiting(pts') = [c \in Chans |-> Here(on3, pts.channel, c) \ V]
    BY <1>12, <1>13, <1>16, QueuesView
  <2>3. ASSUME NEW c \in Chans PROVE Here(on3, pts.channel, c) \ V = Here(on, pts.channel, c) \ W
    <3> DEFINE k == pt_i_get_wait_list(c)
    <3>1. on3[k] = on[k] \ {t}
      BY <1>2, <1>3, <1>9, WaitLists
    <3> HIDE DEF k
    <3>2. Here(on3, pts.channel, c) = Here(on, pts.channel, c) \ {t}
      BY <3>1 DEF Here, k
    <3>3. QED BY <1>11, <3>2
  <2>4. QED BY <2>1, <2>2, <2>3
<1>19. Earlier(pts') = Earlier(pts)
  <2>1. Earlier(pts) = Came(on, lat, pts.channel, W)
    BY <1>1, <1>2, QueuesView DEF W
  <2>2. Earlier(pts') = Came(on3, lat3, pts.channel, V)
    <3> HIDE DEF V
    <3>1. Earlier(pts') = Came(on3, lat3, pts'.channel, MovedOn(pts', on3, lat3))
      BY <1>12, <1>13, QueuesView
    <3>2. QED BY <1>12, <1>16, <3>1
  <2>3. Came(on3, lat3, pts.channel, V) = Came(on, lat, pts.channel, W)
    <3> DEFINE ch == pts.channel
    <3>1. /\ \A u \in W : ch[u] = ch[t]
          /\ \A u \in on[l] : t \in lat[u] => ch[u] # ch[t]
      BY <1>2, <1>4, <1>11
    <3>2. /\ V = W \ {t} /\ on2 = Without(on, l, t) /\ on3 = With(on2, READY, t)
          /\ lat3 = Joined(on2[READY], Gone(lat, t), t)
      BY DEF V, on2, on3, lat3, lat2
    <3> HIDE DEF ch, V
    <3>3. /\ on \in [PtHeads -> SUBSET Threads] /\ lat \in Lats
          /\ l \in PtHeads \ {READY} /\ W \in SUBSET on[l] /\ t \in W
          /\ \A m \in PtHeads : Ordered(on[m], lat)
          /\ \A m, k \in PtHeads : m # k => on[m] \cap on[k] = {}
      BY <1>2, <1>3, <1>11
    <3>4. Came(on3, lat3, ch, V) = Came(on, lat, ch, W)
      BY ONLY <3>1, <3>2, <3>3, Moves
    <3>5. QED BY <3>4 DEF ch
  <2>4. QED BY <2>1, <2>2, <2>3
<1>20. PtInv'
  BY <1>2, <1>12, <1>13, <1>14, <1>15 DEF PtInv, PtTypeOK
<1>21. UNCHANGED Queues!vars
  BY <1>12, <1>17, <1>18, <1>19 DEF Queues!vars, QReady, QWaiting
<1>22. QED BY <1>20, <1>21

\* At first all lists and all queues are empty.
LEMMA InitStep == PtInit => PtInv /\ Queues!Init
<1> SUFFICES ASSUME PtInit PROVE PtInv /\ Queues!Init
  OBVIOUS
<1> DEFINE on == [l \in PtHeads |-> {}]
           lat == [t \in Threads |-> {}]
<1>1. /\ pts \in PtStates /\ pts.waking = NULL /\ pts.running = NULL /\ pts.alive = {}
      /\ \A l \in PtHeads : pts.head[l] = NULL
      /\ \A t \in Threads : pts.next[t] = NULL
  BY DEF PtInit, PtStates
<1>2. Shape(pts, on, lat)
  BY <1>1 DEF Shape, Ordered, Ring, Lats
<1>3. Sound(pts, on) /\ Walks(pts, on, lat)
  BY <1>1 DEF Sound, Walks
<1>4. PtInv
  BY <1>1, <1>2, <1>3 DEF PtInv, PtTypeOK
<1>5. QReady(pts) = {} /\ QWaiting(pts) = [c \in Chans |-> {}] /\ Earlier(pts) = {}
  <2>1. /\ \A l \in PtHeads : on[l] = {}
        /\ READY \in PtHeads /\ \A c : pt_i_get_wait_list(c) \in PtHeads
    BY ReadyIsAList, WaitLists
  <2> HIDE DEF on, lat
  <2>2. \A c : Here(on, pts.channel, c) = {}
    BY <2>1 DEF Here
  <2>3. Came(on, lat, pts.channel, {}) = {}
    BY <2>1 DEF Came, Ahead
  <2>4. QED BY <1>1, <1>2, <2>1, <2>2, <2>3, CalmView
<1>6. QED BY <1>1, <1>4, <1>5 DEF Queues!Init, QReady, QWaiting

\* Every step keeps PtInv and is a step of the queues, or is not seen.
LEMMA NextStep ==
    ASSUME PtInv, [PtNext]_pts
    PROVE  PtInv' /\ [Queues!Next]_(Queues!vars)
<1>1. CASE protothread_run
  BY <1>1, RunStep DEF Queues!Next
<1>2. CASE pt_yield
  BY <1>2, YieldStep DEF Queues!Next
<1>3. ASSUME NEW c \in Chans, pt_wait(c) PROVE PtInv' /\ [Queues!Next]_(Queues!vars)
  BY <1>3, WaitStep DEF Queues!Next
<1>4. CASE PtDone
  BY <1>4, DoneStep DEF Queues!Next
<1>5. CASE WakeTurn
  <2> DEFINE l == pt_i_get_wait_list(pts.waking)
             t == pts.next[pts.prev]
  <2>1. ~NotWaking /\ (WakePasses(l, t) \/ WakeMoves(l, t))
    BY <1>5 DEF WakeTurn
  <2>2. PtInv' /\ UNCHANGED Queues!vars
    BY <2>1, PassesStep, MovesStep
  <2>3. QED BY <2>2
<1>6. ASSUME NEW t \in Threads, pt_create(t) PROVE PtInv' /\ [Queues!Next]_(Queues!vars)
  BY <1>6, CreateStep DEF Queues!Next
<1>7. ASSUME NEW t \in Threads, pt_kill(t) PROVE PtInv' /\ [Queues!Next]_(Queues!vars)
  BY <1>7, KillStep DEF Queues!Next
<1>8. ASSUME NEW c \in Chans, pt_signal(c) PROVE PtInv' /\ [Queues!Next]_(Queues!vars)
  BY <1>8, SignalStep DEF Queues!Next
<1>9. ASSUME NEW c \in Chans, pt_broadcast(c) PROVE PtInv' /\ [Queues!Next]_(Queues!vars)
  BY <1>9, BroadcastStep DEF Queues!Next
<1>10. CASE UNCHANGED pts
  <2>1. PtInv'
    BY <1>10 DEF PtInv, PtTypeOK
  <2>2. UNCHANGED Queues!vars
    BY <1>10 DEF Queues!vars
  <2>3. QED BY <2>1, <2>2
<1>11. QED
  BY <1>1, <1>2, <1>3, <1>4, <1>5, <1>6, <1>7, <1>8, <1>9, <1>10
     DEF PtNext, SliceEnds, pt_join, Chans

\* The lists are always rings, in each of which the threads are in the order of coming;
\* nobody is on two of them, no thread that ended is on one, whoever waits is on the list
\* of its channel, and the loop of pt_i_wake is on the list that it walks.
THEOREM ListsAreRings == PtSpec => []PtInv
<1>1. PtInv /\ [PtNext]_pts => PtInv'
  BY NextStep
<1>2. QED BY InitStep, <1>1, PTL DEF PtSpec

\* The circular lists of protothread.h implement the queues of PtQueue.
THEOREM ListsAreQueuesHolds == PtSpec => ListsAreQueues
<1>1. PtInv /\ [PtNext]_pts => [Queues!Next]_(Queues!vars)
  BY NextStep
<1>2. QED BY InitStep, <1>1, ListsAreRings, PTL DEF PtSpec, ListsAreQueues, Queues!Spec
=============================================================================

------------------------------ MODULE Textbelt ------------------------------
(***************************************************************************)
(* The Textbelt service module: texts are admitted into a queue under an   *)
(* hourly cap and sent one at a time; the API key is checked with the      *)
(* provider from time to time and when it changes.                         *)
(*                                                                         *)
(* One thread calls every operation; what interleaves with them is the one *)
(* HTTP request under way, which ends in a later step.  Points in time are *)
(* kept as the ticks left until they come.  The text, the numbers and the  *)
(* provider's wording are left out.                                        *)
(***************************************************************************)
EXTENDS Integers, Sequences, FiniteSets, SequencesExt, Clock

CONSTANTS
    Keys,         \* API keys
    NoKey,        \* no API key is set
    TB_QUEUE,     \* texts waiting to be sent
    TB_TO_MAX,    \* numbers in one notify
    TB_RATE_MAX,  \* highest cap, and the acceptance times kept
    TB_GAP,       \* between sends
    TB_RETRY,     \* after a check that failed
    TB_HOUR,      \* what the cap counts over
    Quotas,       \* credits left, as the provider says
    Periods,      \* times between two checks of the credits
    MaxRecent     \* bound on the texts accepted in an hour while there is no cap

ASSUME TbAssumption ==
    /\ TB_HOUR \in Nat \ {0} /\ TB_RATE_MAX \in Nat /\ TB_TO_MAX \in Nat
    /\ TB_QUEUE \in Nat /\ TB_GAP \in Nat /\ TB_RETRY \in Nat /\ MaxRecent \in Nat
    /\ Periods \subseteq Nat /\ \E longest \in Periods : \A p \in Periods : longest >= p

VARIABLES
    tb,     \* the module's context, tb_ctx_t
    log     \* history variable: the ticks for which each text accepted lately
            \* still counts, whatever the module itself remembers

tb_vars == <<tb, log>>

\* Texts are alike, but one of those under way may be watched to its end.
Texts == {"text", "watched"}
NoText == "none"

\* How a request ends: it fails or is answered with something else, or with a
\* reply that says whether it succeeded and perhaps the credits left.
TbFailed == [understood |-> FALSE, success |-> FALSE, quota |-> -1]
Replies == {TbFailed} \union [understood : {TRUE}, success : BOOLEAN, quota : {-1} \union Quotas]

----------------------------------------------------------------------------
(* Admission: numbers, the queue, and the hourly cap. *)

Raw == {"number", "blank", "other"}

\* tb_phone_norm: whether an entry is a phone number.
tb_phone_norm(x) == x = "number"

\* How many texts a list asks for, -1 when it is refused.
Recipients(items) ==
    IF Len(items) > TB_TO_MAX \/ \E i \in DOMAIN items : ~tb_phone_norm(items[i])
    THEN -1 ELSE Len(items)

\* In a comma-separated string blank entries are passed over.
tb_recipients(list) == Recipients(SelectSeq(list, LAMBDA x : x # "blank"))

\* notify_to: "to" is such a string or an array.
notify_to(list, isArray) == IF isArray THEN Recipients(list) ELSE tb_recipients(list)

TbRequests == {notify_to(list, isArray) :
                list \in BoundedSeq(Raw, TB_TO_MAX + 1), isArray \in BOOLEAN}

\* rate_ok: 0 is no cap.
Rates == 0 .. TB_RATE_MAX

texts_in_hour(c) == Len(c.queued_at)

\* The last n entries of a sequence, or all there are.
Newest(s, n) == IF Len(s) <= n THEN s ELSE SubSeq(s, Len(s) - n + 1, Len(s))
Now(n) == [i \in 1 .. n |-> TB_HOUR]

\* Wrong variant: the table is one place too short.
note_queued_short(s, n) == Newest(s \o Now(n), TB_RATE_MAX - 1)

\* n texts are noted, one after the other.  An entry that is past the hour no
\* longer counts and is replaced first, so only the others are kept here, oldest
\* first; a full table loses its oldest.
note_queued(s, n) == Newest(s \o Now(n), TB_RATE_MAX)

\* Wrong variant: the room in the queue is not looked at.
admit_crowded(c, n) ==
    /\ c.key # NoKey
    /\ c.key_state # 0
    /\ c.max_per_hour > 0 => texts_in_hour(c) + n <= c.max_per_hour

admit(c, n) ==
    /\ c.key # NoKey
    /\ c.key_state # 0
    /\ n <= TB_QUEUE - Len(c.queue)
    /\ c.max_per_hour > 0 => texts_in_hour(c) + n <= c.max_per_hour

\* The texts under way: in the queue, or being sent.
TbBusy(c) == Range(c.queue) \union (IF c.req = "send" THEN {c.cur} ELSE {})

\* The texts are pushed one after the other.
queue_push(c, texts) ==
    [c EXCEPT !.queue = @ \o texts, !.queued_at = note_queued(@, Len(texts))]

----------------------------------------------------------------------------
(* Requests. *)

\* start: a request gets under way, unless libcurl fails.
start(c, req, ok) == IF ok THEN [c EXCEPT !.req = req] ELSE c

tb_end_request(c) == [c EXCEPT !.req = "none"]

set_credits(c, q) == IF q < 0 THEN c ELSE [c EXCEPT !.credits = q]

\* finish_send: the text c.cur went out or did not.
finish_send(c, r) ==
    LET d == IF r.understood THEN [set_credits(c, r.quota) EXCEPT !.net_err = FALSE]
                              ELSE [c EXCEPT !.net_err = TRUE]
    IN [d EXCEPT !.key_state = IF r.success THEN 1 ELSE @, !.cur = NoText]

\* finish: what the request that ended was for.
tb_finish(c, r) ==
    LET d == tb_end_request(c)
    IN IF c.req = "send" THEN finish_send(d, r)
       ELSE IF ~r.understood
       THEN [d EXCEPT !.net_err = TRUE, !.next_check = TB_RETRY]
       ELSE [(IF r.success THEN set_credits(d, r.quota) ELSE d) EXCEPT
                !.net_err = FALSE, !.key_state = IF r.success THEN 1 ELSE 0,
                !.next_check = c.check_every]

start_check(c, ok) ==
    LET d == start([c EXCEPT !.next_check = TB_RETRY], "quota", ok)
    IN IF ok THEN d ELSE [d EXCEPT !.net_err = TRUE]

\* start_send: a text that cannot be started counts as one that failed.
start_send(c, ok) ==
    LET d == [c EXCEPT !.cur = Head(c.queue), !.queue = Tail(c.queue), !.next_send = TB_GAP]
    IN IF ok THEN start(d, "send", TRUE) ELSE finish_send(d, TbFailed)

----------------------------------------------------------------------------
(* The operations. *)

\* tb_open: with a key from the configuration or without.
tb_open(key, rate, every) ==
    [key |-> key, max_per_hour |-> rate, check_every |-> every,
     req |-> "none", queue |-> <<>>, cur |-> NoText,
     queued_at |-> <<>>, next_check |-> 0, next_send |-> 0,
     key_state |-> -1, credits |-> -1, net_err |-> FALSE]

\* tb_step: the request under way may have ended; then, from context c, the
\* next text goes, or the next check.
TbStepFrom(c) ==
    \E ok \in BOOLEAN :
        LET d == IF c.req # "none" \/ c.key = NoKey THEN c
                 ELSE IF c.queue # <<>> /\ c.next_send = 0 THEN start_send(c, ok)
                 ELSE IF c.next_check = 0 THEN start_check(c, ok) ELSE c
        IN /\ tb' = d
           /\ UNCHANGED log

tb_step == TbStepFrom(tb)
TextRequestEnds == tb.req # "none" /\ \E reply \in Replies : TbStepFrom(tb_finish(tb, reply))

\* tb_put_settings: everything is checked before anything changes.  A key that
\* is left out, or that is the mask it was shown as, stays.  The check period is
\* read from the document after the document has been freed, so it may come out
\* as any period.  The documents tried change the key or the rest.
tb_put_settings ==
    \E key \in {tb.key, NoKey} \union Keys, rate \in Rates, period \in BOOLEAN,
       every \in Periods :
        /\ ~period => every = tb.check_every
        /\ key # tb.key => rate = tb.max_per_hour /\ ~period
        /\ LET c == [tb EXCEPT !.check_every = every,
                               !.next_check = IF period THEN every ELSE @]
               d == IF key = tb.key THEN c
                    ELSE [c EXCEPT !.key = key, !.key_state = -1, !.credits = -1,
                                   !.net_err = FALSE, !.next_check = 0]
           IN tb' = [d EXCEPT !.max_per_hour = rate]
        /\ UNCHANGED log

Accept(n) ==
    /\ admit(tb, n)
    /\ Len(log) + n <= MaxRecent
    /\ \E w \in 0 .. n :
          /\ w > 0 => "watched" \notin TbBusy(tb)
          /\ tb' = queue_push(tb, [i \in 1 .. n |-> IF i = w THEN "watched" ELSE "text"])
    /\ log' = log \o Now(n)

\* tb_action: "refresh", "test" and "notify".
refresh == tb' = [tb EXCEPT !.next_check = 0] /\ UNCHANGED log
test == \E x \in Raw : tb_phone_norm(x) /\ Accept(1)
notify == \E n \in TbRequests \intersect (1 .. TB_TO_MAX) : Accept(n)

\* A tick of the clock: the oldest are past the hour.
Age(s) == LET past == Cardinality({i \in DOMAIN s : s[i] = 1})
          IN [i \in 1 .. Len(s) - past |-> s[i + past] - 1]
TbTick ==
    /\ tb' = [tb EXCEPT !.next_check = Pass(@), !.next_send = Pass(@), !.queued_at = Age(@)]
    /\ log' = Age(log)

TbStart == tb_open(NoKey, 0, CHOOSE p \in Periods : TRUE)
TbInit ==
    /\ tb \in {tb_open(k, TB_RATE_MAX, p) : k \in Keys \union {NoKey}, p \in Periods}
    /\ log = <<>>

TbNext == tb_step \/ TextRequestEnds \/ tb_put_settings \/ refresh \/ test \/ notify \/ TbTick

\* The loop steps the module for ever, time passes, and libcurl ends every
\* request within its timeout.
TbFairness == WF_tb_vars(TbTick) /\ WF_tb_vars(tb_step) /\ WF_tb_vars(TextRequestEnds)

TbSpec == TbInit /\ [][TbNext]_tb_vars /\ TbFairness

----------------------------------------------------------------------------

TbTypeOK ==
    /\ tb \in [key : Keys \union {NoKey}, max_per_hour : Rates,
               check_every : Periods, req : {"none", "quota", "send"},
               queue : BoundedSeq(Texts, TB_QUEUE), cur : Texts \union {NoText},
               queued_at : BoundedSeq(1 .. TB_HOUR, TB_RATE_MAX),
               next_check : 0 .. Max(Periods \union {TB_RETRY}), next_send : 0 .. TB_GAP,
               key_state : {-1, 0, 1}, credits : {-1} \union Quotas, net_err : BOOLEAN]
    /\ log \in BoundedSeq(1 .. TB_HOUR, MaxRecent)

\* The cap (textbelt.max_per_hour) really bounds what is accepted in an hour,
\* although the module remembers no more than TB_RATE_MAX acceptances: texts
\* accepted while there was no cap are many more, and the oldest are forgotten.
HourlyCap ==
    [][tb.max_per_hour > 0 /\ Len(log') > Len(log) => Len(log') <= tb.max_per_hour]_tb_vars

\* A text that was accepted has not been sent or reported as failed yet, and the
\* key it needs has not been removed.
TextUnderWay == "watched" \in TbBusy(tb) /\ tb.key # NoKey
=============================================================================

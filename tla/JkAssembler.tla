---------------------------- MODULE JkAssembler ----------------------------
(***************************************************************************)
(* The JK frame assembler: notifications of any size in, frames out.       *)
(*                                                                         *)
(* A header has two bytes here and a frame four: the header, the type and  *)
(* the sum of the three.  The line AT\r\n, which the radio puts before or  *)
(* behind some notifications, is one byte, which may also be data.         *)
(***************************************************************************)
EXTENDS Integers, Sequences, FiniteSets, FiniteSetsExt

CONSTANTS
    ASM_BUF,     \* bytes of the buffer: 512, less than two frames
    NOTIFY_MAX   \* bytes of a notification

JK_HEADER_RSP == <<1, 2>>
AT_JUNK == 0
AsmBytes == 0 .. 3
GoodType == 3
JK_FRAME_SIZE == 4

ASSUME AsmAssumption == ASM_BUF \in Nat /\ ASM_BUF > JK_FRAME_SIZE /\ NOTIFY_MAX \in Nat

jk_crc8(bytes) == (bytes[1] + bytes[2] + bytes[3]) % 4

VARIABLES
    asm,         \* jk_frame_assembler_t; owed: bytes taken that were neither passed on
                 \* nor counted as dropped; out: frames passed on by a call
    sent,        \* bytes of its frame that the battery has sent
    asm_state    \* any bytes come; then good frames only; then one was passed on

asm_vars == <<asm, sent, asm_state>>

----------------------------------------------------------------------------

\* Notifications that start or end with the line lose it.
Strip(c) ==
    LET d == IF c # <<>> /\ c[1] = AT_JUNK THEN Tail(c) ELSE c
    IN IF d # <<>> /\ d[Len(d)] = AT_JUNK THEN SubSeq(d, 1, Len(d) - 1) ELSE d

Headers(b, from) ==
    {i \in from .. Len(b) - 1 : <<b[i], b[i + 1]>> = JK_HEADER_RSP}

\* The first n bytes of the buffer are counted as dropped.
DropBytes(a, n) == [a EXCEPT !.buf = SubSeq(@, n + 1, Len(@)), !.owed = @ - n]

\* What is before the next header is dropped; without one, all but what may be
\* the start of a header and one byte more.
Seek(a, from) ==
    LET hs == Headers(a.buf, from)
    IN DropBytes(a, IF hs # {} THEN Min(hs) - 1 ELSE Max({0, Len(a.buf) - 2}))

IsGood(b) == jk_crc8(b) = b[JK_FRAME_SIZE] /\ b[3] = GoodType

Assemblers == [buf : Seq(AsmBytes), owed : Int, out : Nat]

\* jk_assembler_feed, the loop: up to one frame.
DrainOne[a \in Assemblers] ==
    LET hs == Headers(a.buf, 1)
    IN IF hs = {} THEN Seek(a, 1)
       ELSE IF 1 \notin hs THEN DrainOne[Seek(a, 1)]
       ELSE IF Len(a.buf) < JK_FRAME_SIZE THEN a
       ELSE IF IsGood(a.buf)
       THEN [DropBytes(a, JK_FRAME_SIZE) EXCEPT !.out = @ + 1]
       ELSE DrainOne[Seek(a, 2)]

\* jk_assembler_feed.  A notification that does not fit is cut, and nothing is
\* drained: the buffer stays full for every later one that is not empty.
jk_assembler_feed(a, chunk) ==
    LET c == Strip(chunk)
        room == ASM_BUF - Len(a.buf)
    IN IF c = <<>> /\ Len(a.buf) < JK_FRAME_SIZE THEN a
       ELSE IF Len(c) > room
       THEN [a EXCEPT !.buf = @ \o SubSeq(c, 1, room), !.owed = @ + room]
       ELSE DrainOne[[a EXCEPT !.buf = @ \o c, !.owed = @ + Len(c)]]

\* on_line, a notification: frames are taken until there is none.
TakeMore[a \in Assemblers] ==
    LET b == jk_assembler_feed(a, <<>>) IN IF b.out = a.out THEN b ELSE TakeMore[b]
TakeFrames(a, chunk) ==
    LET b == jk_assembler_feed(a, chunk) IN IF b.out = a.out THEN b ELSE TakeMore[b]

Calm(a) == [a EXCEPT !.out = 0]   \* the assembler between two calls

\* Anything comes: parts of frames, of other replies, and what is left when the
\* radio loses notifications.
AsmNoise ==
    /\ asm_state = "noise"
    /\ \E n \in 1 .. NOTIFY_MAX : \E c \in [1 .. n -> AsmBytes] : asm' = Calm(TakeFrames(asm, c))
    /\ UNCHANGED <<sent, asm_state>>

AsmSettle == asm_state = "noise" /\ asm_state' = "good" /\ UNCHANGED <<asm, sent>>

\* The battery sends good frames, in parts that fit, with the line AT\r\n or not.
GoodFrame == <<1, 2, GoodType, 2>>
AsmGood ==
    /\ asm_state # "noise"
    /\ \E n \in 1 .. ASM_BUF - JK_FRAME_SIZE + 1, pre, post \in {<<>>, <<AT_JUNK>>} :
          LET part == [i \in 1 .. n |-> GoodFrame[((sent + i - 1) % JK_FRAME_SIZE) + 1]]
              b == TakeFrames(asm, pre \o part \o post)
          IN /\ asm' = Calm(b)
             /\ sent' = (sent + n) % JK_FRAME_SIZE
             /\ asm_state' = IF b.out > 0 THEN "passed" ELSE asm_state

\* jk_assembler_init.
AsmInit == asm = [buf |-> <<>>, owed |-> 0, out |-> 0] /\ sent = 0 /\ asm_state = "noise"
AsmNext == AsmNoise \/ AsmSettle \/ AsmGood

----------------------------------------------------------------------------

\* The buffer is full only after a notification that did not fit.
Jammed == Len(asm.buf) = ASM_BUF
AsmTypeOK == asm.buf \in Seq(AsmBytes) /\ (Jammed \/ Len(asm.buf) < JK_FRAME_SIZE)

\* Every byte was passed on in a frame or counted as dropped, once, or waits.
AsmAccounted == asm.owed = Len(asm.buf)

\* Two bytes make the same frames together as one by one.
AsmChunksDoNotMatter ==
    ~Jammed => \A b, c \in AsmBytes \ {AT_JUNK} :
        TakeFrames(TakeFrames(asm, <<b>>), <<c>>) = TakeFrames(asm, <<b, c>>)

AsmAnswering == asm_state # "noise" /\ ~Jammed
AsmRead == asm_state = "passed"
=============================================================================

--------------------------- MODULE HttpConnProofs ---------------------------
(* Theorems about HttpConn, for any number of slots, clients and sockets.  *)
EXTENDS HttpConn, SequenceTheorems, TLAPS

\* ListenersOwned with what it rests on: the socket in use exists until the
\* process ends, and is not also the one to come.
ListenersInv ==
    /\ ListenersOwned
    /\ phase \in {"up", "quit"} => listen_fd # None
    /\ pending_listen_fd # None => pending_listen_fd # listen_fd

\* The parts of a step that leave the listening sockets and the phase alone.
LEMMA SlicesKeepListeners ==
    ASSUME \E k \in Slots : OwnSlice(k) \/ conn_do_send(k) \/ Idle(k)
    PROVE  UNCHANGED <<phase, listeners>>
BY DEF OwnSlice, conn_do_send, Idle, conn_do_recv, RecvEnd, SendFails, IdleClose,
       QuitClose, listeners

\* What clients do changes no listening socket.
LEMMA ClientsKeepListeners ==
    ASSUME \E c \in Clients : Connect(c) \/ ClientSend(c) \/ ClientClose(c)
    PROVE  UNCHANGED <<phase, listeners>>
BY DEF Connect, ClientSend, ClientClose, listeners

\* The invariant of the listening sockets holds in every state.
LEMMA ListenersInvariant == Spec => []ListenersInv
<1>1. Init => ListenersInv
  BY ListenAssumption DEF Init, ListenersInv, ListenersOwned
<1>2. ListenersInv /\ [Next]_vars => ListenersInv'
  <2> SUFFICES ASSUME ListenersInv, [Next]_vars
               PROVE  ListenersInv'
    OBVIOUS
  <2> USE DEF ListenersInv, ListenersOwned
  <2>1. CASE UNCHANGED <<phase, listeners>>
    BY <2>1 DEF listeners
  <2>2. CASE \E k \in Slots : OwnSlice(k) \/ conn_do_send(k) \/ Idle(k)
    BY <2>1, <2>2, SlicesKeepListeners
  <2>3. CASE \E c \in Clients : Connect(c) \/ ClientSend(c) \/ ClientClose(c)
    BY <2>1, <2>3, ClientsKeepListeners
  <2>4. CASE accept_one_fd
    BY <2>1, <2>4 DEF accept_one_fd
  <2>5. CASE SwapListen
    BY <2>5 DEF SwapListen
  <2>6. CASE \E l \in Listeners : mf_http_rebind_listen(l)
    <3>1. PICK l \in Listeners : mf_http_rebind_listen(l)
      BY <2>6
    <3>2. phase = "up" /\ l \notin lopen /\ phase' = phase /\ listen_fd' = listen_fd
      BY <3>1 DEF mf_http_rebind_listen, Serving
    <3>3. pending_listen_fd' = l /\ lopen' = (lopen \ {pending_listen_fd}) \union {l}
      BY <3>1 DEF mf_http_rebind_listen, ClosePending
    <3> QED BY <3>2, <3>3, ListenAssumption
  <2>7. CASE Signal
    BY <2>7 DEF Signal, listeners
  <2>8. CASE mf_http_close_all
    BY <2>8 DEF mf_http_close_all
  <2>9. CASE UNCHANGED vars
    BY <2>1, <2>9 DEF vars
  <2> QED
    BY <2>2, <2>3, <2>4, <2>5, <2>6, <2>7, <2>8, <2>9 DEF Next, AcceptSlice
<1> QED
  BY <1>1, <1>2, PTL DEF Spec

\* The open listening sockets are always exactly the one in use and the one to
\* come, through any sequence of changes of the address (mf_http_rebind_listen)
\* and slices of the acceptor (http_accept_pt).
THEOREM ListenersHold == Spec => []ListenersOwned
<1>1. ListenersInv => ListenersOwned
  BY DEF ListenersInv
<1> QED
  BY <1>1, ListenersInvariant, PTL

----------------------------------------------------------------------------
(* What a client has sent and no handler has had yet.                      *)

Size(r) == r.hdr + r.cl

\* The units of a client's n-th request r.
Block(n, r) == [i \in 1 .. Size(r) |-> <<n, i>>]

\* The sequence s is the units of the requests reqs but for the first h of
\* them, one after the other: each unit has those of its request around it, and
\* is followed by the next request.
Stream(s, reqs, h) ==
    /\ s \in Seq(Nat \X Nat)
    /\ \A p \in 1 .. Len(s) :
         /\ s[p][1] \in 1 .. Len(reqs)
         /\ s[p][2] \in 1 .. Size(reqs[s[p][1]])
         /\ p + Size(reqs[s[p][1]]) - s[p][2] <= Len(s)
         /\ \A q \in 1 .. Size(reqs[s[p][1]]) :
              p + q - s[p][2] \in 1 .. Len(s) => s[p + q - s[p][2]] = <<s[p][1], q>>
         /\ s[p][2] = Size(reqs[s[p][1]]) /\ p < Len(s)
              => s[p + 1] = <<s[p][1] + 1, 1>>
    /\ IF s = <<>> THEN h = Len(reqs)
       ELSE s[1] = <<h + 1, 1>> /\ s[Len(s)][1] = Len(reqs)

\* A request has a header, and its size is that of its header and body.
LEMMA SizePositive ==
  ASSUME NEW r \in RequestType
  PROVE  /\ Size(r) \in Nat \ {0} /\ r.hdr \in Nat \ {0} /\ r.cl \in Nat
         /\ r.hdr <= Size(r)
<1>1. r.hdr \in Nat \ {0} /\ r.cl \in Nat
  BY DEF RequestType
<1>2. \A a \in Nat \ {0}, b \in Nat : a + b \in Nat \ {0} /\ a <= a + b
  OBVIOUS
<1>. QED  BY <1>1, <1>2 DEF Size

\* The units of a request are its position among the requests and theirs in it.
LEMMA BlockUnits ==
  ASSUME NEW n \in Nat, NEW r \in RequestType
  PROVE  /\ Block(n, r) \in Seq(Nat \X Nat) /\ Len(Block(n, r)) = Size(r)
         /\ \A i \in 1 .. Size(r) : Block(n, r)[i] = <<n, i>>
<1>1. Size(r) \in Nat
  BY SizePositive
<1>2. \A i \in 1 .. Size(r) : <<n, i>> \in Nat \X Nat
  BY <1>1
<1>. QED  BY <1>1, <1>2 DEF Block

\* What is left begins with the next request, all of it.
LEMMA StreamFirst ==
  ASSUME NEW reqs \in Seq(RequestType), NEW h \in Nat, NEW s, Stream(s, reqs, h),
         s # <<>>
  PROVE  /\ h + 1 \in 1 .. Len(reqs)
         /\ Size(reqs[h + 1]) \in 1 .. Len(s)
         /\ \A q \in 1 .. Size(reqs[h + 1]) : s[q] = <<h + 1, q>>
<1>1. s \in Seq(Nat \X Nat) /\ Len(s) \in Nat \ {0} /\ s[1] = <<h + 1, 1>>
  BY DEF Stream
<1>2. s[1][1] = h + 1 /\ s[1][2] = 1
  BY <1>1
<1>3. /\ h + 1 \in 1 .. Len(reqs)
      /\ 1 + Size(reqs[h + 1]) - 1 <= Len(s)
      /\ \A q \in 1 .. Size(reqs[h + 1]) :
           1 + q - 1 \in 1 .. Len(s) => s[1 + q - 1] = <<h + 1, q>>
  <2>1. 1 \in 1 .. Len(s)
    BY <1>1
  <2>. QED  BY <1>2, <2>1 DEF Stream
<1>4. Size(reqs[h + 1]) \in Nat \ {0}
  BY <1>3, SizePositive
<1>5. \A q \in 1 .. Size(reqs[h + 1]) : 1 + q - 1 = q /\ q \in 1 .. Len(s)
  BY <1>1, <1>3, <1>4
<1>. QED  BY <1>1, <1>3, <1>4, <1>5

\* A request more.
LEMMA StreamAppend ==
  ASSUME NEW reqs \in Seq(RequestType), NEW h \in Nat, NEW s, Stream(s, reqs, h),
         NEW r \in RequestType
  PROVE  Stream(s \o Block(Len(reqs) + 1, r), Append(reqs, r), h)
<1> DEFINE n == Len(reqs) + 1
           z == Size(r)
           b == Block(n, r)
           t == s \o b
           more == Append(reqs, r)
           len == Len(s)
<1>1. s \in Seq(Nat \X Nat) /\ len \in Nat /\ len = Len(s)
  BY DEF Stream
<1>2. n \in Nat \ {0} /\ n = Len(reqs) + 1 /\ Len(reqs) \in Nat
  OBVIOUS
<1>3. z \in Nat \ {0} /\ z = Size(r)
  BY SizePositive
<1>4. b \in Seq(Nat \X Nat) /\ Len(b) = z /\ \A i \in 1 .. z : b[i] = <<n, i>>
  <2>1. n \in Nat
    BY <1>2
  <2> HIDE DEF n
  <2>. QED  BY <2>1, BlockUnits
<1>5. /\ more \in Seq(RequestType) /\ Len(more) = n /\ more[n] = r
      /\ \A m \in 1 .. Len(reqs) : more[m] = reqs[m]
  OBVIOUS
<1>6. \A m \in 1 .. Len(reqs) : Size(reqs[m]) \in Nat \ {0}
  BY SizePositive
<1>7. t = s \o b
  OBVIOUS
<1> HIDE DEF t, more, b, n, z, len
<1>n. len \in Nat /\ z \in Nat /\ z > 0 /\ n \in Nat /\ n > 0
  BY <1>1, <1>2, <1>3
<1>8. t \in Seq(Nat \X Nat)
  BY <1>1, <1>4, <1>7
<1>9. Len(t) = len + z
  <2>1. Len(s \o b) = Len(s) + Len(b)
    BY <1>1, <1>4, ConcatProperties
  <2>. QED  BY <1>1, <1>4, <1>7, <2>1
<1>10. \A p \in 1 .. len : t[p] = s[p]
  BY <1>1, <1>3, <1>4, <1>7
<1>11. \A i \in 1 .. z : t[len + i] = <<n, i>>
  BY <1>1, <1>3, <1>4, <1>7
<1>12. ASSUME NEW p \in 1 .. Len(t)
       PROVE  /\ t[p][1] \in 1 .. Len(more)
              /\ t[p][2] \in 1 .. Size(more[t[p][1]])
              /\ p + Size(more[t[p][1]]) - t[p][2] <= Len(t)
              /\ \A q \in 1 .. Size(more[t[p][1]]) :
                   p + q - t[p][2] \in 1 .. Len(t) => t[p + q - t[p][2]] = <<t[p][1], q>>
              /\ t[p][2] = Size(more[t[p][1]]) /\ p < Len(t)
                   => t[p + 1] = <<t[p][1] + 1, 1>>
  <2>1. CASE p \in 1 .. len
    <3> DEFINE m == s[p][1]
               i == s[p][2]
               k == Size(reqs[m])
    <3>1. /\ m \in 1 .. Len(reqs) /\ i \in 1 .. k
          /\ p + k - i <= len
          /\ \A q \in 1 .. k : p + q - i \in 1 .. len => s[p + q - i] = <<m, q>>
          /\ i = k /\ p < len => s[p + 1] = <<m + 1, 1>>
      BY <1>1, <2>1 DEF Stream
    <3>2. t[p] = s[p] /\ more[m] = reqs[m] /\ k \in Nat \ {0}
      BY <1>5, <1>6, <1>10, <2>1, <3>1
    <3>3. t[p][1] = m /\ t[p][2] = i
      BY <3>2
    <3>4. p = len => m = Len(reqs)
      <4> SUFFICES ASSUME p = len PROVE m = Len(reqs)
        OBVIOUS
      <4>1. s # <<>> /\ p = Len(s)
        BY <1>1, <2>1
      <4>. QED  BY <4>1 DEF Stream
    <3> HIDE DEF m, i, k
    <3>5. \A q \in 1 .. k : p + q - i \in 1 .. Len(t) => t[p + q - i] = <<m, q>>
      <4> SUFFICES ASSUME NEW q \in 1 .. k, p + q - i \in 1 .. Len(t)
                   PROVE  t[p + q - i] = <<m, q>>
        OBVIOUS
      <4>1. i \in 1 .. k /\ p + k - i <= len
        BY <3>1
      <4>2. p + q - i <= len
        BY <1>1, <2>1, <3>2, <4>1
      <4>3. p + q - i \in 1 .. len
        BY <1>1, <1>3, <1>9, <4>2
      <4>. QED  BY <1>10, <3>1, <4>3
    <3>6. i = k /\ p < Len(t) => t[p + 1] = <<m + 1, 1>>
      <4>1. CASE p = len
        <5>1. t[len + 1] = <<n, 1>>
          BY <1>3, <1>11
        <5>. QED  BY <1>2, <3>4, <4>1, <5>1
      <4>2. CASE p < len
        <5>1. p + 1 \in 1 .. len
          BY <1>1, <2>1, <4>2
        <5>2. t[p + 1] = s[p + 1]
          BY <1>10, <5>1
        <5>. QED  BY <3>1, <4>2, <5>2
      <4>3. p = len \/ p < len
        BY <1>n, <2>1
      <4>. QED  BY <4>1, <4>2, <4>3
    <3>7. m \in 1 .. Len(more)
      BY <1>2, <1>5, <3>1
    <3>8. i \in 1 .. k /\ p + k - i <= len
      BY <3>1
    <3>9. p + k - i <= Len(t)
      BY <1>1, <1>3, <1>9, <2>1, <3>2, <3>8
    <3>10. Size(more[t[p][1]]) = k
      BY <3>2, <3>3 DEF k
    <3>. QED  BY <3>3, <3>5, <3>6, <3>7, <3>8, <3>9, <3>10
  <2>2. CASE p \notin 1 .. len
    <3> DEFINE i == p - len
    <3>1. i \in 1 .. z /\ p = len + i
      BY <1>1, <1>3, <1>9, <2>2
    <3> HIDE DEF i
    <3>2. t[p] = <<n, i>>
      BY <1>11, <3>1
    <3>3. t[p][1] = n /\ t[p][2] = i /\ Size(more[t[p][1]]) = z
      BY <1>3, <1>5, <3>2
    <3>4. n \in 1 .. Len(more)
      BY <1>2, <1>5
    <3>5. p + z - i <= Len(t) /\ ~(i = z /\ p < Len(t))
      BY <1>1, <1>3, <1>9, <3>1
    <3>6. \A q \in 1 .. z : t[p + q - i] = <<n, q>>
      <4> SUFFICES ASSUME NEW q \in 1 .. z PROVE t[p + q - i] = <<n, q>>
        OBVIOUS
      <4>1. p + q - i = len + q
        BY <1>1, <1>3, <3>1
      <4>. QED  BY <1>11, <4>1
    <3>. QED  BY <3>1, <3>3, <3>4, <3>5, <3>6
  <2>. QED  BY <2>1, <2>2
<1>13. t # <<>>
  BY <1>1, <1>3, <1>8, <1>9
<1>14. t[Len(t)][1] = Len(more)
  <2>1. t[len + z] = <<n, z>>
    BY <1>3, <1>11
  <2>. QED  BY <1>5, <1>9, <2>1
<1>15. t[1] = <<h + 1, 1>>
  <2>1. CASE s = <<>>
    <3>1. h = Len(reqs) /\ len = 0
      BY <1>1, <2>1 DEF Stream
    <3>2. t[len + 1] = <<n, 1>>
      BY <1>3, <1>11
    <3>. QED  BY <1>2, <3>1, <3>2
  <2>2. CASE s # <<>>
    <3>1. s[1] = <<h + 1, 1>>
      BY <2>2 DEF Stream
    <3>2. 1 \in 1 .. len
      BY <1>1, <2>2
    <3>. QED  BY <1>10, <3>1, <3>2
  <2>. QED  BY <2>1, <2>2
<1>16. Stream(t, more, h)
  BY <1>8, <1>12, <1>13, <1>14, <1>15 DEF Stream
<1>. QED  BY <1>16 DEF t, more, b, n

\* A request less.
LEMMA StreamDrop ==
  ASSUME NEW reqs \in Seq(RequestType), NEW h \in Nat, NEW s, Stream(s, reqs, h),
         s # <<>>
  PROVE  Stream(SubSeq(s, Size(reqs[h + 1]) + 1, Len(s)), reqs, h + 1)
<1> DEFINE z == Size(reqs[h + 1])
           t == SubSeq(s, z + 1, Len(s))
           len == Len(s)
           rest == len - z
<1>1. h + 1 \in 1 .. Len(reqs) /\ z \in 1 .. len /\ \A q \in 1 .. z : s[q] = <<h + 1, q>>
  BY StreamFirst
<1>2. s \in Seq(Nat \X Nat) /\ len \in Nat /\ len = Len(s)
  BY DEF Stream
<1>3. z \in Nat \ {0} /\ z = Size(reqs[h + 1])
  BY <1>1, SizePositive
<1>4. t = SubSeq(s, z + 1, len)
  OBVIOUS
<1>5. rest \in Nat /\ rest = len - z
  BY <1>1, <1>2
<1> HIDE DEF z, len, t, rest
<1>n. len \in Nat /\ z \in Nat /\ z > 0 /\ rest \in Nat /\ len = rest + z
  BY <1>1, <1>2, <1>3, <1>5
<1>6. t \in Seq(Nat \X Nat) /\ Len(t) = rest /\ \A p \in 1 .. rest : t[p] = s[p + z]
  <2>1. \A i \in z + 1 .. len : s[i] \in Nat \X Nat
    BY <1>2, <1>3
  <2>2. /\ SubSeq(s, z + 1, len) \in Seq(Nat \X Nat)
        /\ Len(SubSeq(s, z + 1, len)) = IF z + 1 <= len THEN len - (z + 1) + 1 ELSE 0
        /\ \A i \in 1 .. len - (z + 1) + 1 : SubSeq(s, z + 1, len)[i] = s[z + 1 + i - 1]
    <3>1. z + 1 \in Int /\ len \in Int
      BY <1>n
    <3>. QED  BY <2>1, <3>1, SubSeqProperties
  <2>3. len - (z + 1) + 1 = rest /\ (z + 1 <= len \/ rest = 0)
    BY <1>n
  <2>4. \A p \in 1 .. rest : z + 1 + p - 1 = p + z
    BY <1>3, <1>5
  <2>. QED  BY <1>4, <2>2, <2>3, <2>4
<1>7. ASSUME NEW p \in 1 .. Len(t)
      PROVE  /\ t[p][1] \in 1 .. Len(reqs)
             /\ t[p][2] \in 1 .. Size(reqs[t[p][1]])
             /\ p + Size(reqs[t[p][1]]) - t[p][2] <= Len(t)
             /\ \A q \in 1 .. Size(reqs[t[p][1]]) :
                  p + q - t[p][2] \in 1 .. Len(t) => t[p + q - t[p][2]] = <<t[p][1], q>>
             /\ t[p][2] = Size(reqs[t[p][1]]) /\ p < Len(t)
                  => t[p + 1] = <<t[p][1] + 1, 1>>
  <2> DEFINE m == s[p + z][1]
             i == s[p + z][2]
             k == Size(reqs[m])
  <2>1. p + z \in 1 .. len /\ p \in 1 .. rest
    BY <1>n, <1>6
  <2>2. /\ m \in 1 .. Len(reqs) /\ i \in 1 .. k
        /\ p + z + k - i <= len
        /\ \A q \in 1 .. k : p + z + q - i \in 1 .. len => s[p + z + q - i] = <<m, q>>
        /\ i = k /\ p + z < len => s[p + z + 1] = <<m + 1, 1>>
    BY <1>2, <2>1 DEF Stream
  <2>3. k \in Nat \ {0}
    BY <2>2, SizePositive
  <2>4. t[p][1] = m /\ t[p][2] = i /\ Size(reqs[t[p][1]]) = k
    BY <1>6, <2>1
  <2> HIDE DEF m, i, k
  <2>5. i \in 1 .. k /\ p + z + k - i <= len
    BY <2>2
  <2>6. p + k - i <= rest
    BY <1>n, <2>1, <2>3, <2>5
  <2>7. \A q \in 1 .. k : p + q - i \in 1 .. rest => t[p + q - i] = <<m, q>>
    <3> SUFFICES ASSUME NEW q \in 1 .. k, p + q - i \in 1 .. rest
                 PROVE  t[p + q - i] = <<m, q>>
      OBVIOUS
    <3>1. p + z + q - i \in 1 .. len /\ p + q - i + z = p + z + q - i
      BY <1>n, <2>1, <2>3, <2>5
    <3>2. t[p + q - i] = s[p + q - i + z]
      BY <1>6
    <3>. QED  BY <2>2, <3>1, <3>2
  <2>8. i = k /\ p < rest => t[p + 1] = <<m + 1, 1>>
    <3> SUFFICES ASSUME i = k, p < rest PROVE t[p + 1] = <<m + 1, 1>>
      OBVIOUS
    <3>1. p + z < len /\ p + 1 \in 1 .. rest /\ p + 1 + z = p + z + 1
      BY <1>n, <2>1
    <3>2. t[p + 1] = s[p + 1 + z]
      BY <1>6, <3>1
    <3>. QED  BY <2>2, <3>1, <3>2
  <2>9. m \in 1 .. Len(reqs) /\ Len(t) = rest
    BY <1>6, <2>2
  <2>. QED  BY <2>4, <2>5, <2>6, <2>7, <2>8, <2>9
<1>8. s[z][1] = h + 1 /\ s[z][2] = z /\ z \in 1 .. len
  BY <1>1, <1>3
<1>9. s[len][1] = Len(reqs)
  BY <1>2 DEF Stream
<1>10. CASE rest = 0
  <2>1. t = <<>> /\ z = len
    BY <1>2, <1>3, <1>5, <1>6, <1>10
  <2>2. h + 1 = Len(reqs)
    BY <1>8, <1>9, <2>1
  <2>3. Stream(t, reqs, h + 1)
    BY <1>6, <1>7, <2>1, <2>2 DEF Stream
  <2>. QED  BY <2>3 DEF t, z, len
<1>11. CASE rest # 0
  <2>0. z < len /\ 1 \in 1 .. rest /\ rest \in 1 .. rest /\ rest + z = len
    BY <1>n, <1>11
  <2>1. z < len /\ t # <<>> /\ 1 \in 1 .. rest /\ rest \in 1 .. rest /\ rest + z = len
    BY <1>6, <1>11, <2>0
  <2>2. s[z + 1] = <<h + 1 + 1, 1>>
    <3>1. s[z][2] = Size(reqs[s[z][1]])
      BY <1>3, <1>8
    <3>2. s[z + 1] = <<s[z][1] + 1, 1>>
      BY <1>2, <1>8, <2>1, <3>1 DEF Stream
    <3>. QED  BY <1>8, <3>2
  <2>3. t[1] = <<h + 1 + 1, 1>>
    <3>1. t[1] = s[1 + z] /\ 1 + z = z + 1
      BY <1>3, <1>6, <2>1
    <3>. QED  BY <2>2, <3>1
  <2>4. t[Len(t)] = s[len]
    BY <1>6, <2>1
  <2>5. Stream(t, reqs, h + 1)
    BY <1>6, <1>7, <1>9, <2>1, <2>3, <2>4 DEF Stream
  <2>. QED  BY <2>5 DEF t, z, len
<1>. QED  BY <1>10, <1>11

----------------------------------------------------------------------------
(* The connections. *)

Unit == Nat \X Nat
Reply == {"done", "bad request", "too large"}
ConnIn(states) ==
    [cli : Clients \union {None}, state : states,
     in : Seq(Unit), last_len : Nat, header_len : Nat, content_length : Nat,
     out : 0 .. OutCap, status : Reply \union {"none"}, close_after : BOOLEAN, stale : BOOLEAN]
ConnType == ConnIn({"closed", "headers", "body", "send"})

TableType == conns \in [Slots -> ConnType]
ClientType ==
    /\ sent \in [Clients -> Seq(RequestType)]
    /\ wire \in [Clients -> Seq(Unit)]
    /\ handled \in [Clients -> Seq(Seq(Unit))]
    /\ got \in [Clients -> Seq(Reply)]
    /\ link \in [Clients -> {"none", "queued", "open", "closed"}]
    /\ gone \subseteq Clients
    /\ \A c \in Clients : Len(sent[c]) <= MaxReq

(***************************************************************************)
(* A slot is free, or the connection of a client that has no other.        *)
(***************************************************************************)
SlotInv ==
    /\ \A k \in Slots : conns[k].cli = None => conns[k] = Free
    /\ \A k \in Slots : conns[k].cli # None => link[conns[k].cli] = "open"
    /\ \A j, k \in Slots : conns[j].cli = conns[k].cli /\ j # k => conns[k].cli = None

(***************************************************************************)
(* A client that is not connected yet waits on one listening socket, once, *)
(* and has exchanged nothing.                                              *)
(***************************************************************************)
Queues(b) ==
    /\ b \in [Listeners -> Seq(Clients)]
    /\ \A l, m \in Listeners :
         \A i \in 1 .. Len(b[l]), j \in 1 .. Len(b[m]) : b[l][i] = b[m][j] => l = m /\ i = j
Fresh(c) == sent[c] = <<>> /\ wire[c] = <<>> /\ handled[c] = <<>> /\ got[c] = <<>>
QueueInv ==
    /\ Queues(backlog)
    /\ \A l \in Listeners : \A i \in 1 .. Len(backlog[l]) : link[backlog[l][i]] = "queued"
    /\ \A c \in Clients : link[c] \in {"none", "queued"} => Fresh(c)

(***************************************************************************)
(* What a connection x has read and not used, with what is under way to it *)
(* (w), is the stream of the requests (reqs) of which h were handled; g    *)
(* replies have been written.  While a header is read no header ends in    *)
(* what was searched, while a body is read it is the body of the next      *)
(* request, and while a reply is sent it is the one to it.                 *)
(***************************************************************************)
Reading(x, reqs, w, h, g) ==
    /\ Stream(x.in \o w, reqs, h)
    /\ g = h
InHeaders(x, reqs) ==
    /\ Len(x.in) <= HdrCap
    /\ x.last_len <= Len(x.in)
    /\ \A i \in 1 .. x.last_len : x.in[i][2] # reqs[x.in[i][1]].hdr
Framed(x, r) ==
    /\ x.header_len = r.hdr
    /\ x.content_length = r.cl
    /\ Expected(r) = "done"
InBody(x, r) ==
    /\ x.in # <<>>
    /\ Framed(x, r)
    /\ Len(x.in) < Size(r)
Served(x, reqs, w, h, g) ==
    /\ x.status = "done"
    /\ h = g + 1 /\ h <= Len(reqs)
    /\ Stream(x.in \o w, reqs, g)
    /\ Framed(x, reqs[h])
    /\ Size(reqs[h]) <= Len(x.in)
    /\ Len(x.in) <= HdrCap + Size(reqs[h])
Refused(x, reqs, h, g) ==
    /\ x.status # "done"
    /\ x.close_after
    /\ g = h /\ h < Len(reqs)
    /\ x.status = Expected(reqs[h + 1])

Talk(x, reqs, w, h, g) ==
    /\ x.state = "headers" => Reading(x, reqs, w, h, g) /\ InHeaders(x, reqs)
    /\ x.state = "body" => Reading(x, reqs, w, h, g) /\ InBody(x, reqs[h + 1])
    /\ x.state = "send" =>
         /\ x.out \in 1 .. OutCap
         /\ Len(x.in) <= HdrCap + BodyCap
         /\ Served(x, reqs, w, h, g) \/ Refused(x, reqs, h, g)
    /\ x.state # "closed"

TalkInv ==
    \A k \in Slots : conns[k] # Free =>
        LET c == conns[k].cli
        IN  Talk(conns[k], sent[c], wire[c], Len(handled[c]), Len(got[c]))

\* The sizes of the arrays are naturals, and none of the buffers is empty.
LEMMA Sizes ==
  /\ HdrCap \in Nat /\ HdrCap > 0 /\ BodyCap \in Nat /\ BodyCap > 0
  /\ OutCap \in Nat /\ OutCap > 0 /\ MaxConns \in Nat
BY SizeAssumption

\* A free slot is a slot of the table, and nobody's.
LEMMA FreeTyped == Free \in ConnType /\ Free.cli = None
<1>1. <<>> \in Seq(Unit)
  OBVIOUS
<1>2. 0 \in 0 .. OutCap
  BY Sizes
<1>. QED  BY <1>1, <1>2 DEF Free, ConnType, ConnIn

\* A connection begins with an empty buffer, before any header.
LEMMA NewConnTyped ==
  ASSUME NEW c \in Clients
  PROVE  /\ NewConn(c) \in ConnType /\ NewConn(c).cli = c /\ NewConn(c) # Free
         /\ NewConn(c).state = "headers" /\ NewConn(c).in = <<>>
         /\ NewConn(c).last_len = 0
<1>1. c # None
  BY ListenAssumption
<1>2. <<>> \in Seq(Unit)
  OBVIOUS
<1>3. 0 \in 0 .. OutCap
  BY Sizes
<1>. QED  BY <1>1, <1>2, <1>3 DEF NewConn, Free, ConnType, ConnIn

\* A read moves units from the wire to the buffer: the stream is the same.
LEMMA ReadMoves ==
  ASSUME NEW u \in Seq(Unit), NEW w \in Seq(Unit), NEW n \in 1 .. Len(w)
  PROVE  LET v == u \o SubSeq(w, 1, n)
             w2 == SubSeq(w, n + 1, Len(w))
         IN  /\ v \in Seq(Unit) /\ w2 \in Seq(Unit)
             /\ Len(v) = Len(u) + n
             /\ \A i \in 1 .. Len(u) : v[i] = u[i]
             /\ v \o w2 = u \o w
<1> DEFINE a == SubSeq(w, 1, n)
           w2 == SubSeq(w, n + 1, Len(w))
<1>1. Len(w) \in Nat /\ n \in Nat /\ n > 0 /\ n <= Len(w) /\ Len(u) \in Nat
  OBVIOUS
<1>2. a \in Seq(Unit) /\ Len(a) = n
  <2>1. /\ a \in Seq(Unit)
        /\ Len(a) = IF 1 <= n THEN n - 1 + 1 ELSE 0
    <3>1. \A i \in 1 .. n : w[i] \in Unit
      BY <1>1
    <3>2. 1 \in Int /\ n \in Int
      BY <1>1
    <3>. QED  BY <3>1, <3>2, SubSeqProperties
  <2>. QED  BY <1>1, <2>1
<1>3. w2 \in Seq(Unit)
  <2>1. \A i \in n + 1 .. Len(w) : w[i] \in Unit
    BY <1>1
  <2>2. n + 1 \in Int /\ Len(w) \in Int
    BY <1>1
  <2>. QED  BY <2>1, <2>2, SubSeqProperties
<1>4. a \o w2 = w
  <2>1. CASE n = Len(w)
    <3>1. w2 = <<>>
      BY <1>1, <2>1, SubSeqEmpty
    <3>2. a = w
      BY <2>1, SubSeqFull
    <3>. QED  BY <3>1, <3>2, ConcatEmptySeq
  <2>2. CASE n < Len(w)
    <3>1. SubSeq(w, 1, n) \o SubSeq(w, n + 1, Len(w)) = SubSeq(w, 1, Len(w))
      BY <1>1, <2>2
    <3>. QED  BY <3>1, SubSeqFull
  <2>. QED  BY <1>1, <2>1, <2>2
<1> HIDE DEF a, w2
<1>5. (u \o a) \o w2 = u \o w
  <2>1. u \in Seq(Unit) /\ a \in Seq(Unit) /\ w2 \in Seq(Unit)
    BY <1>2, <1>3
  <2>2. (u \o a) \o w2 = u \o (a \o w2)
    BY <2>1, SMT
  <2>. QED  BY <1>4, <2>2
<1>6. /\ u \o a \in Seq(Unit) /\ Len(u \o a) = Len(u) + n
      /\ \A i \in 1 .. Len(u) + n : (u \o a)[i] = IF i <= Len(u) THEN u[i] ELSE a[i - Len(u)]
  BY <1>2, ConcatProperties
<1>7. \A i \in 1 .. Len(u) : i \in 1 .. Len(u) + n /\ i <= Len(u)
  BY <1>1
<1>8. \A i \in 1 .. Len(u) : (u \o a)[i] = u[i]
  BY <1>6, <1>7
<1>. QED  BY <1>3, <1>5, <1>6, <1>8 DEF a, w2

\* A buffer that is not empty begins with the request to come.
LEMMA BufferFirst ==
  ASSUME NEW reqs \in Seq(RequestType), NEW h \in Nat, NEW u \in Seq(Unit),
         NEW w \in Seq(Unit), Stream(u \o w, reqs, h), u # <<>>
  PROVE  /\ h + 1 \in 1 .. Len(reqs) /\ reqs[h + 1] \in RequestType
         /\ u[1][1] = h + 1 /\ u[1][2] = 1
         /\ \A i \in 1 .. Len(u) : i <= Size(reqs[h + 1]) => u[i] = <<h + 1, i>>
<1> DEFINE s == u \o w
           z == Size(reqs[h + 1])
<1>1. Len(u) \in Nat /\ Len(u) > 0 /\ Len(w) \in Nat
  OBVIOUS
<1>2. /\ Len(s) = Len(u) + Len(w)
      /\ \A i \in 1 .. Len(u) + Len(w) : s[i] = IF i <= Len(u) THEN u[i] ELSE w[i - Len(u)]
  BY ConcatProperties
<1>3. \A i \in 1 .. Len(u) : i \in 1 .. Len(u) + Len(w) /\ i <= Len(u)
  BY <1>1
<1>4. \A i \in 1 .. Len(u) : s[i] = u[i]
  BY <1>2, <1>3
<1>5. s # <<>>
  BY <1>1, <1>2
<1> HIDE DEF s
<1>6. Stream(s, reqs, h)
  BY DEF s
<1>7. h + 1 \in 1 .. Len(reqs) /\ z \in 1 .. Len(s) /\ \A q \in 1 .. z : s[q] = <<h + 1, q>>
  BY <1>5, <1>6, StreamFirst
<1>8. reqs[h + 1] \in RequestType
  BY <1>7
<1>9. z \in Nat /\ z > 0
  BY <1>8, SizePositive
<1> HIDE DEF z
<1>10. \A i \in 1 .. Len(u) : i <= z => i \in 1 .. z
  BY <1>1, <1>9
<1>11. \A i \in 1 .. Len(u) : i <= z => u[i] = <<h + 1, i>>
  BY <1>4, <1>7, <1>10
<1>12. u[1] = <<h + 1, 1>>
  <2>1. 1 \in 1 .. Len(u) /\ 1 <= z
    BY <1>1, <1>9
  <2>. QED  BY <1>11, <2>1
<1>. QED  BY <1>7, <1>8, <1>11, <1>12 DEF z

----------------------------------------------------------------------------
(* Parsing: x is what conn_do_recv has read into, of client c. *)

\* A header that is in the buffer ends where it ends; one that is not all there
\* has no end, and is longer than the buffer.
LEMMA HeaderEnd ==
  ASSUME NEW c \in Clients, NEW x, x.in \in Seq(Unit), x.in # <<>>, x.last_len \in Nat,
         NEW h \in Nat, NEW w \in Seq(Unit), sent[c] \in Seq(RequestType),
         Stream(x.in \o w, sent[c], h),
         \A i \in 1 .. x.last_len : x.in[i][2] # sent[c][x.in[i][1]].hdr
  PROVE  LET hdr == sent[c][h + 1].hdr
         IN  /\ HeaderEnds(c, x) = {} => hdr > Len(x.in)
             /\ HeaderEnds(c, x) # {} =>
                  /\ hdr <= Len(x.in)
                  /\ hdr = CHOOSE i \in HeaderEnds(c, x) : \A j \in HeaderEnds(c, x) : i <= j
             /\ HeaderEnds(c, x) = {} =>
                  \A i \in 1 .. Len(x.in) : x.in[i][2] # sent[c][x.in[i][1]].hdr
<1> DEFINE u == x.in
           reqs == sent[c]
           r == reqs[h + 1]
           hdr == r.hdr
           E == HeaderEnds(c, x)
           len == Len(u)
           last == x.last_len
<1>1. /\ h + 1 \in 1 .. Len(reqs) /\ r \in RequestType
      /\ \A i \in 1 .. Len(u) : i <= Size(r) => u[i] = <<h + 1, i>>
  BY BufferFirst
<1>2. hdr \in Nat /\ hdr > 0 /\ hdr <= Size(r) /\ Size(r) \in Nat
  BY <1>1, SizePositive
<1>3. len \in Nat /\ last \in Nat
  OBVIOUS
<1>4. E = {i \in last + 1 .. len : u[i][2] = reqs[u[i][1]].hdr}
  BY DEF HeaderEnds
<1>5. \A i \in 1 .. len : i <= hdr =>
        /\ u[i][2] = i
        /\ reqs[u[i][1]].hdr = hdr
  <2>1. \A i \in 1 .. len : i <= hdr => u[i] = <<h + 1, i>>
    BY <1>1, <1>2, <1>3
  <2>. QED  BY <2>1
<1>6. \A i \in 1 .. last : u[i][2] # reqs[u[i][1]].hdr
  OBVIOUS
<1>u. u = x.in /\ reqs = sent[c] /\ hdr = reqs[h + 1].hdr /\ len = Len(x.in) /\ E = HeaderEnds(c, x)
  OBVIOUS
<1> HIDE DEF u, reqs, hdr, E, len, last
<1>7. \A i \in 1 .. len : i < hdr => u[i][2] # reqs[u[i][1]].hdr
  <2> SUFFICES ASSUME NEW i \in 1 .. len, i < hdr PROVE u[i][2] # reqs[u[i][1]].hdr
    OBVIOUS
  <2>1. i <= hdr /\ i # hdr
    BY <1>2, <1>3
  <2>. QED  BY <1>5, <2>1
<1>8. CASE hdr > len
  <2>1. \A i \in 1 .. len : u[i][2] # reqs[u[i][1]].hdr
    BY <1>2, <1>3, <1>7, <1>8
  <2>2. \A i \in last + 1 .. len : i \in 1 .. len
    BY <1>3
  <2>3. E = {}
    BY <1>4, <2>1, <2>2
  <2>. QED  BY <1>u, <1>8, <2>1, <2>3
<1>9. CASE hdr <= len
  <2>1. hdr \in 1 .. len
    BY <1>2, <1>3, <1>9
  <2>2. u[hdr][2] = reqs[u[hdr][1]].hdr
    BY <1>2, <1>5, <2>1
  <2>3. hdr \notin 1 .. last
    BY <1>6, <2>2
  <2>4. hdr \in last + 1 .. len
    BY <1>2, <1>3, <2>1, <2>3
  <2>5. hdr \in E
    BY <1>4, <2>2, <2>4
  <2>6. \A j \in E : j \in Nat /\ hdr <= j
    <3> SUFFICES ASSUME NEW j \in E PROVE j \in Nat /\ hdr <= j
      OBVIOUS
    <3>1. j \in last + 1 .. len /\ u[j][2] = reqs[u[j][1]].hdr
      BY <1>4
    <3>2. j \in 1 .. len
      BY <1>3, <3>1
    <3>3. ~(j < hdr)
      BY <1>7, <3>1, <3>2
    <3>. QED  BY <1>2, <1>3, <3>2, <3>3
  <2>7. \A i \in E : (\A j \in E : i <= j) => i = hdr
    BY <1>2, <2>5, <2>6
  <2>8. hdr = CHOOSE i \in E : \A j \in E : i <= j
    BY <2>5, <2>6, <2>7
  <2>. QED  BY <1>u, <1>9, <2>5, <2>8
<1>. QED  BY <1>2, <1>3, <1>8, <1>9

\* What is known of a request's sizes and flags.
LEMMA RequestFacts ==
  ASSUME NEW r \in RequestType
  PROVE  /\ r.hdr \in Nat /\ r.hdr > 0 /\ r.cl \in Nat /\ r.reply \in Nat /\ r.reply > 0
         /\ r.ok \in BOOLEAN /\ r.close \in BOOLEAN
         /\ Size(r) \in Nat /\ Size(r) > 0 /\ Size(r) = r.hdr + r.cl
<1>1. r.hdr \in Nat \ {0} /\ r.cl \in Nat /\ r.reply \in Nat \ {0}
  BY DEF RequestType
<1>2. r.ok \in BOOLEAN /\ r.close \in BOOLEAN
  BY DEF RequestType
<1>3. Size(r) = r.hdr + r.cl
  BY DEF Size
<1>4. \A a \in Nat \ {0} : a \in Nat /\ a > 0
  OBVIOUS
<1>5. Size(r) \in Nat \ {0}
  BY SizePositive
<1>. QED  BY <1>1, <1>2, <1>3, <1>4, <1>5

\* A request that is complete, about to be given to its handler.
Ready(y, c, w, h) ==
    /\ y \in ConnIn({"dispatch"})
    /\ y.cli = c
    /\ Stream(y.in \o w, sent[c], h)
    /\ y.in # <<>>
    /\ Framed(y, sent[c][h + 1])
    /\ Size(sent[c][h + 1]) <= Len(y.in)
    /\ Len(y.in) <= HdrCap + Size(sent[c][h + 1])
    /\ Len(y.in) <= HdrCap + BodyCap

\* A connection that goes on, or is closed.
GoesOn(y, c, w, h, g) ==
    \/ y = Free
    \/ y \in ConnType /\ y.cli = c /\ Talk(y, sent[c], w, h, g)

\* A reply that is begun has the connection send, and leaves its buffer alone.
LEMMA Replies ==
  ASSUME NEW S, NEW x \in ConnIn(S), NEW status \in Reply, NEW size \in Nat, size > 0,
         NEW close \in BOOLEAN, NEW y, y = http_reply_or_close(x, status, size, close),
         y # Free
  PROVE  /\ y \in ConnType
         /\ y.cli = x.cli /\ y.in = x.in /\ y.state = "send"
         /\ y.header_len = x.header_len /\ y.content_length = x.content_length
         /\ y.out \in 1 .. OutCap /\ y.status = status /\ y.close_after = close
<1>1. y = [x EXCEPT !.state = "send", !.out = size, !.status = status,
                    !.close_after = close]
  BY DEF http_reply_or_close
<1>2. size \in 1 .. OutCap
  <2>1. ~(size > OutCap)
    BY DEF http_reply_or_close
  <2>. QED  BY <2>1, Sizes
<1>3. /\ y \in ConnType
      /\ y.cli = x.cli /\ y.in = x.in /\ y.state = "send"
      /\ y.header_len = x.header_len /\ y.content_length = x.content_length
      /\ y.out = size /\ y.status = status /\ y.close_after = close
  <2>1. size \in 0 .. OutCap
    BY <1>2, Sizes
  <2>. QED  BY <1>1, <2>1 DEF ConnType, ConnIn
<1>. QED  BY <1>2, <1>3

\* A refusal of the request to come.
LEMMA Refuses ==
  ASSUME NEW S, NEW x \in ConnIn(S), NEW status \in Reply \ {"done"}, NEW c \in Clients,
         x.cli = c, NEW w, NEW h \in Nat, h + 1 \in 1 .. Len(sent[c]),
         Len(x.in) <= HdrCap + BodyCap, status = Expected(sent[c][h + 1]),
         sent[c] \in Seq(RequestType)
  PROVE  GoesOn(http_reply_or_close(x, status, 1, TRUE), c, w, h, h)
<1> DEFINE y == http_reply_or_close(x, status, 1, TRUE)
<1>1. CASE y = Free
  BY <1>1 DEF GoesOn
<1>2. CASE y # Free
  <2>1. /\ y \in ConnType
        /\ y.cli = c /\ y.in = x.in /\ y.state = "send"
        /\ y.out \in 1 .. OutCap /\ y.status = status /\ y.close_after = TRUE
    <3> DEFINE yes == TRUE
    <3>1. y = http_reply_or_close(x, status, 1, yes) /\ status \in Reply
      OBVIOUS
    <3>2. 1 \in Nat /\ 1 > 0 /\ yes \in BOOLEAN
      OBVIOUS
    <3> HIDE DEF y, yes
    <3>3. /\ y \in ConnType
          /\ y.cli = x.cli /\ y.in = x.in /\ y.state = "send"
          /\ y.out \in 1 .. OutCap /\ y.status = status /\ y.close_after = yes
      BY <1>2, <3>1, <3>2, Replies
    <3>. QED  BY <3>3 DEF yes
  <2>2. h < Len(sent[c])
    OBVIOUS
  <2> HIDE DEF y
  <2>3. Refused(y, sent[c], h, h)
    BY <2>1, <2>2 DEF Refused
  <2>4. Talk(y, sent[c], w, h, h)
    BY <2>1, <2>3 DEF Talk
  <2>. QED  BY <2>1, <2>4 DEF GoesOn, y
<1>. QED  BY <1>1, <1>2

\* A header is complete, and its request is answered or its body awaited, or it is
\* refused, or more of it is awaited.
LEMMA Parsed ==
  ASSUME NEW c \in Clients, NEW x \in ConnType, x.cli = c, x.state = "headers",
         x.in # <<>>, NEW w \in Seq(Unit), NEW h \in Nat, sent[c] \in Seq(RequestType),
         Stream(x.in \o w, sent[c], h), InHeaders(x, sent[c])
  PROVE  Ready(parse_headers(c, x), c, w, h) \/ GoesOn(parse_headers(c, x), c, w, h, h)
<1> DEFINE r == sent[c][h + 1]
           len == Len(x.in)
           E == HeaderEnds(c, x)
           end == CHOOSE i \in E : \A j \in E : i <= j
           y == [x EXCEPT !.last_len = len, !.header_len = end, !.content_length = r.cl]
           z == parse_headers(c, x)
<1>1. /\ x.in \in Seq(Unit) /\ x.last_len \in Nat /\ len \in Nat
      /\ len <= HdrCap /\ len <= HdrCap + BodyCap
  BY Sizes DEF ConnType, ConnIn, InHeaders
<1>2. /\ h + 1 \in 1 .. Len(sent[c]) /\ r \in RequestType
      /\ x.in[1][1] = h + 1 /\ x.in[1][2] = 1
  BY <1>1, BufferFirst
<1>3. Current(c, x) = r
  BY <1>2 DEF Current
<1>4. /\ r.hdr \in Nat /\ r.hdr > 0 /\ r.cl \in Nat /\ r.ok \in BOOLEAN
      /\ Size(r) \in Nat /\ Size(r) = r.hdr + r.cl
  BY <1>2, RequestFacts
<1>5. /\ E = {} => r.hdr > len
      /\ E # {} => r.hdr <= len /\ r.hdr = end
      /\ E = {} => \A i \in 1 .. len : x.in[i][2] # sent[c][x.in[i][1]].hdr
  BY <1>1, HeaderEnd DEF InHeaders
<1>6. CASE E = {} /\ len >= HdrCap
  <2>1. z = http_reply_or_close(x, "bad request", 1, TRUE)
    BY <1>6 DEF parse_headers, BadRequest
  <2>2. Expected(r) = "bad request"
    BY <1>1, <1>4, <1>5, <1>6, Sizes DEF Expected
  <2>3. x \in ConnIn({"closed", "headers", "body", "send"})
    BY DEF ConnType
  <2>4. GoesOn(http_reply_or_close(x, "bad request", 1, TRUE), c, w, h, h)
    BY <1>1, <1>2, <2>2, <2>3, Refuses DEF Reply
  <2>. QED  BY <2>1, <2>4
<1>7. CASE E = {} /\ ~(len >= HdrCap)
  <2> DEFINE v == [x EXCEPT !.last_len = len]
  <2>1. z = v
    BY <1>7 DEF parse_headers
  <2>2. v \in ConnType /\ v.cli = c /\ v.state = "headers" /\ v.in = x.in /\ v.last_len = len
    BY <1>1 DEF ConnType, ConnIn
  <2> HIDE DEF v
  <2>3. InHeaders(v, sent[c])
    BY <1>1, <1>5, <1>7, <2>2 DEF InHeaders
  <2>4. Talk(v, sent[c], w, h, h)
    BY <2>2, <2>3 DEF Talk, Reading
  <2>5. GoesOn(v, c, w, h, h)
    BY <2>2, <2>4 DEF GoesOn
  <2>. QED  BY <2>1, <2>5
<1>8. CASE E # {}
  <2>1. /\ ~r.ok => z = BadRequest(x)
        /\ r.ok /\ r.cl > BodyCap => z = http_reply_or_close(y, "too large", 1, TRUE)
        /\ r.ok /\ ~(r.cl > BodyCap) =>
             z = [y EXCEPT !.state = IF len >= end + r.cl THEN "dispatch" ELSE "body"]
    <3>1. parse_headers(c, x) =
            LET e == CHOOSE i \in HeaderEnds(c, x) : \A j \in HeaderEnds(c, x) : i <= j
                v == [x EXCEPT !.last_len = Len(x.in), !.header_len = e,
                               !.content_length = Current(c, x).cl]
            IN  IF x.in[1][2] # 1 \/ ~Current(c, x).ok THEN BadRequest(x)
                ELSE IF Current(c, x).cl > BodyCap
                THEN http_reply_or_close(v, "too large", 1, TRUE)
                ELSE [v EXCEPT !.state = IF Len(x.in) >= e + Current(c, x).cl
                                         THEN "dispatch" ELSE "body"]
      BY <1>8, Zenon DEF parse_headers
    <3>2. z = IF x.in[1][2] # 1 \/ ~r.ok THEN BadRequest(x)
              ELSE IF r.cl > BodyCap
              THEN http_reply_or_close(y, "too large", 1, TRUE)
              ELSE [y EXCEPT !.state = IF len >= end + r.cl THEN "dispatch" ELSE "body"]
      BY <1>3, <3>1, Zenon
    <3> HIDE DEF z, y
    <3>. QED  BY <1>2, <3>2, Zenon
  <2> HIDE DEF end, E
  <2>2. end = r.hdr /\ r.hdr <= len /\ r.hdr <= HdrCap
    <3> HIDE DEF r, len
    <3>. QED  BY <1>1, <1>4, <1>5, <1>8, Sizes
  <2>3. /\ y \in ConnIn({"closed", "headers", "body", "send"})
        /\ y.cli = c /\ y.in = x.in /\ y.header_len = r.hdr /\ y.content_length = r.cl
    BY <1>1, <1>4, <2>2 DEF ConnType, ConnIn
  <2>4. CASE ~r.ok
    <3>1. Expected(r) = "bad request"
      BY <2>4 DEF Expected
    <3>2. x \in ConnIn({"closed", "headers", "body", "send"})
      BY DEF ConnType
    <3>3. GoesOn(http_reply_or_close(x, "bad request", 1, TRUE), c, w, h, h)
      BY <1>1, <1>2, <3>1, <3>2, Refuses DEF Reply
    <3>. QED  BY <2>1, <2>4, <3>3 DEF BadRequest
  <2>5. CASE r.ok /\ r.cl > BodyCap
    <3>1. Expected(r) = "too large"
      BY <1>4, <2>2, <2>5, Sizes DEF Expected
    <3> HIDE DEF y
    <3>2. GoesOn(http_reply_or_close(y, "too large", 1, TRUE), c, w, h, h)
      BY <1>1, <1>2, <2>3, <3>1, Refuses DEF Reply
    <3>. QED  BY <2>1, <2>5, <3>2
  <2>6. CASE r.ok /\ ~(r.cl > BodyCap)
    <3>1. Expected(r) = "done"
      BY <1>4, <2>2, <2>6, Sizes DEF Expected
    <3> DEFINE st == IF len >= end + r.cl THEN "dispatch" ELSE "body"
               v == [y EXCEPT !.state = st]
    <3>2. z = v
      BY <2>1, <2>6
    <3> HIDE DEF y
    <3>3. /\ v \in ConnIn({st})
          /\ v.cli = c /\ v.in = x.in /\ v.header_len = r.hdr /\ v.content_length = r.cl
          /\ v.state = st
      <4> HIDE DEF st
      <4>. QED  BY <2>3 DEF ConnIn
    <3> HIDE DEF v
    <3>4. Framed(v, r)
      BY <3>1, <3>3 DEF Framed
    <3>5. CASE len >= end + r.cl
      <4>1. Size(r) <= len /\ len <= HdrCap + Size(r)
        BY <1>1, <1>4, <2>2, <3>5, Sizes
      <4>2. Ready(v, c, w, h)
        BY <1>1, <3>3, <3>4, <3>5, <4>1 DEF Ready
      <4>. QED  BY <3>2, <4>2
    <3>6. CASE ~(len >= end + r.cl)
      <4>1. len < Size(r)
        BY <1>1, <1>4, <2>2, <3>6
      <4>2. v \in ConnType /\ v.state = "body"
        BY <3>3, <3>6 DEF ConnType, ConnIn
      <4>3. InBody(v, r)
        BY <3>3, <3>4, <4>1 DEF InBody
      <4>4. Talk(v, sent[c], w, h, h)
        BY <3>3, <4>2, <4>3 DEF Talk, Reading
      <4>. QED  BY <3>2, <3>3, <4>2, <4>4 DEF GoesOn
    <3>. QED  BY <3>5, <3>6
  <2>. QED  BY <2>4, <2>5, <2>6
<1>. QED  BY <1>6, <1>7, <1>8

\* A body is complete and its request is answered, or more of it is awaited.
LEMMA BodyParsed ==
  ASSUME NEW c \in Clients, NEW x \in ConnType, x.cli = c, x.state = "body",
         x.in # <<>>, NEW w \in Seq(Unit), NEW h \in Nat, sent[c] \in Seq(RequestType),
         Stream(x.in \o w, sent[c], h), Framed(x, sent[c][h + 1]),
         Len(x.in) <= Size(sent[c][h + 1])
  PROVE  Ready(BodyRead(x), c, w, h) \/ GoesOn(BodyRead(x), c, w, h, h)
<1> DEFINE r == sent[c][h + 1]
           len == Len(x.in)
<1>1. x.in \in Seq(Unit) /\ len \in Nat
  BY DEF ConnType, ConnIn
<1>2. r \in RequestType
  BY <1>1, BufferFirst
<1>3. r.hdr \in Nat /\ r.cl \in Nat /\ Size(r) \in Nat /\ Size(r) = r.hdr + r.cl
  BY <1>2, RequestFacts
<1>4. r.cl <= BodyCap /\ r.hdr <= HdrCap
  BY <1>3, Sizes DEF Framed, Expected
<1>5. CASE len >= Size(r)
  <2> DEFINE v == [x EXCEPT !.state = "dispatch"]
  <2>1. BodyRead(x) = v
    BY <1>3, <1>5 DEF BodyRead, Framed
  <2>2. /\ v \in ConnIn({"dispatch"})
        /\ v.cli = c /\ v.in = x.in /\ v.header_len = x.header_len
        /\ v.content_length = x.content_length
    BY DEF ConnType, ConnIn
  <2> HIDE DEF v
  <2>3. Size(r) <= len /\ len <= HdrCap + Size(r) /\ len <= HdrCap + BodyCap
    <3>1. len <= Size(r)
      OBVIOUS
    <3> HIDE DEF r, len
    <3>. QED  BY <1>1, <1>3, <1>4, <1>5, <3>1, Sizes
  <2>4. Framed(v, r)
    BY <2>2 DEF Framed
  <2>5. Ready(v, c, w, h)
    BY <2>2, <2>3, <2>4 DEF Ready
  <2>. QED  BY <2>1, <2>5
<1>6. CASE ~(len >= Size(r))
  <2>1. BodyRead(x) = x /\ len < Size(r)
    BY <1>1, <1>3, <1>6 DEF BodyRead, Framed
  <2>2. Talk(x, sent[c], w, h, h)
    BY <2>1 DEF Talk, Reading, InBody
  <2>. QED  BY <2>1, <2>2 DEF GoesOn
<1>. QED  BY <1>5, <1>6

\* The handler is given the client's next request, and its reply is the next.
LEMMA HandlerServes ==
  ASSUME NEW c \in Clients, NEW y, NEW w \in Seq(Unit), NEW h \in Nat,
         sent[c] \in Seq(RequestType), Ready(y, c, w, h)
  PROVE  /\ h + 1 \in 1 .. Len(sent[c])
         /\ SubSeq(y.in, 1, y.header_len + y.content_length) = Units(c, h + 1)
         /\ Units(c, h + 1) \in Seq(Unit)
         /\ GoesOn(handle_request(c, y), c, w, h + 1, h)
<1> DEFINE r == sent[c][h + 1]
           z == Size(r)
           len == Len(y.in)
           n == h + 1
<1>1. /\ y \in ConnIn({"dispatch"}) /\ y.cli = c /\ y.in \in Seq(Unit) /\ y.in # <<>>
      /\ Stream(y.in \o w, sent[c], h) /\ len \in Nat
      /\ z <= len /\ len <= HdrCap + z /\ len <= HdrCap + BodyCap
      /\ y.header_len = r.hdr /\ y.content_length = r.cl /\ Expected(r) = "done"
  BY DEF Ready, ConnIn, Framed
<1>2. /\ n \in 1 .. Len(sent[c]) /\ r \in RequestType /\ y.in[1][1] = n
      /\ \A i \in 1 .. len : i <= z => y.in[i] = <<n, i>>
  BY <1>1, BufferFirst
<1>3. r.hdr \in Nat /\ r.cl \in Nat /\ z = r.hdr + r.cl /\ z \in Nat /\ z > 0
      /\ r.reply \in Nat /\ r.reply > 0 /\ r.close \in BOOLEAN
  BY <1>2, RequestFacts
<1>4. Units(c, n) = Block(n, r) /\ n \in Nat
  BY <1>2 DEF Units, Block, Size
<1>5. SubSeq(y.in, 1, z) = Units(c, n) /\ Units(c, n) \in Seq(Unit)
  <2>1. /\ Units(c, n) \in Seq(Unit) /\ Len(Units(c, n)) = z
        /\ \A i \in 1 .. z : Units(c, n)[i] = <<n, i>>
    <3> HIDE DEF n, r
    <3>1. r \in RequestType /\ n \in Nat
      BY <1>2, <1>4
    <3>2. /\ Block(n, r) \in Seq(Unit) /\ Len(Block(n, r)) = Size(r)
          /\ \A i \in 1 .. Size(r) : Block(n, r)[i] = <<n, i>>
      BY <3>1, BlockUnits, Zenon DEF Unit
    <3>. QED  BY <1>4, <3>2
  <2> HIDE DEF z, n, len
  <2>2. z <= len /\ len \in Nat /\ z \in Nat /\ z > 0 /\ len = Len(y.in)
    BY <1>1, <1>3 DEF len
  <2>3. \A i \in 1 .. z : i \in 1 .. len /\ i <= z
    BY <2>2
  <2>4. \A i \in 1 .. z : y.in[i] = <<n, i>>
    BY <1>2, <2>3
  <2>5. \A i \in 1 .. z : y.in[i] \in Unit
    BY <1>1, <2>2, <2>3
  <2>6. /\ SubSeq(y.in, 1, z) \in Seq(Unit)
        /\ Len(SubSeq(y.in, 1, z)) = z
        /\ \A i \in 1 .. z : SubSeq(y.in, 1, z)[i] = y.in[i]
    <3>1. 1 \in Int /\ z \in Int
      BY <2>2
    <3>2. /\ SubSeq(y.in, 1, z) \in Seq(Unit)
          /\ Len(SubSeq(y.in, 1, z)) = IF 1 <= z THEN z - 1 + 1 ELSE 0
          /\ \A i \in 1 .. z - 1 + 1 : SubSeq(y.in, 1, z)[i] = y.in[1 + i - 1]
      BY <2>5, <3>1, SubSeqProperties
    <3>3. z - 1 + 1 = z /\ 1 <= z /\ \A i \in 1 .. z : 1 + i - 1 = i
      BY <2>2
    <3>. QED  BY <3>2, <3>3
  <2> DEFINE a == SubSeq(y.in, 1, z)
             b == Units(c, n)
  <2>7. /\ a \in Seq(Unit) /\ b \in Seq(Unit) /\ Len(a) = z /\ Len(b) = z
        /\ \A i \in 1 .. z : a[i] = b[i]
    BY <2>1, <2>4, <2>6
  <2> HIDE DEF a, b
  <2>8. a = b
    BY <2>7, SeqEqual
  <2>. QED  BY <2>1, <2>8 DEF a, b
<1>6. SubSeq(y.in, 1, y.header_len + y.content_length) = Units(c, n)
  BY <1>1, <1>3, <1>5
<1> DEFINE v == http_reply_or_close(y, "done", r.reply, r.close)
<1>7. handle_request(c, y) = v
  BY <1>2 DEF handle_request, Current
<1>8. CASE v = Free
  BY <1>2, <1>5, <1>6, <1>7, <1>8 DEF GoesOn
<1>9. CASE v # Free
  <2>1. /\ v \in ConnType
        /\ v.cli = y.cli /\ v.in = y.in /\ v.state = "send"
        /\ v.header_len = y.header_len /\ v.content_length = y.content_length
        /\ v.out \in 1 .. OutCap /\ v.status = "done"
    <3>1. v = http_reply_or_close(y, "done", r.reply, r.close) /\ "done" \in Reply
      BY DEF Reply
    <3> HIDE DEF v
    <3>. QED  BY <1>1, <1>3, <1>9, <3>1, Replies
  <2>2. h + 1 <= Len(sent[c])
    BY <1>2
  <2> HIDE DEF v
  <2>3. Served(v, sent[c], w, h + 1, h)
    BY <1>1, <2>1, <2>2 DEF Served, Framed
  <2>4. Talk(v, sent[c], w, h + 1, h)
    BY <1>1, <2>1, <2>3 DEF Talk
  <2>. QED  BY <1>1, <1>2, <1>5, <1>6, <1>7, <2>1, <2>4 DEF GoesOn
<1>. QED  BY <1>8, <1>9

----------------------------------------------------------------------------
(* A slice of one connection. *)

Core == TableType /\ ClientType /\ SlotInv /\ QueueInv /\ TalkInv

\* The connection of a slot in use.
LEMMA InUse ==
  ASSUME Core, NEW k \in Slots, conns[k] # Free
  PROVE  LET c == conns[k].cli
         IN  /\ conns[k] \in ConnType /\ c \in Clients /\ c # None
             /\ link[c] = "open"
             /\ \A j \in Slots : j # k => conns[j].cli # c
             /\ Talk(conns[k], sent[c], wire[c], Len(handled[c]), Len(got[c]))
             /\ sent[c] \in Seq(RequestType) /\ wire[c] \in Seq(Unit)
             /\ handled[c] \in Seq(Seq(Unit)) /\ got[c] \in Seq(Reply)
             /\ Len(handled[c]) \in Nat /\ Len(got[c]) \in Nat
<1> DEFINE c == conns[k].cli
<1>1. conns[k] \in ConnType
  BY DEF Core, TableType
<1>2. c # None
  BY DEF Core, SlotInv
<1>3. c \in Clients
  BY <1>1, <1>2 DEF ConnType, ConnIn
<1>4. link[c] = "open" /\ \A j \in Slots : j # k => conns[j].cli # c
  BY <1>2 DEF Core, SlotInv
<1>5. Talk(conns[k], sent[c], wire[c], Len(handled[c]), Len(got[c]))
  BY DEF Core, TalkInv
<1>6. /\ sent[c] \in Seq(RequestType) /\ wire[c] \in Seq(Unit)
      /\ handled[c] \in Seq(Seq(Unit)) /\ got[c] \in Seq(Reply)
  BY <1>3 DEF Core, ClientType
<1>7. Len(handled[c]) \in Nat /\ Len(got[c]) \in Nat
  BY <1>6
<1>. QED  BY <1>1, <1>2, <1>3, <1>4, <1>5, <1>6, <1>7

\* Slot k becomes x; the other clients are left alone.
LEMMA Becoming ==
  ASSUME Core, NEW k \in Slots, conns[k] # Free, NEW c, c = conns[k].cli,
         NEW x, NEW n \in Nat, Becomes(k, x, n), UNCHANGED <<backlog, sent>>,
         handled' \in [Clients -> Seq(Seq(Unit))], got' \in [Clients -> Seq(Reply)],
         \A d \in Clients : d # c => handled'[d] = handled[d] /\ got'[d] = got[d],
         SubSeq(wire[c], n + 1, Len(wire[c])) \in Seq(Unit),
         GoesOn(x, c, SubSeq(wire[c], n + 1, Len(wire[c])), Len(handled'[c]), Len(got'[c]))
  PROVE  Core'
<1>1. /\ c \in Clients /\ c # None /\ link[c] = "open"
      /\ \A j \in Slots : j # k => conns[j].cli # c
  BY InUse
<1>2. /\ conns \in [Slots -> ConnType]
      /\ sent \in [Clients -> Seq(RequestType)] /\ wire \in [Clients -> Seq(Unit)]
      /\ link \in [Clients -> {"none", "queued", "open", "closed"}] /\ gone \subseteq Clients
      /\ \A d \in Clients : Len(sent[d]) <= MaxReq
  BY DEF Core, TableType, ClientType
<1>3. /\ conns' = [conns EXCEPT ![k] = x]
      /\ link' = IF x = Free THEN [link EXCEPT ![c] = "closed"] ELSE link
      /\ wire' = [wire EXCEPT ![c] = IF x = Free THEN <<>>
                                     ELSE SubSeq(wire[c], n + 1, Len(wire[c]))]
      /\ gone' = IF x = Free THEN gone \ {c} ELSE gone
  BY DEF Becomes
<1>4. x \in ConnType /\ (x = Free \/ x.cli = c)
  BY FreeTyped DEF GoesOn
<1>5. conns' \in [Slots -> ConnType]
  BY <1>2, <1>3, <1>4
<1>6. wire' \in [Clients -> Seq(Unit)]
  <2>1. <<>> \in Seq(Unit)
    OBVIOUS
  <2>. QED  BY <1>2, <1>3, <2>1
<1>7. link' \in [Clients -> {"none", "queued", "open", "closed"}] /\ gone' \subseteq Clients
  BY <1>2, <1>3
<1>8. TableType' /\ ClientType'
  BY <1>2, <1>5, <1>6, <1>7 DEF TableType, ClientType
<1>9. \A d \in Clients : d # c => link'[d] = link[d] /\ wire'[d] = wire[d]
  BY <1>1, <1>2, <1>3
<1>10. link'[c] = IF x = Free THEN "closed" ELSE "open"
  BY <1>1, <1>2, <1>3
<1>11. conns'[k] = x /\ \A j \in Slots : j # k => conns'[j] = conns[j]
  BY <1>2, <1>3
<1>12. SlotInv'
  <2>1. ASSUME NEW j \in Slots, conns'[j].cli = None
        PROVE  conns'[j] = Free
    <3>1. CASE j = k
      BY <1>1, <1>4, <1>11, <2>1, <3>1
    <3>2. CASE j # k
      <4>1. conns'[j] = conns[j]
        BY <1>11, <3>2
      <4>. QED  BY <2>1, <4>1 DEF Core, SlotInv
    <3>. QED  BY <3>1, <3>2
  <2>2. ASSUME NEW j \in Slots, conns'[j].cli # None
        PROVE  link'[conns'[j].cli] = "open"
    <3>1. CASE j = k
      BY <1>4, <1>10, <1>11, <2>2, <3>1, FreeTyped
    <3>2. CASE j # k
      <4>1. conns'[j] = conns[j] /\ conns[j].cli # c /\ link[conns[j].cli] = "open"
        BY <1>1, <1>11, <2>2, <3>2 DEF Core, SlotInv
      <4>2. conns[j].cli \in Clients
        BY <1>2, <2>2, <4>1 DEF ConnType, ConnIn
      <4>. QED  BY <1>9, <4>1, <4>2
    <3>. QED  BY <3>1, <3>2
  <2>3. ASSUME NEW i \in Slots, NEW j \in Slots, conns'[i].cli = conns'[j].cli, i # j
        PROVE  conns'[j].cli = None
    <3>1. CASE i # k /\ j # k
      <4>1. conns'[i] = conns[i] /\ conns'[j] = conns[j]
        BY <1>11, <3>1
      <4>. QED  BY <2>3, <4>1 DEF Core, SlotInv
    <3>2. CASE x = Free
      <4>1. CASE j = k
        BY <1>11, <3>2, <4>1, FreeTyped
      <4>2. CASE i = k
        BY <1>11, <2>3, <3>2, <4>2, FreeTyped
      <4>. QED  BY <3>1, <4>1, <4>2
    <3>3. CASE x.cli = c
      BY <1>1, <1>11, <2>3, <3>1, <3>3
    <3>. QED  BY <1>4, <3>2, <3>3
  <2>. QED  BY <2>1, <2>2, <2>3 DEF SlotInv
<1>13. QueueInv'
  <2>1. backlog' = backlog
    OBVIOUS
  <2>2. \A l \in Listeners : \A i \in 1 .. Len(backlog[l]) :
          backlog[l][i] \in Clients /\ link[backlog[l][i]] = "queued"
    <3>1. \A l \in Listeners : backlog[l] \in Seq(Clients)
      BY DEF Core, QueueInv, Queues
    <3>2. \A l \in Listeners : \A i \in 1 .. Len(backlog[l]) : backlog[l][i] \in Clients
      BY <3>1
    <3>. QED  BY <3>2 DEF Core, QueueInv
  <2>3. \A l \in Listeners : \A i \in 1 .. Len(backlog[l]) : link'[backlog[l][i]] = "queued"
    BY <1>1, <1>9, <2>2
  <2>4. \A d \in Clients : link'[d] \in {"none", "queued"} => d # c
    BY <1>10
  <2>5. \A d \in Clients : link'[d] \in {"none", "queued"} => Fresh(d)'
    <3> SUFFICES ASSUME NEW d \in Clients, link'[d] \in {"none", "queued"}
                 PROVE  Fresh(d)'
      OBVIOUS
    <3>1. d # c
      BY <2>4
    <3>2. Fresh(d)
      BY <1>9, <3>1 DEF Core, QueueInv
    <3>3. handled'[d] = handled[d] /\ got'[d] = got[d] /\ wire'[d] = wire[d] /\ sent' = sent
      BY <1>9, <3>1
    <3>. QED  BY <3>2, <3>3 DEF Fresh
  <2>6. Queues(backlog)'
    <3>1. Queues(backlog)
      BY DEF Core, QueueInv
    <3>. QED  BY <2>1, <3>1
  <2>7. ASSUME NEW l \in Listeners, NEW i \in 1 .. Len(backlog'[l])
        PROVE  link'[backlog'[l][i]] = "queued"
    <3>1. backlog'[l] = backlog[l]
      BY <2>1
    <3>2. i \in 1 .. Len(backlog[l]) /\ backlog'[l][i] = backlog[l][i]
      BY <3>1
    <3>. QED  BY <2>3, <3>2
  <2>. QED  BY <2>5, <2>6, <2>7 DEF QueueInv
<1>14. TalkInv'
  <2> SUFFICES ASSUME NEW j \in Slots, conns'[j] # Free
               PROVE  Talk(conns'[j], sent'[conns'[j].cli], wire'[conns'[j].cli],
                           Len(handled'[conns'[j].cli]), Len(got'[conns'[j].cli]))
    BY DEF TalkInv
  <2>1. CASE j = k
    <3>1. x # Free /\ conns'[j] = x /\ x.cli = c
      BY <1>4, <1>11, <2>1
    <3>2. wire'[c] = SubSeq(wire[c], n + 1, Len(wire[c]))
      BY <1>1, <1>2, <1>3, <3>1
    <3>. QED  BY <3>1, <3>2 DEF GoesOn
  <2>2. CASE j # k
    <3>1. conns'[j] = conns[j] /\ conns[j] # Free /\ conns[j].cli # c
      BY <1>1, <1>11, <2>2
    <3>2. /\ conns[j].cli \in Clients
          /\ Talk(conns[j], sent[conns[j].cli], wire[conns[j].cli],
                  Len(handled[conns[j].cli]), Len(got[conns[j].cli]))
      BY <3>1, InUse
    <3>. QED  BY <1>9, <3>1, <3>2
  <2>. QED  BY <2>1, <2>2
<1>. QED  BY <1>8, <1>12, <1>13, <1>14 DEF Core

\* What is handled and what is answered, in order.
LEMMA ServedMore ==
  ASSUME ServedInOrder, ClientType, UNCHANGED sent, NEW c \in Clients,
         \/ handled' = handled
         \/ /\ Len(handled[c]) + 1 \in 1 .. Len(sent[c])
            /\ handled' = [handled EXCEPT ![c] = Append(@, Units(c, Len(handled[c]) + 1))],
         \/ got' = got
         \/ /\ Len(got[c]) + 1 \in 1 .. Len(sent[c])
            /\ got' = [got EXCEPT ![c] = Append(@, Expected(sent[c][Len(got[c]) + 1]))]
  PROVE  ServedInOrder'
<1> SUFFICES ASSUME NEW d \in Clients
             PROVE  /\ Len(handled'[d]) <= Len(sent[d]) /\ Len(got'[d]) <= Len(sent[d])
                    /\ \A n \in 1 .. Len(handled'[d]) : handled'[d][n] = Units(d, n)
                    /\ \A n \in 1 .. Len(got'[d]) : got'[d][n] = Expected(sent[d][n])
  BY DEF ServedInOrder, Units
<1>1. /\ Len(handled[d]) <= Len(sent[d]) /\ Len(got[d]) <= Len(sent[d])
      /\ \A n \in 1 .. Len(handled[d]) : handled[d][n] = Units(d, n)
      /\ \A n \in 1 .. Len(got[d]) : got[d][n] = Expected(sent[d][n])
  BY DEF ServedInOrder
<1>2. /\ handled \in [Clients -> Seq(Seq(Unit))] /\ got \in [Clients -> Seq(Reply)]
  BY DEF ClientType
<1>3. Len(handled'[d]) <= Len(sent[d])
      /\ \A n \in 1 .. Len(handled'[d]) : handled'[d][n] = Units(d, n)
  <2>1. CASE handled'[d] = handled[d]
    BY <1>1, <2>1
  <2>2. CASE /\ d = c /\ Len(handled[c]) + 1 \in 1 .. Len(sent[c])
             /\ handled'[c] = Append(handled[c], Units(c, Len(handled[c]) + 1))
    <3> DEFINE u == Units(c, Len(handled[c]) + 1)
               s == handled[c]
    <3>1. s \in Seq(Seq(Unit)) /\ Len(s) \in Nat
      BY <1>2
    <3>2. /\ Len(Append(s, u)) = Len(s) + 1
          /\ \A n \in 1 .. Len(s) : Append(s, u)[n] = s[n]
          /\ Append(s, u)[Len(s) + 1] = u
      <4> HIDE DEF u, s
      <4>. QED  BY <3>1
    <3>3. \A n \in 1 .. Len(s) + 1 : n \in 1 .. Len(s) \/ n = Len(s) + 1
      BY <3>1
    <3>. QED  BY <1>1, <2>2, <3>1, <3>2, <3>3
  <2>. QED  BY <1>2, <2>1, <2>2
<1>4. Len(got'[d]) <= Len(sent[d])
      /\ \A n \in 1 .. Len(got'[d]) : got'[d][n] = Expected(sent[d][n])
  <2>1. CASE got'[d] = got[d]
    BY <1>1, <2>1
  <2>2. CASE /\ d = c /\ Len(got[c]) + 1 \in 1 .. Len(sent[c])
             /\ got'[c] = Append(got[c], Expected(sent[c][Len(got[c]) + 1]))
    <3> DEFINE u == Expected(sent[c][Len(got[c]) + 1])
               s == got[c]
    <3>1. s \in Seq(Reply) /\ Len(s) \in Nat
      BY <1>2
    <3>2. /\ Len(Append(s, u)) = Len(s) + 1
          /\ \A n \in 1 .. Len(s) : Append(s, u)[n] = s[n]
          /\ Append(s, u)[Len(s) + 1] = u
      <4> HIDE DEF u, s
      <4>. QED  BY <3>1
    <3>3. \A n \in 1 .. Len(s) + 1 : n \in 1 .. Len(s) \/ n = Len(s) + 1
      BY <3>1
    <3>. QED  BY <1>1, <2>2, <3>1, <3>2, <3>3
  <2>. QED  BY <1>2, <2>1, <2>2
<1>. QED  BY <1>3, <1>4

\* Steps that send, handle and answer nothing keep the order.
LEMMA ServedKept ==
  ASSUME ServedInOrder, UNCHANGED <<sent, handled, got>>
  PROVE  ServedInOrder'
BY DEF ServedInOrder, Units

\* A connection is closed, after whatever reply has been written.
LEMMA Closing ==
  ASSUME Core, NEW k \in Slots, conns[k] # Free, conn_close(k),
         UNCHANGED <<backlog, sent, handled>>, got' \in [Clients -> Seq(Reply)],
         \A d \in Clients : d # conns[k].cli => got'[d] = got[d]
  PROVE  Core'
<1> DEFINE c == conns[k].cli
<1>1. Becomes(k, Free, 0) /\ 0 \in Nat
  BY DEF conn_close
<1>2. c \in Clients /\ wire[c] \in Seq(Unit)
  BY InUse
<1>3. SubSeq(wire[c], 0 + 1, Len(wire[c])) \in Seq(Unit)
  <2>1. 0 + 1 = 1
    OBVIOUS
  <2>. QED  BY <1>2, <2>1, SubSeqFull
<1>4. handled' \in [Clients -> Seq(Seq(Unit))]
  BY DEF Core, ClientType
<1>5. GoesOn(Free, c, SubSeq(wire[c], 0 + 1, Len(wire[c])), Len(handled'[c]), Len(got'[c]))
  BY DEF GoesOn
<1> HIDE DEF c
<1>6. c = conns[k].cli
  BY DEF c
<1>. QED  BY <1>1, <1>3, <1>4, <1>5, <1>6, Becoming

\* A read, of any number of units.
LEMMA Receives ==
  ASSUME Core, ServedInOrder, NEW k \in Slots, conn_do_recv(k)
  PROVE  Core' /\ ServedInOrder'
<1> DEFINE c == conns[k].cli
           m == conns[k]
           reqs == sent[c]
           h == Len(handled[c])
<1>1. /\ m # Free /\ m.state \in {"headers", "body"}
      /\ UNCHANGED <<phase, listeners, backlog, sent, got>>
  BY DEF conn_do_recv, Serving
<1>2. PICK n \in 1 .. Smaller(Room(m), Len(wire[c])) :
        LET x == [m EXCEPT !.in = m.in \o SubSeq(wire[c], 1, n)]
            y == IF x.state = "headers" THEN parse_headers(c, x) ELSE BodyRead(x)
        IN  IF y.state = "dispatch"
            THEN /\ handled' = [handled EXCEPT ![c] =
                        Append(handled[c], SubSeq(y.in, 1, y.header_len + y.content_length))]
                 /\ Becomes(k, handle_request(c, y), n)
            ELSE Becomes(k, y, n) /\ UNCHANGED handled
  BY DEF conn_do_recv
<1> DEFINE w == SubSeq(wire[c], n + 1, Len(wire[c]))
           x == [m EXCEPT !.in = m.in \o SubSeq(wire[c], 1, n)]
           y == IF x.state = "headers" THEN parse_headers(c, x) ELSE BodyRead(x)
<1>3. IF y.state = "dispatch"
      THEN /\ handled' = [handled EXCEPT ![c] =
                  Append(handled[c], SubSeq(y.in, 1, y.header_len + y.content_length))]
           /\ Becomes(k, handle_request(c, y), n)
      ELSE Becomes(k, y, n) /\ UNCHANGED handled
  BY <1>2
<1>4. /\ m \in ConnType /\ c \in Clients /\ c # None
      /\ Talk(m, sent[c], wire[c], Len(handled[c]), Len(got[c]))
      /\ sent[c] \in Seq(RequestType) /\ wire[c] \in Seq(Unit)
      /\ handled[c] \in Seq(Seq(Unit)) /\ got[c] \in Seq(Reply)
      /\ h \in Nat /\ Len(got[c]) \in Nat
  BY <1>1, InUse
<1>5. /\ handled \in [Clients -> Seq(Seq(Unit))] /\ got \in [Clients -> Seq(Reply)]
      /\ ClientType
  BY DEF Core, ClientType
<1>6. Reading(m, sent[c], wire[c], h, Len(got[c])) /\ Len(got[c]) = h
  BY <1>1, <1>4 DEF Talk, Reading
<1>7. m.in \in Seq(Unit) /\ Len(m.in) \in Nat /\ m.last_len \in Nat
      /\ m.header_len \in Nat /\ m.content_length \in Nat
  BY <1>4 DEF ConnType, ConnIn
<1>8. Len(wire[c]) \in Nat
  BY <1>4
<1>9. n \in Nat /\ n > 0 /\ n <= Len(wire[c]) /\ n <= Room(m)
  <2>1. Room(m) \in Int
    BY <1>7, Sizes DEF Room
  <2>2. Smaller(Room(m), Len(wire[c])) <= Room(m)
        /\ Smaller(Room(m), Len(wire[c])) <= Len(wire[c])
        /\ Smaller(Room(m), Len(wire[c])) \in Int
    BY <1>8, <2>1 DEF Smaller
  <2> HIDE DEF c, m
  <2>. QED  BY <1>2, <1>8, <2>1, <2>2
<1>10. /\ x.in \in Seq(Unit) /\ w \in Seq(Unit)
       /\ Len(x.in) = Len(m.in) + n
       /\ \A i \in 1 .. Len(m.in) : x.in[i] = m.in[i]
       /\ x.in \o w = m.in \o wire[c]
  <2>1. n \in 1 .. Len(wire[c])
    BY <1>8, <1>9
  <2>2. x.in = m.in \o SubSeq(wire[c], 1, n)
    BY <1>4 DEF ConnType, ConnIn
  <2>3. /\ m.in \o SubSeq(wire[c], 1, n) \in Seq(Unit) /\ w \in Seq(Unit)
        /\ Len(m.in \o SubSeq(wire[c], 1, n)) = Len(m.in) + n
        /\ \A i \in 1 .. Len(m.in) : (m.in \o SubSeq(wire[c], 1, n))[i] = m.in[i]
        /\ (m.in \o SubSeq(wire[c], 1, n)) \o w = m.in \o wire[c]
    <3>1. m.in \in Seq(Unit) /\ wire[c] \in Seq(Unit)
      BY <1>4, <1>7
    <3> HIDE DEF m, c, x, y
    <3>. QED  BY <2>1, <3>1, ReadMoves
  <2>. QED  BY <2>2, <2>3
<1>11. /\ x \in ConnType /\ x.cli = c /\ x.state = m.state /\ x.last_len = m.last_len
       /\ x.header_len = m.header_len /\ x.content_length = m.content_length
  <2>1. m.in \o SubSeq(wire[c], 1, n) \in Seq(Unit)
    <3>1. x.in = m.in \o SubSeq(wire[c], 1, n)
      BY <1>4 DEF ConnType, ConnIn
    <3>. QED  BY <1>10, <3>1
  <2>. QED  BY <1>4, <2>1 DEF ConnType, ConnIn
<1>12. x.in # <<>> /\ Stream(x.in \o w, sent[c], h)
  <2>1. x.in # <<>>
    <3>1. Len(x.in) # 0
      BY <1>7, <1>9, <1>10
    <3> HIDE DEF x
    <3>. QED  BY <3>1
  <2>2. Stream(m.in \o wire[c], sent[c], h)
    BY <1>6 DEF Reading
  <2> HIDE DEF x, w, m, c, h
  <2>. QED  BY <1>10, <2>1, <2>2
<1>13. y = IF x.state = "headers" THEN parse_headers(c, x) ELSE BodyRead(x)
  OBVIOUS
<1> HIDE DEF x, y, w, h
<1>14. Ready(y, c, w, h) \/ GoesOn(y, c, w, h, h)
  <2>1. CASE m.state = "headers"
    <3>1. InHeaders(m, sent[c])
      BY <1>4, <2>1 DEF Talk
    <3>2. n <= HdrCap - Len(m.in)
      BY <1>9, <2>1 DEF Room
    <3>3. InHeaders(x, sent[c])
      <4>1. Len(x.in) <= HdrCap /\ m.last_len <= Len(m.in) /\ m.last_len <= Len(x.in)
        <5>1. m.last_len <= Len(m.in)
          BY <3>1 DEF InHeaders
        <5> HIDE DEF m
        <5>. QED  BY <1>7, <1>9, <1>10, <3>2, <5>1, Sizes
      <4>2. \A i \in 1 .. m.last_len : x.in[i] = m.in[i]
        <5>1. \A i \in 1 .. m.last_len : i \in 1 .. Len(m.in)
          <6> HIDE DEF m
          <6>. QED  BY <1>7, <4>1
        <5>. QED  BY <1>10, <5>1
      <4>. QED  BY <1>11, <3>1, <4>1, <4>2 DEF InHeaders
    <3>. QED  BY <1>4, <1>10, <1>11, <1>12, <1>13, <2>1, <3>3, Parsed
  <2>2. CASE m.state = "body"
    <3>1. InBody(m, sent[c][h + 1])
      BY <1>4, <2>2 DEF Talk, h
    <3>2. n <= m.header_len + m.content_length - Len(m.in)
      BY <1>9, <2>2 DEF Room
    <3>3. Framed(x, sent[c][h + 1])
      BY <1>11, <3>1 DEF InBody, Framed
    <3>4. sent[c][h + 1] \in RequestType
      BY <1>4, <1>10, <1>12, BufferFirst
    <3>5. Len(x.in) <= Size(sent[c][h + 1])
      <4>1. Size(sent[c][h + 1]) = m.header_len + m.content_length
        BY <1>11, <3>3 DEF Framed, Size
      <4> HIDE DEF m
      <4>. QED  BY <1>7, <1>9, <1>10, <3>2, <4>1
    <3>. QED  BY <1>4, <1>10, <1>11, <1>12, <1>13, <2>2, <3>3, <3>5, BodyParsed
  <2>. QED  BY <1>1, <2>1, <2>2
<1>c. c = conns[k].cli /\ w = SubSeq(wire[c], n + 1, Len(wire[c])) /\ h = Len(handled[c])
  BY DEF w, h
<1>15. CASE y.state = "dispatch"
  <2>1. Ready(y, c, w, h)
    <3>1. ~GoesOn(y, c, w, h, h)
      BY <1>15 DEF GoesOn, Free, ConnType, ConnIn
    <3>. QED  BY <1>14, <3>1
  <2>2. /\ h + 1 \in 1 .. Len(sent[c])
        /\ SubSeq(y.in, 1, y.header_len + y.content_length) = Units(c, h + 1)
        /\ Units(c, h + 1) \in Seq(Unit)
        /\ GoesOn(handle_request(c, y), c, w, h + 1, h)
    <3> HIDE DEF c
    <3>. QED  BY <1>4, <1>10, <2>1, HandlerServes
  <2>3. /\ handled' = [handled EXCEPT ![c] = Append(@, Units(c, Len(handled[c]) + 1))]
        /\ Becomes(k, handle_request(c, y), n)
    BY <1>3, <1>15, <1>c, <2>2
  <2>4. /\ handled' \in [Clients -> Seq(Seq(Unit))] /\ Len(handled'[c]) = h + 1
        /\ \A d \in Clients : d # c => handled'[d] = handled[d] /\ got'[d] = got[d]
        /\ got' = got
    <3> DEFINE u == Units(c, Len(handled[c]) + 1)
               s == handled[c]
    <3>1. s \in Seq(Seq(Unit)) /\ u \in Seq(Unit)
      BY <1>4, <1>c, <2>2
    <3>2. Append(s, u) \in Seq(Seq(Unit)) /\ Len(Append(s, u)) = Len(s) + 1
      <4> HIDE DEF u, s
      <4>. QED  BY <3>1
    <3>. QED  BY <1>1, <1>4, <1>5, <1>c, <2>3, <3>2
  <2>5. Core'
    <3>1. GoesOn(handle_request(c, y), c, w, Len(handled'[c]), Len(got'[c]))
      BY <1>6, <2>2, <2>4
    <3>2. got' \in [Clients -> Seq(Reply)] /\ UNCHANGED <<backlog, sent>>
      BY <1>1, <1>5
    <3>3. conns[k] # Free
      BY <1>1
    <3> HIDE DEF c
    <3>. QED  BY <1>9, <1>10, <1>c, <2>3, <2>4, <3>1, <3>2, <3>3, Becoming
  <2>6. ServedInOrder'
    <3> HIDE DEF c
    <3>. QED  BY <1>1, <1>4, <1>5, <1>c, <2>2, <2>3, ServedMore
  <2>. QED  BY <2>5, <2>6
<1>16. CASE y.state # "dispatch"
  <2>1. GoesOn(y, c, w, h, h)
    BY <1>14, <1>16 DEF Ready, ConnIn
  <2>2. Becomes(k, y, n) /\ UNCHANGED handled
    BY <1>3, <1>16
  <2>3. Core'
    <3> HIDE DEF c
    <3>. QED  BY <1>1, <1>5, <1>6, <1>9, <1>10, <1>c, <2>1, <2>2, Becoming
  <2>. QED  BY <1>1, <2>2, <2>3, ServedKept
<1>. QED  BY <1>15, <1>16

LEMMA Closes ==
  ASSUME Core, ServedInOrder, NEW k \in Slots,
         RecvEnd(k) \/ SendFails(k) \/ IdleClose(k) \/ QuitClose(k)
  PROVE  Core' /\ ServedInOrder'
<1>1. /\ conns[k] # Free /\ conn_close(k)
      /\ UNCHANGED <<backlog, sent, handled, got>>
  BY DEF RecvEnd, SendFails, IdleClose, QuitClose, Serving
<1>2. got' \in [Clients -> Seq(Reply)]
  BY <1>1 DEF Core, ClientType
<1>3. Core'
  BY <1>1, <1>2, Closing
<1>. QED  BY <1>1, <1>3, ServedKept

\* A slot's connection changes in a way that does not matter to Talk.
LEMMA Staying ==
  ASSUME Core, ServedInOrder, NEW k \in Slots, conns[k] # Free,
         NEW x \in ConnType, x # Free, x.cli = conns[k].cli,
         conns' = [conns EXCEPT ![k] = x],
         UNCHANGED <<backlog, link, gone, sent, wire, handled, got>>,
         \A reqs, w, h, g : Talk(conns[k], reqs, w, h, g) => Talk(x, reqs, w, h, g)
  PROVE  Core' /\ ServedInOrder'
<1> DEFINE c == conns[k].cli
<1>1. /\ c \in Clients /\ wire[c] \in Seq(Unit)
      /\ Talk(conns[k], sent[c], wire[c], Len(handled[c]), Len(got[c]))
  BY InUse
<1>2. /\ handled \in [Clients -> Seq(Seq(Unit))] /\ got \in [Clients -> Seq(Reply)]
      /\ wire \in [Clients -> Seq(Unit)]
  BY DEF Core, ClientType
<1>3. SubSeq(wire[c], 0 + 1, Len(wire[c])) = wire[c]
  <2>1. 0 + 1 = 1
    OBVIOUS
  <2>. QED  BY <1>1, <2>1, SubSeqFull
<1>4. wire' = [wire EXCEPT ![c] = SubSeq(wire[c], 0 + 1, Len(wire[c]))]
  BY <1>1, <1>2, <1>3
<1>5. Becomes(k, x, 0)
  BY <1>4 DEF Becomes
<1>6. GoesOn(x, c, SubSeq(wire[c], 0 + 1, Len(wire[c])), Len(handled'[c]), Len(got'[c]))
  BY <1>1, <1>3 DEF GoesOn
<1> HIDE DEF c
<1>c. c = conns[k].cli
  BY DEF c
<1>7. Core'
  <2>1. 0 \in Nat /\ SubSeq(wire[c], 0 + 1, Len(wire[c])) \in Seq(Unit)
    BY <1>1, <1>3
  <2>. QED  BY <1>2, <1>5, <1>6, <1>c, <2>1, Becoming
<1>. QED  BY <1>7, ServedKept

\* Time passes for a connection.
LEMMA GrowsStale ==
  ASSUME Core, ServedInOrder, NEW k \in Slots, Idle(k)
  PROVE  Core' /\ ServedInOrder'
<1> DEFINE x == [conns[k] EXCEPT !.stale = TRUE]
<1>1. /\ conns[k] # Free /\ conns' = [conns EXCEPT ![k].stale = TRUE]
      /\ UNCHANGED <<backlog, link, gone, sent, wire, handled, got>>
  BY DEF Idle, Serving
<1>2. conns[k] \in ConnType /\ conns[k].cli # None /\ conns \in [Slots -> ConnType]
  BY <1>1, InUse DEF Core, TableType
<1>3. /\ x \in ConnType /\ x.cli = conns[k].cli /\ x.in = conns[k].in
      /\ x.state = conns[k].state /\ x.last_len = conns[k].last_len
      /\ x.header_len = conns[k].header_len /\ x.content_length = conns[k].content_length
      /\ x.out = conns[k].out /\ x.status = conns[k].status
      /\ x.close_after = conns[k].close_after
  BY <1>2 DEF ConnType, ConnIn
<1>4. conns' = [conns EXCEPT ![k] = x]
  BY <1>1
<1>5. x # Free
  BY <1>2, <1>3, FreeTyped
<1> HIDE DEF x
<1>6. \A reqs, w, h, g : Talk(conns[k], reqs, w, h, g) => Talk(x, reqs, w, h, g)
  BY <1>3 DEF Talk, Reading, InHeaders, InBody, Framed, Served, Refused
<1>. QED  BY <1>1, <1>3, <1>4, <1>5, <1>6, Staying

\* Dropping the front of what is buffered drops the front of the stream.
LEMMA RestStream ==
  ASSUME NEW u \in Seq(Unit), NEW w \in Seq(Unit), NEW z \in Nat, z > 0, z <= Len(u)
  PROVE  LET v == SubSeq(u, z + 1, Len(u))
         IN  /\ v \in Seq(Unit) /\ Len(v) = Len(u) - z
             /\ v \o w = SubSeq(u \o w, z + 1, Len(u \o w))
             /\ u \o w # <<>>
<1> DEFINE v == SubSeq(u, z + 1, Len(u))
           s == u \o w
           t == SubSeq(s, z + 1, Len(s))
           len == Len(u)
           more == Len(w)
<1>1. len \in Nat /\ more \in Nat /\ len = Len(u) /\ more = Len(w)
  OBVIOUS
<1>2. v = SubSeq(u, z + 1, len) /\ s = u \o w /\ t = SubSeq(s, z + 1, Len(s))
  OBVIOUS
<1>a. z <= len /\ len - z \in Nat
  BY <1>1
<1>3. /\ s \in Seq(Unit) /\ Len(s) = len + more
      /\ \A i \in 1 .. len + more : s[i] = IF i <= len THEN u[i] ELSE w[i - len]
  BY ConcatProperties
<1> HIDE DEF v, s, t, len, more
<1>4. /\ v \in Seq(Unit) /\ Len(v) = len - z
      /\ \A i \in 1 .. len - z : v[i] = u[i + z]
  <2>1. \A i \in z + 1 .. len : u[i] \in Unit
    BY <1>1
  <2>2. z + 1 \in Int /\ len \in Int
    BY <1>1
  <2>3. /\ SubSeq(u, z + 1, len) \in Seq(Unit)
        /\ Len(SubSeq(u, z + 1, len)) = IF z + 1 <= len THEN len - (z + 1) + 1 ELSE 0
        /\ \A i \in 1 .. len - (z + 1) + 1 : SubSeq(u, z + 1, len)[i] = u[z + 1 + i - 1]
    BY <2>1, <2>2, SubSeqProperties
  <2>4. len - (z + 1) + 1 = len - z /\ (z + 1 <= len \/ len - z = 0)
    BY <1>1, <1>a
  <2>5. \A i \in 1 .. len - z : z + 1 + i - 1 = i + z
    BY <1>1, <1>a
  <2>. QED  BY <1>2, <2>3, <2>4, <2>5
<1>5. /\ t \in Seq(Unit) /\ Len(t) = len - z + more
      /\ \A i \in 1 .. len - z + more : t[i] = s[i + z]
  <2> DEFINE all == len + more
  <2>0. all \in Nat /\ all = len + more /\ Len(s) = all
    BY <1>1, <1>3
  <2> HIDE DEF all
  <2>1. \A i \in z + 1 .. all : s[i] \in Unit
    BY <1>1, <1>3, <2>0
  <2>2. z + 1 \in Int /\ all \in Int
    BY <2>0
  <2>3. /\ SubSeq(s, z + 1, all) \in Seq(Unit)
        /\ Len(SubSeq(s, z + 1, all)) = IF z + 1 <= all THEN all - (z + 1) + 1 ELSE 0
        /\ \A i \in 1 .. all - (z + 1) + 1 : SubSeq(s, z + 1, all)[i] = s[z + 1 + i - 1]
    BY <2>1, <2>2, SubSeqProperties
  <2>4. all - (z + 1) + 1 = len - z + more /\ (z + 1 <= all \/ len - z + more = 0)
    BY <1>1, <1>a, <2>0
  <2>5. \A i \in 1 .. len - z + more : z + 1 + i - 1 = i + z
    BY <1>1, <1>a
  <2>. QED  BY <1>2, <2>0, <2>3, <2>4, <2>5
<1>6. /\ v \o w \in Seq(Unit) /\ Len(v \o w) = len - z + more
      /\ \A i \in 1 .. len - z + more :
           (v \o w)[i] = IF i <= len - z THEN v[i] ELSE w[i - (len - z)]
  <2>1. /\ v \o w \in Seq(Unit) /\ Len(v \o w) = Len(v) + Len(w)
        /\ \A i \in 1 .. Len(v) + Len(w) :
             (v \o w)[i] = IF i <= Len(v) THEN v[i] ELSE w[i - Len(v)]
    BY <1>4, ConcatProperties
  <2>. QED  BY <1>1, <1>4, <2>1
<1>7. ASSUME NEW i \in 1 .. len - z + more PROVE (v \o w)[i] = t[i]
  <2>1. i + z \in 1 .. len + more
    BY <1>1, <1>a
  <2>2. /\ i + z <= len => t[i] = u[i + z]
        /\ ~(i + z <= len) => t[i] = w[(i + z) - len]
    <3> DEFINE j == i + z
    <3>1. j \in 1 .. len + more /\ t[i] = s[j]
      BY <1>5, <2>1
    <3> HIDE DEF j
    <3>2. s[j] = IF j <= len THEN u[j] ELSE w[j - len]
      BY <1>3, <3>1, Zenon
    <3>3. (j <= len => t[i] = u[j]) /\ (~(j <= len) => t[i] = w[j - len])
      BY <3>1, <3>2, Zenon
    <3>. QED  BY <3>3, Zenon DEF j
  <2>3. CASE i <= len - z
    <3>1. i \in 1 .. len - z /\ i + z <= len
      BY <1>1, <1>a, <2>3
    <3>. QED  BY <1>4, <1>6, <2>2, <2>3, <3>1
  <2>4. CASE ~(i <= len - z)
    <3>1. ~(i + z <= len) /\ i - (len - z) = (i + z) - len
      BY <1>1, <1>a, <2>4
    <3>. QED  BY <1>6, <2>2, <2>4, <3>1
  <2>. QED  BY <2>3, <2>4
<1>8. v \o w = t
  <2> DEFINE b == v \o w
             size == len - z + more
  <2>1. b \in Seq(Unit) /\ t \in Seq(Unit) /\ Len(b) = size /\ Len(t) = size
        /\ \A i \in 1 .. size : b[i] = t[i]
    BY <1>5, <1>6, <1>7
  <2> HIDE DEF b, size
  <2>2. b = t
    BY <2>1, SeqEqual
  <2>. QED  BY <2>2 DEF b
<1>9. s # <<>>
  <2>1. len + more # 0
    BY <1>1, <1>a
  <2>. QED  BY <1>3, <2>1
<1>. QED  BY <1>4, <1>8, <1>9 DEF v, s, t, len

\* What a connection in "send" has for its client is the next reply.
LEMMA Answers ==
  ASSUME NEW x, NEW reqs \in Seq(RequestType), NEW w, NEW h \in Nat, NEW g \in Nat,
         x.state = "send", Talk(x, reqs, w, h, g)
  PROVE  g + 1 \in 1 .. Len(reqs) /\ x.status = Expected(reqs[g + 1])
<1>1. Served(x, reqs, w, h, g) \/ Refused(x, reqs, h, g)
  BY DEF Talk
<1>2. CASE Served(x, reqs, w, h, g)
  <2>1. h = g + 1 /\ h <= Len(reqs) /\ x.status = "done" /\ Expected(reqs[h]) = "done"
    BY <1>2 DEF Served, Framed
  <2>. QED  BY <2>1
<1>3. CASE Refused(x, reqs, h, g)
  <2>1. g = h /\ h < Len(reqs) /\ x.status = Expected(reqs[h + 1])
    BY <1>3 DEF Refused
  <2>. QED  BY <2>1
<1>. QED  BY <1>1, <1>2, <1>3

\* The reset for the next request leaves exactly what follows the request.
LEMMA ResetTalks ==
  ASSUME NEW x \in ConnType, NEW reqs \in Seq(RequestType), NEW w \in Seq(Unit),
         NEW h \in Nat, NEW g \in Nat, x.cli \in Clients,
         x.state = "send", ~x.close_after, Talk(x, reqs, w, h, g)
  PROVE  /\ conn_keep_alive_reset(x) \in ConnType
         /\ conn_keep_alive_reset(x).cli = x.cli
         /\ Talk(conn_keep_alive_reset(x), reqs, w, h, g + 1)
<1> DEFINE y == conn_keep_alive_reset(x)
           z == Size(reqs[h])
           u == x.in
<1>1. Served(x, reqs, w, h, g)
  BY DEF Talk, Refused
<1>2. /\ h = g + 1 /\ h <= Len(reqs) /\ Stream(u \o w, reqs, g)
      /\ x.header_len = reqs[h].hdr /\ x.content_length = reqs[h].cl
      /\ z <= Len(u) /\ Len(u) <= HdrCap + z
  BY <1>1 DEF Served, Framed
<1>3. h \in 1 .. Len(reqs)
  BY <1>2
<1>4. reqs[h] \in RequestType /\ u \in Seq(Unit) /\ Len(u) \in Nat
  BY <1>3 DEF ConnType, ConnIn
<1>5. z \in Nat /\ z > 0 /\ z = x.header_len + x.content_length
  BY <1>2, <1>4, RequestFacts
<1> DEFINE v == SubSeq(u, z + 1, Len(u))
<1>6. /\ v \in Seq(Unit) /\ Len(v) = Len(u) - z
      /\ v \o w = SubSeq(u \o w, z + 1, Len(u \o w))
      /\ u \o w # <<>>
  <2> HIDE DEF z, u
  <2>. QED  BY <1>2, <1>4, <1>5, RestStream
<1>7. Stream(v \o w, reqs, h)
  <2> DEFINE s == u \o w
  <2>1. Stream(s, reqs, g) /\ s # <<>> /\ g + 1 = h
    BY <1>2, <1>6
  <2> HIDE DEF s
  <2>2. Stream(SubSeq(s, Size(reqs[g + 1]) + 1, Len(s)), reqs, g + 1)
    BY <2>1, StreamDrop
  <2>. QED  BY <1>6, <2>1, <2>2 DEF s
<1>8. v = Rest(x)
  BY <1>5 DEF Rest
<1>9. y = [NewConn(x.cli) EXCEPT !.in = v]
  BY <1>8 DEF conn_keep_alive_reset, conn_reset_req
<1>10. /\ y \in ConnType /\ y.cli = x.cli /\ y.in = v /\ y.last_len = 0
       /\ y.state = "headers"
  <2>1. /\ NewConn(x.cli) \in ConnType /\ NewConn(x.cli).cli = x.cli
        /\ NewConn(x.cli).state = "headers" /\ NewConn(x.cli).last_len = 0
    BY NewConnTyped
  <2> DEFINE n == NewConn(x.cli)
  <2>2. n \in ConnType /\ n.cli = x.cli /\ n.state = "headers" /\ n.last_len = 0
        /\ y = [n EXCEPT !.in = v] /\ v \in Seq(Unit)
    BY <1>6, <1>9, <2>1
  <2> HIDE DEF n, y, v
  <2>. QED  BY <2>2 DEF ConnType, ConnIn
<1> HIDE DEF y, v
<1>11. Len(v) <= HdrCap
  <2>1. z <= Len(u) /\ Len(u) <= HdrCap + z
    BY <1>2
  <2> HIDE DEF z, u
  <2>. QED  BY <1>4, <1>5, <1>6, <2>1, Sizes
<1>12. InHeaders(y, reqs)
  <2>1. Len(v) \in Nat /\ 0 <= Len(v)
    BY <1>6
  <2>. QED  BY <1>10, <1>11, <2>1 DEF InHeaders
<1>13. Reading(y, reqs, w, h, g + 1)
  BY <1>2, <1>7, <1>10 DEF Reading
<1>14. Talk(y, reqs, w, h, g + 1)
  BY <1>10, <1>12, <1>13 DEF Talk
<1>. QED  BY <1>10, <1>14 DEF y

\* A reply goes out, in part or whole; after it the connection is closed or reads
\* on.
LEMMA Sends ==
  ASSUME Core, ServedInOrder, NEW k \in Slots, conn_do_send(k)
  PROVE  Core' /\ ServedInOrder'
<1> DEFINE m == conns[k]
           c == m.cli
           h == Len(handled[c])
           g == Len(got[c])
           w == wire[c]
<1>1. /\ m # Free /\ m.state = "send"
      /\ UNCHANGED <<phase, listeners, backlog, sent, handled>>
  BY DEF conn_do_send, Serving
<1>2. PICK n \in 1 .. m.out :
        IF n < m.out
        THEN Becomes(k, [m EXCEPT !.out = m.out - n], 0) /\ UNCHANGED got
        ELSE /\ got' = [got EXCEPT ![c] = Append(got[c], m.status)]
             /\ IF m.close_after THEN conn_close(k)
                ELSE Becomes(k, conn_keep_alive_reset(m), 0)
  BY DEF conn_do_send
<1>3. /\ m \in ConnType /\ c \in Clients /\ c # None
      /\ Talk(m, sent[c], w, h, g)
      /\ sent[c] \in Seq(RequestType) /\ w \in Seq(Unit)
      /\ got[c] \in Seq(Reply) /\ h \in Nat /\ g \in Nat
  BY <1>1, InUse
<1>4. /\ handled \in [Clients -> Seq(Seq(Unit))] /\ got \in [Clients -> Seq(Reply)]
      /\ ClientType
  BY DEF Core, ClientType
<1>5. SubSeq(w, 0 + 1, Len(w)) = w
  <2>1. 0 + 1 = 1
    OBVIOUS
  <2>. QED  BY <1>3, <2>1, SubSeqFull
<1>6. /\ g + 1 \in 1 .. Len(sent[c])
      /\ m.status = Expected(sent[c][g + 1])
  BY <1>1, <1>3, Answers
<1>c. /\ m = conns[k] /\ c = m.cli /\ h = Len(handled[c]) /\ g = Len(got[c]) /\ w = wire[c]
  OBVIOUS
<1>7. CASE n < m.out
  <2> DEFINE x == [m EXCEPT !.out = m.out - n]
  <2>1. Becomes(k, x, 0) /\ UNCHANGED got
    BY <1>2, <1>7
  <2>2. m.out \in 1 .. OutCap
    BY <1>1, <1>3 DEF Talk
  <2>3. m.out - n \in 1 .. OutCap
    BY <1>2, <1>7, <2>2, Sizes
  <2>4. m.out - n \in 0 .. OutCap
    BY <2>3, Sizes
  <2>5. /\ x \in ConnType /\ x.cli = c /\ x.in = m.in /\ x.state = m.state
        /\ x.header_len = m.header_len /\ x.content_length = m.content_length
        /\ x.out = m.out - n /\ x.status = m.status /\ x.close_after = m.close_after
    BY <1>3, <2>4 DEF ConnType, ConnIn
  <2> HIDE DEF x
  <2>6. Talk(x, sent[c], w, h, g)
    BY <1>1, <1>3, <2>3, <2>5 DEF Talk, Framed, Served, Refused
  <2>7. GoesOn(x, c, SubSeq(w, 0 + 1, Len(w)), Len(handled'[c]), Len(got'[c]))
    BY <1>1, <1>5, <2>1, <2>5, <2>6 DEF GoesOn
  <2>8. /\ handled' \in [Clients -> Seq(Seq(Unit))] /\ got' \in [Clients -> Seq(Reply)]
        /\ UNCHANGED <<backlog, sent, handled, got>>
        /\ 0 \in Nat /\ SubSeq(w, 0 + 1, Len(w)) \in Seq(Unit)
        /\ conns[k] # Free /\ c = conns[k].cli
    BY <1>1, <1>3, <1>4, <1>5, <2>1
  <2>9. Core'
    <3> HIDE DEF m, c, h, g
    <3>. QED  BY <2>1, <2>7, <2>8, Becoming
  <2>. QED  BY <2>8, <2>9, ServedKept
<1>8. CASE ~(n < m.out)
  <2>1. got' = [got EXCEPT ![c] = Append(@, Expected(sent[c][Len(got[c]) + 1]))]
    BY <1>2, <1>6, <1>8
  <2>2. Expected(sent[c][g + 1]) \in Reply
    BY DEF Expected, Reply
  <2>3. got'[c] \in Seq(Reply) /\ Len(got'[c]) = g + 1 /\ got' \in [Clients -> Seq(Reply)]
    <3> DEFINE e == Expected(sent[c][g + 1])
               s == got[c]
    <3>1. e \in Reply /\ s \in Seq(Reply)
      BY <1>3, <2>2
    <3>2. Append(s, e) \in Seq(Reply) /\ Len(Append(s, e)) = Len(s) + 1
      <4> HIDE DEF e, s
      <4>. QED  BY <3>1
    <3>. QED  BY <1>3, <1>4, <2>1, <3>2
  <2>4. \A d \in Clients : d # c => got'[d] = got[d]
    BY <1>4, <2>1
  <2>5. ServedInOrder'
    <3>1. sent' = sent /\ handled' = handled
      BY <1>1
    <3>2. Len(got[c]) + 1 \in 1 .. Len(sent[c])
      BY <1>6
    <3> HIDE DEF c
    <3>. QED  BY <1>3, <1>4, <2>1, <3>1, <3>2, ServedMore
  <2>6. UNCHANGED <<backlog, sent, handled>> /\ conns[k] # Free
    BY <1>1
  <2>7. CASE m.close_after
    <3>1. conn_close(k)
      BY <1>2, <1>8, <2>7
    <3>2. \A d \in Clients : d # conns[k].cli => got'[d] = got[d]
      BY <2>4
    <3>3. Core'
      BY <2>3, <2>6, <3>1, <3>2, Closing
    <3>. QED  BY <2>5, <3>3
  <2>8. CASE ~m.close_after
    <3> DEFINE y == conn_keep_alive_reset(m)
    <3>1. Becomes(k, y, 0)
      BY <1>2, <1>8, <2>8
    <3>2. y \in ConnType /\ y.cli = c /\ Talk(y, sent[c], w, h, g + 1)
      <4> HIDE DEF w, h, g
      <4>. QED  BY <1>1, <1>3, <2>8, ResetTalks
    <3> HIDE DEF y
    <3>3. GoesOn(y, c, SubSeq(w, 0 + 1, Len(w)), Len(handled'[c]), Len(got'[c]))
      BY <1>1, <1>5, <2>3, <3>2 DEF GoesOn
    <3>4. /\ handled' \in [Clients -> Seq(Seq(Unit))] /\ 0 \in Nat
          /\ SubSeq(w, 0 + 1, Len(w)) \in Seq(Unit) /\ c = conns[k].cli
          /\ \A d \in Clients : d # c => handled'[d] = handled[d] /\ got'[d] = got[d]
      BY <1>1, <1>3, <1>4, <1>5, <2>4
    <3>5. Core'
      <4> HIDE DEF m, c, h, g
      <4>. QED  BY <2>3, <2>6, <3>1, <3>3, <3>4, Becoming
    <3>. QED  BY <2>5, <3>5
  <2>. QED  BY <2>7, <2>8
<1>. QED  BY <1>7, <1>8

----------------------------------------------------------------------------
(* The acceptor's steps, the clients, and the end. *)

\* A step that changes what waits, and whom the server has left, but no
\* connection that is in use.
LEMMA QueueStep ==
  ASSUME Core, ServedInOrder,
         UNCHANGED <<conns, gone, sent, wire, handled, got>>,
         link' \in [Clients -> {"none", "queued", "open", "closed"}],
         \A k \in Slots : conns[k] # Free => link'[conns[k].cli] = "open",
         \A d \in Clients : link'[d] \in {"none", "queued"} => link[d] \in {"none", "queued"},
         Queues(backlog'),
         \A l \in Listeners : \A i \in 1 .. Len(backlog'[l]) :
            link'[backlog'[l][i]] = "queued"
  PROVE  Core' /\ ServedInOrder'
<1>1. TableType' /\ ClientType'
  BY DEF Core, TableType, ClientType
<1>2. SlotInv'
  <2>1. \A k \in Slots : conns[k].cli = None => conns[k] = Free
    BY DEF Core, SlotInv
  <2>2. \A k \in Slots : conns[k].cli # None => conns[k] # Free
    BY FreeTyped
  <2>3. \A j, k \in Slots : conns[j].cli = conns[k].cli /\ j # k => conns[k].cli = None
    BY DEF Core, SlotInv
  <2>. QED  BY <2>1, <2>2, <2>3 DEF SlotInv
<1>3. QueueInv'
  <2>1. \A d \in Clients : link'[d] \in {"none", "queued"} => Fresh(d)
    BY DEF Core, QueueInv
  <2>2. \A d \in Clients : Fresh(d) => Fresh(d)'
    BY DEF Fresh
  <2>. QED  BY <2>1, <2>2 DEF QueueInv
<1>4. TalkInv'
  BY DEF Core, TalkInv
<1>. QED  BY <1>1, <1>2, <1>3, <1>4, ServedKept DEF Core

\* A connection in use is not of a client that waits.
LEMMA NotWaiting ==
  ASSUME Core, NEW k \in Slots, conns[k] # Free, NEW l \in Listeners,
         NEW i \in 1 .. Len(backlog[l])
  PROVE  backlog[l][i] # conns[k].cli
<1>1. link[conns[k].cli] = "open"
  BY InUse
<1>2. link[backlog[l][i]] = "queued"
  BY DEF Core, QueueInv
<1>. QED  BY <1>1, <1>2

\* The clients in a backlog are those whose connection is queued.
LEMMA Waiting ==
  ASSUME Core
  PROVE  /\ Queues(backlog)
         /\ \A l \in Listeners : backlog[l] \in Seq(Clients)
         /\ \A l \in Listeners : \A i \in 1 .. Len(backlog[l]) :
              backlog[l][i] \in Clients /\ link[backlog[l][i]] = "queued"
<1>1. Queues(backlog) /\ \A l \in Listeners : backlog[l] \in Seq(Clients)
  BY DEF Core, QueueInv, Queues
<1>2. \A l \in Listeners : \A i \in 1 .. Len(backlog[l]) : backlog[l][i] \in Clients
  BY <1>1
<1>. QED  BY <1>1, <1>2 DEF Core, QueueInv

\* What waits in b2 waited in b: but for the first of l, or for all of l, or it
\* is c.
RestWait(b, b2, l) ==
    \A m \in Listeners : \A i \in 1 .. Len(b2[m]) :
       \E j \in 1 .. Len(b[m]) : b2[m][i] = b[m][j] /\ b[m][j] # Head(b[l])
OthersWait(b, b2, l) ==
    \A m \in Listeners : \A i \in 1 .. Len(b2[m]) : m # l /\ b2[m] = b[m]
OneMore(b, b2, c) ==
    \A m \in Listeners : \A i \in 1 .. Len(b2[m]) :
       b2[m][i] = c \/ (i \in 1 .. Len(b[m]) /\ b2[m][i] = b[m][i])

\* One waits less.
LEMMA TailQueues ==
  ASSUME NEW b, Queues(b), NEW l \in Listeners, b[l] # <<>>, NEW b2,
         b2 = [b EXCEPT ![l] = Tail(b[l])]
  PROVE  /\ Queues(b2)
         /\ Head(b[l]) \in Clients /\ 1 \in 1 .. Len(b[l]) /\ Head(b[l]) = b[l][1]
         /\ RestWait(b, b2, l)
<1>1. b \in [Listeners -> Seq(Clients)]
  BY DEF Queues
<1>2. \A m, n \in Listeners : \A i \in 1 .. Len(b[m]), j \in 1 .. Len(b[n]) :
         b[m][i] = b[n][j] => m = n /\ i = j
  BY Zenon DEF Queues
<1> DEFINE s == b[l]
           t == Tail(s)
<1>3. s \in Seq(Clients) /\ s # <<>>
  BY <1>1
<1>4. /\ t \in Seq(Clients) /\ Len(t) = Len(s) - 1 /\ Len(s) \in Nat /\ Len(s) > 0
      /\ \A i \in 1 .. Len(t) : t[i] = s[i + 1]
      /\ Head(s) \in Clients /\ Head(s) = s[1]
  <2> HIDE DEF s
  <2>. QED  BY <1>3
<1>5. /\ b2 \in [Listeners -> Seq(Clients)] /\ b2[l] = t
      /\ \A m \in Listeners : m # l => b2[m] = b[m]
  BY <1>1, <1>4
<1>6. 1 \in 1 .. Len(s)
  BY <1>4
<1>7. ASSUME NEW m \in Listeners, NEW i \in 1 .. Len(b2[m])
      PROVE  \E j \in 1 .. Len(b[m]) :
               /\ b2[m][i] = b[m][j]
               /\ m = l => j = i + 1 /\ j # 1
               /\ m # l => j = i
  <2>1. CASE m = l
    <3>1. i \in 1 .. Len(t)
      BY <1>5, <2>1
    <3>2. i + 1 \in 1 .. Len(s) /\ i + 1 # 1
      <4> HIDE DEF t, s
      <4>. QED  BY <1>4, <3>1
    <3>. QED  BY <1>4, <1>5, <2>1, <3>1, <3>2
  <2>2. CASE m # l
    BY <1>5, <2>2
  <2>. QED  BY <2>1, <2>2
<1>8. \A m, n \in Listeners : \A i \in 1 .. Len(b2[m]), j \in 1 .. Len(b2[n]) :
         b2[m][i] = b2[n][j] => m = n /\ i = j
  <2> SUFFICES ASSUME NEW m \in Listeners, NEW n \in Listeners,
                      NEW i \in 1 .. Len(b2[m]), NEW j \in 1 .. Len(b2[n]),
                      b2[m][i] = b2[n][j]
               PROVE  m = n /\ i = j
    OBVIOUS
  <2>1. PICK p \in 1 .. Len(b[m]) : /\ b2[m][i] = b[m][p]
                                    /\ m = l => p = i + 1 /\ p # 1
                                    /\ m # l => p = i
    BY <1>7
  <2>2. PICK q \in 1 .. Len(b[n]) : /\ b2[n][j] = b[n][q]
                                    /\ n = l => q = j + 1 /\ q # 1
                                    /\ n # l => q = j
    BY <1>7
  <2>3. m = n /\ p = q
    <3>1. b[m][p] = b[n][q]
      BY <2>1, <2>2, Zenon
    <3>. QED  BY <1>2, <3>1
  <2>4. i \in Int /\ j \in Int
    OBVIOUS
  <2>5. (m = l => p = i + 1 /\ q = j + 1) /\ (m # l => p = i /\ q = j)
    BY <2>1, <2>2, <2>3, Zenon
  <2>. QED  BY <2>3, <2>4, <2>5
<1>9. Queues(b2)
  BY <1>5, <1>8, Zenon DEF Queues
<1>10. ASSUME NEW m \in Listeners, NEW i \in 1 .. Len(b2[m])
       PROVE  \E j \in 1 .. Len(b[m]) : b2[m][i] = b[m][j] /\ b[m][j] # Head(s)
  <2>1. PICK p \in 1 .. Len(b[m]) : /\ b2[m][i] = b[m][p]
                                    /\ m = l => p = i + 1 /\ p # 1
                                    /\ m # l => p = i
    BY <1>7
  <2>2. m = l => p # 1
    BY <2>1, Zenon
  <2>3. b[m][p] # b[l][1]
    BY <1>2, <1>6, <2>2
  <2>4. b2[m][i] = b[m][p] /\ Head(s) = b[l][1]
    BY <1>4, <2>1, Zenon
  <2> HIDE DEF s
  <2>. QED  BY <2>3, <2>4, Zenon
<1>. QED  BY <1>4, <1>6, <1>9, <1>10 DEF RestWait

\* Nobody waits any more.
LEMMA EmptyQueues ==
  ASSUME NEW b, Queues(b), NEW l \in Listeners, NEW b2, b2 = [b EXCEPT ![l] = <<>>]
  PROVE  /\ Queues(b2)
         /\ OthersWait(b, b2, l)
<1>1. b \in [Listeners -> Seq(Clients)]
  BY DEF Queues
<1>2. \A m, n \in Listeners : \A i \in 1 .. Len(b[m]), j \in 1 .. Len(b[n]) :
         b[m][i] = b[n][j] => m = n /\ i = j
  BY Zenon DEF Queues
<1>3. <<>> \in Seq(Clients) /\ \A i : i \notin 1 .. Len(<<>>)
  OBVIOUS
<1>4. /\ b2 \in [Listeners -> Seq(Clients)] /\ b2[l] = <<>>
      /\ \A m \in Listeners : m # l => b2[m] = b[m]
  BY <1>1, <1>3
<1>5. \A m \in Listeners : \A i \in 1 .. Len(b2[m]) : m # l /\ b2[m] = b[m]
  BY <1>3, <1>4
<1>6. \A m, n \in Listeners : \A i \in 1 .. Len(b2[m]), j \in 1 .. Len(b2[n]) :
         b2[m][i] = b2[n][j] => m = n /\ i = j
  BY <1>2, <1>5
<1>7. Queues(b2)
  BY <1>4, <1>6, Zenon DEF Queues
<1>. QED  BY <1>5, <1>7, Zenon DEF OthersWait

\* A client that did not wait does.
LEMMA AppendQueues ==
  ASSUME NEW b, Queues(b), NEW l \in Listeners, NEW c \in Clients, NEW b2,
         b2 = [b EXCEPT ![l] = Append(b[l], c)],
         \A m \in Listeners : \A i \in 1 .. Len(b[m]) : b[m][i] # c
  PROVE  /\ Queues(b2)
         /\ OneMore(b, b2, c)
<1>1. b \in [Listeners -> Seq(Clients)]
  BY DEF Queues
<1>2. \A m, n \in Listeners : \A i \in 1 .. Len(b[m]), j \in 1 .. Len(b[n]) :
         b[m][i] = b[n][j] => m = n /\ i = j
  BY Zenon DEF Queues
<1> DEFINE s == b[l]
           t == Append(s, c)
<1>3. s \in Seq(Clients)
  BY <1>1
<1>4. /\ t \in Seq(Clients) /\ Len(t) = Len(s) + 1 /\ Len(s) \in Nat
      /\ \A i \in 1 .. Len(s) : t[i] = s[i]
      /\ t[Len(s) + 1] = c
  <2> HIDE DEF s
  <2>. QED  BY <1>3
<1>5. /\ b2 \in [Listeners -> Seq(Clients)] /\ b2[l] = t
      /\ \A m \in Listeners : m # l => b2[m] = b[m]
  BY <1>1, <1>4
<1>6. \A m \in Listeners : \A i \in 1 .. Len(b2[m]) :
        \/ i \in 1 .. Len(b[m]) /\ b2[m][i] = b[m][i]
        \/ m = l /\ i = Len(s) + 1 /\ b2[m][i] = c
  <2> SUFFICES ASSUME NEW m \in Listeners, NEW i \in 1 .. Len(b2[m])
               PROVE  \/ i \in 1 .. Len(b[m]) /\ b2[m][i] = b[m][i]
                      \/ m = l /\ i = Len(s) + 1 /\ b2[m][i] = c
    OBVIOUS
  <2>1. CASE m = l
    <3>1. i \in 1 .. Len(t)
      BY <1>5, <2>1
    <3>2. i \in 1 .. Len(s) \/ i = Len(s) + 1
      <4> HIDE DEF t, s
      <4>. QED  BY <1>4, <3>1
    <3>. QED  BY <1>4, <1>5, <2>1, <3>2
  <2>2. CASE m # l
    BY <1>5, <2>2
  <2>. QED  BY <2>1, <2>2
<1> HIDE DEF s
<1>7. \A m, n \in Listeners : \A i \in 1 .. Len(b2[m]), j \in 1 .. Len(b2[n]) :
         b2[m][i] = b2[n][j] => m = n /\ i = j
  <2> SUFFICES ASSUME NEW m \in Listeners, NEW n \in Listeners,
                      NEW i \in 1 .. Len(b2[m]), NEW j \in 1 .. Len(b2[n]),
                      b2[m][i] = b2[n][j]
               PROVE  m = n /\ i = j
    OBVIOUS
  <2>1. \/ i \in 1 .. Len(b[m]) /\ b2[m][i] = b[m][i]
        \/ m = l /\ i = Len(s) + 1 /\ b2[m][i] = c
    BY <1>6
  <2>2. \/ j \in 1 .. Len(b[n]) /\ b2[n][j] = b[n][j]
        \/ n = l /\ j = Len(s) + 1 /\ b2[n][j] = c
    BY <1>6
  <2>3. CASE i \in 1 .. Len(b[m]) /\ b2[m][i] = b[m][i]
    <3>1. b[m][i] # c
      BY <2>3
    <3>. QED  BY <1>2, <2>2, <2>3, <3>1
  <2>4. CASE m = l /\ i = Len(s) + 1 /\ b2[m][i] = c
    BY <2>2, <2>4
  <2>. QED  BY <2>1, <2>3, <2>4
<1>8. Queues(b2)
  BY <1>5, <1>7, Zenon DEF Queues
<1>. QED  BY <1>6, <1>8 DEF OneMore

\* close() of a listening socket.
LEMMA Resets ==
  ASSUME Core, ServedInOrder, NEW l \in Listeners, Reset(l),
         UNCHANGED <<conns, gone, sent, wire, handled, got>>
  PROVE  Core' /\ ServedInOrder'
<1>1. /\ backlog' = [backlog EXCEPT ![l] = <<>>]
      /\ link' = [c \in Clients |-> IF \E i \in DOMAIN backlog[l] : backlog[l][i] = c
                                    THEN "closed" ELSE link[c]]
  BY DEF Reset
<1>2. /\ Queues(backlog) /\ backlog[l] \in Seq(Clients)
      /\ \A m \in Listeners : \A i \in 1 .. Len(backlog[m]) :
           backlog[m][i] \in Clients /\ link[backlog[m][i]] = "queued"
  BY Waiting
<1>3. DOMAIN backlog[l] = 1 .. Len(backlog[l])
  BY <1>2
<1>4. link \in [Clients -> {"none", "queued", "open", "closed"}]
  BY DEF Core, ClientType
<1>5. link' \in [Clients -> {"none", "queued", "open", "closed"}]
  BY <1>1, <1>4
<1>6. \A d \in Clients : link'[d] \in {"none", "queued"} => link[d] \in {"none", "queued"}
  BY <1>1
<1>7. \A k \in Slots : conns[k] # Free => link'[conns[k].cli] = "open"
  <2> SUFFICES ASSUME NEW k \in Slots, conns[k] # Free
               PROVE  link'[conns[k].cli] = "open"
    OBVIOUS
  <2>1. conns[k].cli \in Clients /\ link[conns[k].cli] = "open"
    BY InUse
  <2>2. \A i \in DOMAIN backlog[l] : backlog[l][i] # conns[k].cli
    BY <1>3, NotWaiting
  <2>. QED  BY <1>1, <2>1, <2>2
<1>8. /\ Queues(backlog')
      /\ \A m \in Listeners : \A i \in 1 .. Len(backlog'[m]) :
           m # l /\ backlog'[m] = backlog[m]
  <2>1. backlog' = [backlog EXCEPT ![l] = <<>>] /\ Queues(backlog)
    BY <1>1, <1>2
  <2> DEFINE b2 == [backlog EXCEPT ![l] = <<>>]
  <2>2. b2 = [backlog EXCEPT ![l] = <<>>] /\ backlog' = b2
    BY <2>1
  <2> HIDE DEF b2
  <2>3. Queues(b2) /\ OthersWait(backlog, b2, l)
    BY <2>1, <2>2, EmptyQueues
  <2>. QED  BY <2>2, <2>3 DEF OthersWait
<1>9. ASSUME NEW m \in Listeners, NEW i \in 1 .. Len(backlog'[m])
      PROVE  link'[backlog'[m][i]] = "queued"
  <2>1. m # l /\ backlog'[m] = backlog[m] /\ i \in 1 .. Len(backlog[m])
    BY <1>8
  <2> DEFINE d == backlog[m][i]
  <2>2. d \in Clients /\ link[d] = "queued"
    BY <1>2, <2>1
  <2>3. \A j \in DOMAIN backlog[l] : backlog[l][j] # d
    BY <1>2, <1>3, <2>1 DEF Queues
  <2> HIDE DEF d
  <2>4. link'[d] = "queued"
    BY <1>1, <2>2, <2>3
  <2>. QED  BY <2>1, <2>4 DEF d
<1>. QED  BY <1>5, <1>6, <1>7, <1>8, <1>9, QueueStep

\* The listening socket is exchanged; who waited at the old one is turned away.
LEMMA Swaps ==
  ASSUME Core, ServedInOrder, SwapListen, listen_fd \in Listeners
  PROVE  Core' /\ ServedInOrder'
<1>1. Reset(listen_fd) /\ UNCHANGED <<conns, gone, sent, wire, handled, got>>
  BY DEF SwapListen
<1>. QED  BY <1>1, Resets

\* The socket to come is opened.
LEMMA Rebinds ==
  ASSUME Core, ServedInOrder, NEW l \in Listeners, mf_http_rebind_listen(l),
         pending_listen_fd \in Listeners \union {None}
  PROVE  Core' /\ ServedInOrder'
<1>1. ClosePending(l) /\ UNCHANGED <<conns, gone, sent, wire, handled, got>>
  BY DEF mf_http_rebind_listen
<1>2. CASE pending_listen_fd = None
  <2>1. backlog' = backlog /\ link' = link
    BY <1>1, <1>2 DEF ClosePending
  <2>2. /\ link' \in [Clients -> {"none", "queued", "open", "closed"}]
        /\ Queues(backlog')
        /\ \A m \in Listeners : \A i \in 1 .. Len(backlog'[m]) :
             link'[backlog'[m][i]] = "queued"
    <3>1. link \in [Clients -> {"none", "queued", "open", "closed"}]
      BY DEF Core, ClientType
    <3>. QED  BY <2>1, <3>1, Waiting
  <2>3. \A k \in Slots : conns[k] # Free => link'[conns[k].cli] = "open"
    BY <2>1, InUse
  <2>. QED  BY <1>1, <2>1, <2>2, <2>3, QueueStep
<1>3. CASE pending_listen_fd # None
  <2>1. Reset(pending_listen_fd)
    BY <1>1, <1>3 DEF ClosePending
  <2>. QED  BY <1>1, <1>3, <2>1, Resets
<1>. QED  BY <1>2, <1>3

\* A client joins a backlog.
LEMMA Connects ==
  ASSUME Core, ServedInOrder, NEW c \in Clients, Connect(c), lopen \subseteq Listeners
  PROVE  Core' /\ ServedInOrder'
<1>1. /\ link[c] = "none" /\ link' = [link EXCEPT ![c] = "queued"]
      /\ UNCHANGED <<conns, gone, sent, wire, handled, got>>
  BY DEF Connect
<1>2. PICK l \in Listeners : backlog' = [backlog EXCEPT ![l] = Append(backlog[l], c)]
  BY DEF Connect
<1>3. link \in [Clients -> {"none", "queued", "open", "closed"}]
  BY DEF Core, ClientType
<1>4. /\ Queues(backlog)
      /\ \A m \in Listeners : \A i \in 1 .. Len(backlog[m]) :
           backlog[m][i] \in Clients /\ link[backlog[m][i]] = "queued"
  BY Waiting
<1>5. \A m \in Listeners : \A i \in 1 .. Len(backlog[m]) : backlog[m][i] # c
  BY <1>1, <1>4
<1>6. /\ Queues(backlog')
      /\ \A m \in Listeners : \A i \in 1 .. Len(backlog'[m]) :
           backlog'[m][i] = c \/ (i \in 1 .. Len(backlog[m]) /\ backlog'[m][i] = backlog[m][i])
  <2>1. Queues(backlog)
    BY <1>4
  <2> DEFINE b2 == [backlog EXCEPT ![l] = Append(backlog[l], c)]
  <2>2. b2 = [backlog EXCEPT ![l] = Append(backlog[l], c)] /\ backlog' = b2
    BY <1>2
  <2> HIDE DEF b2
  <2>3. Queues(b2) /\ OneMore(backlog, b2, c)
    BY <1>5, <2>1, <2>2, AppendQueues
  <2>. QED  BY <2>2, <2>3 DEF OneMore
<1>7. link'[c] = "queued" /\ \A d \in Clients : d # c => link'[d] = link[d]
  BY <1>1, <1>3
<1>8. \A m \in Listeners : \A i \in 1 .. Len(backlog'[m]) : link'[backlog'[m][i]] = "queued"
  BY <1>4, <1>5, <1>6, <1>7
<1>9. \A k \in Slots : conns[k] # Free => link'[conns[k].cli] = "open"
  <2> SUFFICES ASSUME NEW k \in Slots, conns[k] # Free
               PROVE  link'[conns[k].cli] = "open"
    OBVIOUS
  <2>1. conns[k].cli \in Clients /\ link[conns[k].cli] = "open"
    BY InUse
  <2>. QED  BY <1>1, <1>7, <2>1
<1>10. \A d \in Clients : link'[d] \in {"none", "queued"} => link[d] \in {"none", "queued"}
  BY <1>1, <1>7
<1>11. link' \in [Clients -> {"none", "queued", "open", "closed"}]
  BY <1>1, <1>3
<1>. QED  BY <1>1, <1>6, <1>8, <1>9, <1>10, <1>11, QueueStep

\* A fresh connection, of a client that has sent nothing yet.
LEMMA StartTalk ==
  ASSUME NEW c \in Clients
  PROVE  Talk(NewConn(c), <<>>, <<>>, 0, 0)
<1> DEFINE x == NewConn(c)
           none == <<>>
<1>1. x.state = "headers" /\ x.in = none /\ x.last_len = 0
  BY NewConnTyped
<1>2. none \o none = none /\ Len(none) = 0 /\ none \in Seq(Nat \X Nat)
  OBVIOUS
<1>3. Stream(none, none, 0)
  BY <1>2 DEF Stream
<1> HIDE DEF x
<1>4. Reading(x, none, none, 0, 0)
  BY <1>1, <1>2, <1>3 DEF Reading
<1>5. InHeaders(x, none)
  BY <1>1, <1>2, Sizes DEF InHeaders
<1>6. Talk(x, none, none, 0, 0)
  BY <1>1, <1>4, <1>5 DEF Talk
<1>. QED  BY <1>6 DEF x

\* A client leaves the backlog, for a slot or for good.
LEMMA Accepts ==
  ASSUME Core, ServedInOrder, accept_one_fd, listen_fd \in Listeners
  PROVE  Core' /\ ServedInOrder'
<1> DEFINE l == listen_fd
           c == Head(backlog[l])
<1>1. /\ backlog[l] # <<>> /\ backlog' = [backlog EXCEPT ![l] = Tail(backlog[l])]
      /\ UNCHANGED <<gone, sent, wire, handled, got>>
      /\ IF \E k \in Slots : conns[k] = Free
         THEN /\ conns' = [k \in Slots |-> IF conn_slot(k) THEN NewConn(c) ELSE conns[k]]
              /\ link' = [link EXCEPT ![c] = "open"]
         ELSE link' = [link EXCEPT ![c] = "closed"] /\ conns' = conns
  BY DEF accept_one_fd
<1>2. /\ Queues(backlog)
      /\ \A m \in Listeners : \A i \in 1 .. Len(backlog[m]) :
           backlog[m][i] \in Clients /\ link[backlog[m][i]] = "queued"
  BY Waiting
<1>3. /\ link \in [Clients -> {"none", "queued", "open", "closed"}]
      /\ conns \in [Slots -> ConnType]
  BY DEF Core, ClientType, TableType
<1>4. /\ Queues(backlog')
      /\ c \in Clients /\ 1 \in 1 .. Len(backlog[l]) /\ c = backlog[l][1]
      /\ \A m \in Listeners : \A i \in 1 .. Len(backlog'[m]) :
           \E j \in 1 .. Len(backlog[m]) : backlog'[m][i] = backlog[m][j] /\ backlog[m][j] # c
  <2>1. backlog[l] # <<>> /\ backlog' = [backlog EXCEPT ![l] = Tail(backlog[l])]
    BY <1>1
  <2>2. Queues(backlog) /\ l \in Listeners
    BY <1>2
  <2> HIDE DEF l
  <2> DEFINE b2 == [backlog EXCEPT ![l] = Tail(backlog[l])]
  <2>3. b2 = [backlog EXCEPT ![l] = Tail(backlog[l])] /\ backlog' = b2
    BY <2>1
  <2> HIDE DEF b2
  <2>4. /\ Queues(b2)
        /\ c \in Clients /\ 1 \in 1 .. Len(backlog[l]) /\ c = backlog[l][1]
        /\ RestWait(backlog, b2, l)
    BY <2>1, <2>2, <2>3, TailQueues
  <2>. QED  BY <2>3, <2>4 DEF RestWait
<1>5. link[c] = "queued"
  BY <1>2, <1>4
<1>6. Fresh(c)
  BY <1>4, <1>5 DEF Core, QueueInv
<1>7. \A k \in Slots : conns[k].cli # c
  <2>1. c # None
    BY <1>4, ListenAssumption
  <2>. QED  BY <1>5, <2>1 DEF Core, SlotInv
<1> HIDE DEF c
<1>8. \A d \in Clients : d # c => link'[d] = link[d]
  BY <1>1, <1>3, <1>4
<1>9. /\ link' \in [Clients -> {"none", "queued", "open", "closed"}]
      /\ link'[c] \in {"open", "closed"}
  BY <1>1, <1>3, <1>4
<1>10. ASSUME NEW m \in Listeners, NEW i \in 1 .. Len(backlog'[m])
       PROVE  link'[backlog'[m][i]] = "queued"
  <2>1. PICK j \in 1 .. Len(backlog[m]) : backlog'[m][i] = backlog[m][j] /\ backlog[m][j] # c
    BY <1>4
  <2>2. backlog[m][j] \in Clients /\ link[backlog[m][j]] = "queued"
    BY <1>2
  <2>. QED  BY <1>8, <2>1, <2>2
<1>11. \A d \in Clients : link'[d] \in {"none", "queued"} => d # c /\ link[d] \in {"none", "queued"}
  BY <1>8, <1>9
<1>12. CASE ~(\E k \in Slots : conns[k] = Free)
  <2>1. conns' = conns
    BY <1>1, <1>12
  <2>2. \A k \in Slots : conns[k] # Free => link'[conns[k].cli] = "open"
    <3> SUFFICES ASSUME NEW k \in Slots, conns[k] # Free
                 PROVE  link'[conns[k].cli] = "open"
      OBVIOUS
    <3>1. conns[k].cli \in Clients /\ link[conns[k].cli] = "open"
      BY InUse
    <3>. QED  BY <1>7, <1>8, <3>1
  <2>. QED  BY <1>1, <1>4, <1>9, <1>10, <1>11, <2>1, <2>2, QueueStep
<1>13. CASE \E k \in Slots : conns[k] = Free
  <2>1. /\ conns' = [k \in Slots |-> IF conn_slot(k) THEN NewConn(c) ELSE conns[k]]
        /\ link' = [link EXCEPT ![c] = "open"]
    BY <1>1, <1>13
  <2>2. link'[c] = "open"
    BY <1>3, <1>4, <2>1
  <2>3. /\ NewConn(c) \in ConnType /\ NewConn(c).cli = c /\ NewConn(c) # Free
    BY <1>4, NewConnTyped
  <2>4. \A k \in Slots : conns'[k] = IF conn_slot(k) THEN NewConn(c) ELSE conns[k]
    BY <2>1
  <2>5. \A j, k \in Slots : conn_slot(j) /\ conn_slot(k) => j = k
    <3> SUFFICES ASSUME NEW j \in Slots, NEW k \in Slots, conn_slot(j), conn_slot(k), j < k
                 PROVE  FALSE
      BY Sizes DEF Slots
    <3>1. j \in 1 .. k - 1
      BY Sizes DEF Slots
    <3>. QED  BY <3>1 DEF conn_slot
  <2>6. TableType'
    BY <1>3, <2>1, <2>3 DEF TableType
  <2>7. ClientType'
    BY <1>1, <1>9 DEF Core, ClientType
  <2>8. SlotInv'
    <3>1. ASSUME NEW j \in Slots, conns'[j].cli = None
          PROVE  conns'[j] = Free
      <4>1. c # None
        BY <1>4, ListenAssumption
      <4>2. conns'[j] = conns[j]
        BY <2>3, <2>4, <3>1, <4>1
      <4>. QED  BY <3>1, <4>2 DEF Core, SlotInv
    <3>2. ASSUME NEW j \in Slots, conns'[j].cli # None
          PROVE  link'[conns'[j].cli] = "open"
      <4>1. CASE conn_slot(j)
        BY <2>2, <2>3, <2>4, <4>1
      <4>2. CASE ~conn_slot(j)
        <5>1. conns'[j] = conns[j] /\ conns[j] # Free
          BY <2>4, <3>2, <4>2, FreeTyped
        <5>2. conns[j].cli \in Clients /\ link[conns[j].cli] = "open"
          BY <5>1, InUse
        <5>. QED  BY <1>7, <1>8, <5>1, <5>2
      <4>. QED  BY <4>1, <4>2
    <3>3. ASSUME NEW i \in Slots, NEW j \in Slots, conns'[i].cli = conns'[j].cli, i # j
          PROVE  conns'[j].cli = None
      <4>1. CASE ~conn_slot(i) /\ ~conn_slot(j)
        <5>1. conns'[i] = conns[i] /\ conns'[j] = conns[j]
          BY <2>4, <4>1
        <5>. QED  BY <3>3, <5>1 DEF Core, SlotInv
      <4>2. CASE conn_slot(i)
        <5>1. ~conn_slot(j) /\ conns'[i].cli = c /\ conns'[j] = conns[j]
          BY <2>3, <2>4, <2>5, <3>3, <4>2
        <5>. QED  BY <1>7, <3>3, <5>1
      <4>3. CASE conn_slot(j)
        <5>1. ~conn_slot(i) /\ conns'[j].cli = c /\ conns'[i] = conns[i]
          BY <2>3, <2>4, <2>5, <3>3, <4>3
        <5>. QED  BY <1>7, <3>3, <5>1
      <4>. QED  BY <4>1, <4>2, <4>3
    <3>. QED  BY <3>1, <3>2, <3>3 DEF SlotInv
  <2>9. QueueInv'
    <3>1. \A d \in Clients : link'[d] \in {"none", "queued"} => Fresh(d)
      BY <1>11 DEF Core, QueueInv
    <3>2. \A d \in Clients : Fresh(d) => Fresh(d)'
      BY <1>1 DEF Fresh
    <3>. QED  BY <1>4, <1>10, <3>1, <3>2 DEF QueueInv
  <2>10. TalkInv'
    <3> SUFFICES ASSUME NEW j \in Slots, conns'[j] # Free
                 PROVE  Talk(conns'[j], sent'[conns'[j].cli], wire'[conns'[j].cli],
                             Len(handled'[conns'[j].cli]), Len(got'[conns'[j].cli]))
      BY DEF TalkInv
    <3>1. CASE conn_slot(j)
      <4>1. conns'[j] = NewConn(c) /\ NewConn(c).cli = c
        BY <2>3, <2>4, <3>1
      <4>2. sent'[c] = <<>> /\ wire'[c] = <<>> /\ handled'[c] = <<>> /\ got'[c] = <<>>
        BY <1>1, <1>6 DEF Fresh
      <4>3. Len(handled'[c]) = 0 /\ Len(got'[c]) = 0
        BY <4>2
      <4>4. Talk(NewConn(c), <<>>, <<>>, 0, 0)
        BY <1>4, StartTalk
      <4>. QED  BY <4>1, <4>2, <4>3, <4>4
    <3>2. CASE ~conn_slot(j)
      <4>1. conns'[j] = conns[j] /\ conns[j] # Free
        BY <2>4, <3>2
      <4>2. Talk(conns[j], sent[conns[j].cli], wire[conns[j].cli],
                 Len(handled[conns[j].cli]), Len(got[conns[j].cli]))
        BY <4>1, InUse
      <4>. QED  BY <1>1, <4>1, <4>2
    <3>. QED  BY <3>1, <3>2
  <2>. QED  BY <1>1, <2>6, <2>7, <2>8, <2>9, <2>10, ServedKept DEF Core
<1>. QED  BY <1>12, <1>13

\* A request more, for a connection that is in use.
LEMMA TalkMore ==
  ASSUME NEW x \in ConnType, NEW reqs \in Seq(RequestType), NEW w \in Seq(Unit),
         NEW h \in Nat, NEW g \in Nat, NEW r \in RequestType, Talk(x, reqs, w, h, g)
  PROVE  Talk(x, Append(reqs, r), w \o Block(Len(reqs) + 1, r), h, g)
<1> DEFINE more == Append(reqs, r)
           b == Block(Len(reqs) + 1, r)
           w2 == w \o b
           u == x.in
<1>1. /\ Len(reqs) \in Nat /\ Len(more) = Len(reqs) + 1
      /\ \A n \in 1 .. Len(reqs) : more[n] = reqs[n]
  OBVIOUS
<1>2. u \in Seq(Unit) /\ Len(u) \in Nat /\ x.last_len \in Nat
  BY DEF ConnType, ConnIn
<1>3. b \in Seq(Unit)
  <2>1. Len(reqs) + 1 \in Nat
    BY <1>1
  <2>2. \A n \in Nat : Block(n, r) \in Seq(Unit)
    BY BlockUnits DEF Unit
  <2>. QED  BY <2>1, <2>2
<1>4. \A k \in Nat : Stream(u \o w, reqs, k) => Stream(u \o w2, more, k)
  <2> SUFFICES ASSUME NEW k \in Nat, Stream(u \o w, reqs, k)
               PROVE  Stream(u \o w2, more, k)
    OBVIOUS
  <2> DEFINE s == u \o w
  <2>1. Stream(s, reqs, k)
    OBVIOUS
  <2> HIDE DEF s
  <2>2. Stream(s \o Block(Len(reqs) + 1, r), Append(reqs, r), k)
    BY <2>1, StreamAppend
  <2>3. (u \o w) \o b = u \o w2
    <3>1. u \in Seq(Unit) /\ w \in Seq(Unit) /\ b \in Seq(Unit)
      BY <1>2, <1>3
    <3>2. w2 = w \o b
      OBVIOUS
    <3> HIDE DEF u, b, w2
    <3>3. (u \o w) \o b = u \o (w \o b)
      BY <3>1, SMT
    <3>. QED  BY <3>2, <3>3
  <2>. QED  BY <2>2, <2>3 DEF s
<1> HIDE DEF more, b, w2, u
<1>5. ASSUME x.state = "headers"
      PROVE  Reading(x, more, w2, h, g) /\ InHeaders(x, more)
  <2>1. Stream(u \o w, reqs, h) /\ g = h /\ InHeaders(x, reqs)
    BY <1>5 DEF Talk, Reading, u
  <2>2. Reading(x, more, w2, h, g)
    BY <1>4, <2>1 DEF Reading, u
  <2>3. \A i \in 1 .. Len(u) : u[i][1] \in 1 .. Len(reqs)
    <3> DEFINE s == u \o w
    <3>1. Stream(s, reqs, h)
      BY <2>1
    <3>2. Len(s) = Len(u) + Len(w) /\ Len(w) \in Nat
          /\ \A i \in 1 .. Len(u) + Len(w) : s[i] = IF i <= Len(u) THEN u[i] ELSE w[i - Len(u)]
      BY <1>2, ConcatProperties
    <3> HIDE DEF s
    <3>3. \A i \in 1 .. Len(u) : i \in 1 .. Len(u) + Len(w) /\ i <= Len(u)
      BY <1>2, <3>2
    <3>4. \A i \in 1 .. Len(u) : s[i] = u[i] /\ i \in 1 .. Len(s)
      BY <3>2, <3>3
    <3>. QED  BY <3>1, <3>4 DEF Stream
  <2>4. \A i \in 1 .. x.last_len : i \in 1 .. Len(u)
    <3>1. x.last_len <= Len(u)
      BY <2>1 DEF InHeaders, u
    <3>. QED  BY <1>2, <3>1
  <2>5. \A i \in 1 .. x.last_len : more[u[i][1]] = reqs[u[i][1]]
    BY <1>1, <2>3, <2>4
  <2>6. InHeaders(x, more)
    BY <2>1, <2>5 DEF InHeaders, u
  <2>. QED  BY <2>2, <2>6
<1>6. ASSUME x.state = "body"
      PROVE  Reading(x, more, w2, h, g) /\ InBody(x, more[h + 1])
  <2>1. Stream(u \o w, reqs, h) /\ g = h /\ InBody(x, reqs[h + 1]) /\ u # <<>>
    BY <1>6 DEF Talk, Reading, InBody, u
  <2>2. h + 1 \in 1 .. Len(reqs)
    BY <1>2, <2>1, BufferFirst
  <2>3. more[h + 1] = reqs[h + 1]
    BY <1>1, <2>2
  <2>. QED  BY <1>4, <2>1, <2>3 DEF Reading, u
<1>7. ASSUME Served(x, reqs, w, h, g)
      PROVE  Served(x, more, w2, h, g)
  <2>1. h = g + 1 /\ h <= Len(reqs) /\ Stream(u \o w, reqs, g)
    BY <1>7 DEF Served, u
  <2>2. h \in 1 .. Len(reqs) /\ h <= Len(more)
    BY <1>1, <2>1
  <2>3. more[h] = reqs[h] /\ Stream(u \o w2, more, g)
    BY <1>1, <1>4, <2>1, <2>2
  <2>. QED  BY <1>7, <2>2, <2>3 DEF Served, u
<1>8. ASSUME Refused(x, reqs, h, g)
      PROVE  Refused(x, more, h, g)
  <2>1. g = h /\ h < Len(reqs)
    BY <1>8 DEF Refused
  <2>2. h + 1 \in 1 .. Len(reqs) /\ h < Len(more)
    BY <1>1, <2>1
  <2>3. more[h + 1] = reqs[h + 1]
    BY <1>1, <2>2
  <2>. QED  BY <1>8, <2>2, <2>3 DEF Refused
<1>9. Talk(x, more, w2, h, g)
  BY <1>5, <1>6, <1>7, <1>8 DEF Talk
<1>. QED  BY <1>9 DEF more, w2, b

\* A client sends a request.
LEMMA SendsRequest ==
  ASSUME Core, ServedInOrder, NEW c \in Clients, ClientSend(c)
  PROVE  Core' /\ ServedInOrder'
<1>1. /\ link[c] = "open" /\ Len(sent[c]) < MaxReq
      /\ UNCHANGED <<backlog, conns, link, gone, handled, got>>
  BY DEF ClientSend
<1>2. PICK r \in Requests[c] :
         /\ sent' = [sent EXCEPT ![c] = Append(sent[c], r)]
         /\ wire' = [wire EXCEPT ![c] =
                       wire[c] \o [i \in 1 .. r.hdr + r.cl |-> <<Len(sent[c]) + 1, i>>]]
  BY DEF ClientSend
<1>3. r \in RequestType
  BY RequestAssumption
<1> DEFINE b == Block(Len(sent[c]) + 1, r)
           more == Append(sent[c], r)
<1>4. /\ sent \in [Clients -> Seq(RequestType)] /\ wire \in [Clients -> Seq(Unit)]
      /\ \A d \in Clients : Len(sent[d]) <= MaxReq
      /\ handled \in [Clients -> Seq(Seq(Unit))] /\ got \in [Clients -> Seq(Reply)]
  BY DEF Core, ClientType
<1>5. /\ sent[c] \in Seq(RequestType) /\ Len(sent[c]) \in Nat /\ wire[c] \in Seq(Unit)
  BY <1>4
<1>6. /\ more \in Seq(RequestType) /\ Len(more) = Len(sent[c]) + 1
      /\ \A n \in 1 .. Len(sent[c]) : more[n] = sent[c][n]
  BY <1>3, <1>5
<1>7. b \in Seq(Unit)
  <2>1. Len(sent[c]) + 1 \in Nat
    BY <1>5
  <2>2. \A n \in Nat : Block(n, r) \in Seq(Unit)
    BY <1>3, BlockUnits DEF Unit
  <2>. QED  BY <2>1, <2>2
<1>8. sent' = [sent EXCEPT ![c] = more] /\ wire' = [wire EXCEPT ![c] = wire[c] \o b]
  BY <1>2 DEF Block, Size
<1> HIDE DEF b, more
<1>9. wire[c] \o b \in Seq(Unit)
  BY <1>5, <1>7
<1>10. /\ sent' \in [Clients -> Seq(RequestType)] /\ wire' \in [Clients -> Seq(Unit)]
       /\ sent'[c] = more /\ wire'[c] = wire[c] \o b
       /\ \A d \in Clients : d # c => sent'[d] = sent[d] /\ wire'[d] = wire[d]
  BY <1>4, <1>6, <1>8, <1>9
<1>11. \A d \in Clients : Len(sent'[d]) <= MaxReq
  <2>1. Len(more) <= MaxReq
    BY <1>1, <1>5, <1>6, SizeAssumption
  <2>. QED  BY <1>4, <1>10, <2>1
<1>12. TableType' /\ ClientType'
  BY <1>1, <1>10, <1>11 DEF Core, TableType, ClientType
<1>13. SlotInv'
  BY <1>1 DEF Core, SlotInv
<1>14. QueueInv'
  <2>1. \A d \in Clients : link[d] \in {"none", "queued"} => Fresh(d)'
    <3> SUFFICES ASSUME NEW d \in Clients, link[d] \in {"none", "queued"} PROVE Fresh(d)'
      OBVIOUS
    <3>1. d # c /\ Fresh(d)
      BY <1>1 DEF Core, QueueInv
    <3>2. sent'[d] = sent[d] /\ wire'[d] = wire[d] /\ handled' = handled /\ got' = got
      BY <1>1, <1>10, <3>1
    <3>. QED  BY <3>1, <3>2 DEF Fresh
  <2>2. /\ Queues(backlog)
        /\ \A l \in Listeners : \A i \in 1 .. Len(backlog[l]) : link[backlog[l][i]] = "queued"
    BY Waiting
  <2>3. backlog' = backlog /\ link' = link
    BY <1>1
  <2>. QED  BY <2>1, <2>2, <2>3 DEF QueueInv
<1>15. TalkInv'
  <2> SUFFICES ASSUME NEW j \in Slots, conns[j] # Free
               PROVE  Talk(conns[j], sent'[conns[j].cli], wire'[conns[j].cli],
                           Len(handled[conns[j].cli]), Len(got[conns[j].cli]))
    BY <1>1 DEF TalkInv
  <2> DEFINE d == conns[j].cli
             x == conns[j]
             h == Len(handled[d])
             g == Len(got[d])
  <2>1. /\ x \in ConnType /\ d \in Clients /\ h \in Nat /\ g \in Nat
        /\ Talk(x, sent[d], wire[d], h, g)
    BY InUse
  <2>2. CASE d = c
    <3> HIDE DEF x, h, g
    <3>1. Talk(x, sent[c], wire[c], h, g)
      BY <2>1, <2>2
    <3>2. Talk(x, Append(sent[c], r), wire[c] \o Block(Len(sent[c]) + 1, r), h, g)
      BY <1>3, <1>5, <2>1, <3>1, TalkMore
    <3>3. Talk(x, sent'[c], wire'[c], h, g)
      BY <1>10, <3>2 DEF more, b
    <3>. QED  BY <2>2, <3>3 DEF x, h, g
  <2>3. CASE d # c
    BY <1>10, <2>1, <2>3
  <2>. QED  BY <2>2, <2>3
<1>16. ServedInOrder'
  <2> SUFFICES ASSUME NEW d \in Clients
               PROVE  /\ Len(handled[d]) <= Len(sent'[d]) /\ Len(got[d]) <= Len(sent'[d])
                      /\ \A n \in 1 .. Len(handled[d]) : handled[d][n] = Units(d, n)'
                      /\ \A n \in 1 .. Len(got[d]) : got[d][n] = Expected(sent'[d][n])
    BY <1>1 DEF ServedInOrder
  <2>1. /\ Len(handled[d]) <= Len(sent[d]) /\ Len(got[d]) <= Len(sent[d])
        /\ \A n \in 1 .. Len(handled[d]) : handled[d][n] = Units(d, n)
        /\ \A n \in 1 .. Len(got[d]) : got[d][n] = Expected(sent[d][n])
    BY DEF ServedInOrder
  <2>2. /\ Len(handled[d]) \in Nat /\ Len(got[d]) \in Nat /\ Len(sent[d]) \in Nat
    BY <1>4
  <2>3. \A n \in 1 .. Len(sent[d]) : sent'[d][n] = sent[d][n]
    BY <1>6, <1>10
  <2>4. Len(sent[d]) <= Len(sent'[d]) /\ Len(sent'[d]) \in Nat
    <3>1. Len(sent[c]) <= Len(more) /\ Len(more) \in Nat
      BY <1>5, <1>6
    <3>2. CASE d = c
      BY <1>10, <3>1, <3>2
    <3>3. CASE d # c
      <4>1. sent'[d] = sent[d]
        BY <1>10, <3>3
      <4>. QED  BY <2>2, <4>1
    <3>. QED  BY <3>2, <3>3
  <2>5. \A n \in 1 .. Len(sent[d]) : Units(d, n)' = Units(d, n)
    BY <2>3 DEF Units
  <2>6. /\ \A n \in 1 .. Len(handled[d]) : n \in 1 .. Len(sent[d])
        /\ \A n \in 1 .. Len(got[d]) : n \in 1 .. Len(sent[d])
    BY <2>1, <2>2
  <2>7. Len(handled[d]) <= Len(sent'[d]) /\ Len(got[d]) <= Len(sent'[d])
    BY <2>1, <2>2, <2>4
  <2>8. \A n \in 1 .. Len(handled[d]) : handled[d][n] = Units(d, n)'
    BY <2>1, <2>5, <2>6
  <2>9. \A n \in 1 .. Len(got[d]) : got[d][n] = Expected(sent'[d][n])
    BY <2>1, <2>3, <2>6
  <2>. QED  BY <2>7, <2>8, <2>9
<1>. QED  BY <1>12, <1>13, <1>14, <1>15, <1>16 DEF Core

\* The end of main: nothing is connected, and nobody waits.
LEMMA Ends ==
  ASSUME Core, ServedInOrder, mf_http_close_all
  PROVE  Core' /\ ServedInOrder'
<1>1. /\ \A k \in Slots : conns[k] = Free
      /\ backlog' = [l \in Listeners |-> <<>>]
      /\ link' = [c \in Clients |-> IF Linked(c) THEN "closed" ELSE link[c]]
      /\ UNCHANGED <<conns, gone, sent, wire, handled, got>>
  BY DEF mf_http_close_all
<1>2. link \in [Clients -> {"none", "queued", "open", "closed"}]
  BY DEF Core, ClientType
<1>3. link' \in [Clients -> {"none", "queued", "open", "closed"}]
  BY <1>1, <1>2
<1>4. \A d \in Clients : link'[d] \in {"none", "queued"} => link[d] \in {"none", "queued"}
  BY <1>1
<1>5. <<>> \in Seq(Clients) /\ \A i : i \notin 1 .. Len(<<>>)
  OBVIOUS
<1>6. \A l \in Listeners : \A i : i \notin 1 .. Len(backlog'[l])
  BY <1>1, <1>5
<1>7. Queues(backlog')
  <2>1. backlog' \in [Listeners -> Seq(Clients)]
    BY <1>1, <1>5
  <2>. QED  BY <1>6, <2>1 DEF Queues
<1>. QED  BY <1>1, <1>3, <1>4, <1>6, <1>7, QueueStep

\* Steps that change none of it.
LEMMA Otherwise ==
  ASSUME Core, ServedInOrder,
         UNCHANGED <<backlog, conns, link, sent, wire, handled, got>>, gone' \subseteq Clients
  PROVE  Core' /\ ServedInOrder'
<1>1. TableType' /\ ClientType' /\ SlotInv' /\ TalkInv'
  BY DEF Core, TableType, ClientType, SlotInv, TalkInv
<1>2. QueueInv'
  <2>1. \A d \in Clients : Fresh(d) => Fresh(d)'
    BY DEF Fresh
  <2>2. /\ Queues(backlog)
        /\ \A l \in Listeners : \A i \in 1 .. Len(backlog[l]) : link[backlog[l][i]] = "queued"
        /\ \A d \in Clients : link[d] \in {"none", "queued"} => Fresh(d)
    BY DEF Core, QueueInv
  <2>3. backlog' = backlog /\ link' = link
    OBVIOUS
  <2>. QED  BY <2>1, <2>2, <2>3 DEF QueueInv
<1>. QED  BY <1>1, <1>2, ServedKept DEF Core

----------------------------------------------------------------------------
(* The theorems. *)

ListenType ==
    /\ phase \in {"up", "quit", "down"}
    /\ lopen \subseteq Listeners
    /\ listen_fd \in Listeners \union {None}
    /\ pending_listen_fd \in Listeners \union {None}

HttpInv == ListenType /\ Core /\ ServedInOrder

\* The invariant holds at first.
LEMMA HttpInit == Init => HttpInv
<1> SUFFICES ASSUME Init PROVE HttpInv
  OBVIOUS
<1> DEFINE none == <<>>
<1>1. /\ none \in Seq(RequestType) /\ none \in Seq(Unit) /\ none \in Seq(Seq(Unit))
      /\ none \in Seq(Reply) /\ none \in Seq(Clients) /\ Len(none) = 0
  OBVIOUS
<1> HIDE DEF none
<1>2. /\ backlog = [l \in Listeners |-> none] /\ conns = [k \in Slots |-> Free]
      /\ link = [c \in Clients |-> "none"] /\ gone = {}
      /\ sent = [c \in Clients |-> none] /\ wire = [c \in Clients |-> none]
      /\ handled = [c \in Clients |-> none] /\ got = [c \in Clients |-> none]
  BY DEF Init, none
<1>3. ListenType
  BY ListenAssumption DEF Init, ListenType
<1>4. TableType
  BY <1>2, FreeTyped DEF TableType
<1>5. ClientType
  <2>1. \A c \in Clients : Len(sent[c]) <= MaxReq
    <3>1. 0 <= MaxReq
      BY SizeAssumption
    <3>. QED  BY <1>1, <1>2, <3>1
  <2>. QED  BY <1>1, <1>2, <2>1 DEF ClientType
<1>6. SlotInv
  BY <1>2, FreeTyped DEF SlotInv
<1>7. QueueInv
  <2>1. \A l \in Listeners : \A i : i \notin 1 .. Len(backlog[l])
    BY <1>1, <1>2
  <2>2. Queues(backlog)
    <3>1. backlog \in [Listeners -> Seq(Clients)]
      BY <1>1, <1>2
    <3>. QED  BY <2>1, <3>1 DEF Queues
  <2>3. \A c \in Clients : Fresh(c)
    BY <1>2 DEF Fresh, none
  <2>. QED  BY <2>1, <2>2, <2>3 DEF QueueInv
<1>8. TalkInv
  BY <1>2 DEF TalkInv
<1>9. ServedInOrder
  <2> SUFFICES ASSUME NEW c \in Clients
               PROVE  /\ Len(handled[c]) <= Len(sent[c]) /\ Len(got[c]) <= Len(sent[c])
                      /\ \A n \in 1 .. Len(handled[c]) : handled[c][n] = Units(c, n)
                      /\ \A n \in 1 .. Len(got[c]) : got[c][n] = Expected(sent[c][n])
    BY DEF ServedInOrder
  <2>1. Len(handled[c]) = 0 /\ Len(sent[c]) = 0 /\ Len(got[c]) = 0
    BY <1>1, <1>2
  <2>2. \A n : n \notin 1 .. 0
    OBVIOUS
  <2>. QED  BY <2>1, <2>2
<1>. QED  BY <1>3, <1>4, <1>5, <1>6, <1>7, <1>8, <1>9 DEF HttpInv, Core

\* Every step keeps the invariant, one lemma per step.
LEMMA HttpNext ==
  ASSUME HttpInv, ListenersInv, [Next]_vars
  PROVE  HttpInv'
<1> USE DEF HttpInv
<1>1. Core /\ ServedInOrder /\ ListenType
  OBVIOUS
<1>2. phase = "up" => listen_fd \in Listeners
  BY DEF ListenersInv, ListenType
<1>3. UNCHANGED <<phase, listeners>> => ListenType'
  BY DEF ListenType, listeners
<1>4. CASE \E k \in Slots : OwnSlice(k) \/ conn_do_send(k) \/ Idle(k)
  <2>1. ListenType'
    BY <1>3, <1>4, SlicesKeepListeners
  <2>2. PICK k \in Slots : OwnSlice(k) \/ conn_do_send(k) \/ Idle(k)
    BY <1>4
  <2>3. CASE conn_do_recv(k)
    BY <2>1, <2>3, Receives
  <2>4. CASE RecvEnd(k) \/ SendFails(k) \/ IdleClose(k) \/ QuitClose(k)
    BY <2>1, <2>4, Closes
  <2>5. CASE conn_do_send(k)
    BY <2>1, <2>5, Sends
  <2>6. CASE Idle(k)
    BY <2>1, <2>6, GrowsStale
  <2>. QED  BY <2>2, <2>3, <2>4, <2>5, <2>6 DEF OwnSlice
<1>5. CASE accept_one_fd
  <2>1. phase = "up" /\ UNCHANGED <<phase, listeners>>
    BY <1>5 DEF accept_one_fd
  <2>. QED  BY <1>2, <1>3, <1>5, <2>1, Accepts
<1>6. CASE SwapListen
  <2>1. phase = "up" /\ ListenType'
    BY <1>6 DEF SwapListen, ListenType
  <2>. QED  BY <1>2, <1>6, <2>1, Swaps
<1>7. CASE \E l \in Listeners : mf_http_rebind_listen(l)
  <2>1. PICK l \in Listeners : mf_http_rebind_listen(l)
    BY <1>7
  <2>2. phase' = phase /\ listen_fd' = listen_fd /\ pending_listen_fd' = l
        /\ lopen' = (lopen \ {pending_listen_fd}) \union {l}
    BY <2>1 DEF mf_http_rebind_listen, ClosePending
  <2>3. ListenType'
    BY <2>2 DEF ListenType
  <2>. QED  BY <2>1, <2>3, Rebinds DEF ListenType
<1>8. CASE \E c \in Clients : Connect(c) \/ ClientSend(c) \/ ClientClose(c)
  <2>1. ListenType'
    BY <1>3, <1>8, ClientsKeepListeners
  <2>2. PICK c \in Clients : Connect(c) \/ ClientSend(c) \/ ClientClose(c)
    BY <1>8
  <2>3. CASE Connect(c)
    BY <2>1, <2>3, Connects DEF ListenType
  <2>4. CASE ClientSend(c)
    BY <2>1, <2>4, SendsRequest
  <2>5. CASE ClientClose(c)
    <3>1. UNCHANGED <<backlog, conns, link, sent, wire, handled, got>> /\ gone' \subseteq Clients
      BY <2>5 DEF ClientClose, Core, ClientType
    <3>. QED  BY <2>1, <3>1, Otherwise
  <2>. QED  BY <2>2, <2>3, <2>4, <2>5
<1>9. CASE Signal
  <2>1. ListenType'
    BY <1>9 DEF Signal, ListenType, listeners
  <2>2. UNCHANGED <<backlog, conns, link, sent, wire, handled, got>> /\ gone' \subseteq Clients
    BY <1>9 DEF Signal, Core, ClientType
  <2>. QED  BY <2>1, <2>2, Otherwise
<1>10. CASE mf_http_close_all
  <2>1. ListenType'
    BY <1>10 DEF mf_http_close_all, ListenType
  <2>. QED  BY <1>10, <2>1, Ends
<1>11. CASE UNCHANGED vars
  <2>1. UNCHANGED <<phase, listeners>>
    BY <1>11 DEF vars
  <2>2. UNCHANGED <<backlog, conns, link, sent, wire, handled, got>> /\ gone' \subseteq Clients
    BY <1>11 DEF vars, Core, ClientType
  <2>. QED  BY <1>3, <2>1, <2>2, Otherwise
<1>. QED
  BY <1>4, <1>5, <1>6, <1>7, <1>8, <1>9, <1>10, <1>11 DEF Next, AcceptSlice

\* The invariant holds in every state.
LEMMA HttpInvariant == Spec => []HttpInv
BY HttpInit, HttpNext, ListenersInvariant, PTL DEF Spec

\* No buffer outgrows its array: what conn_do_recv asks for leaves room for the
\* longest header it accepts and the longest body.
LEMMA InBuffer ==
  ASSUME Core, NEW k \in Slots
  PROVE  Len(conns[k].in) <= HdrCap + BodyCap
<1> DEFINE c == conns[k].cli
           h == Len(handled[c])
           len == Len(conns[k].in)
           r == sent[c][h + 1]
<1>1. CASE conns[k] = Free
  <2>1. conns[k].in = <<>>
    BY <1>1 DEF Free
  <2>2. len = 0
    BY <2>1
  <2>. QED  BY <2>2, Sizes
<1>2. CASE conns[k] # Free
  <2>1. /\ conns[k] \in ConnType /\ c \in Clients /\ h \in Nat
        /\ Talk(conns[k], sent[c], wire[c], h, Len(got[c]))
        /\ sent[c] \in Seq(RequestType) /\ wire[c] \in Seq(Unit)
    BY <1>2, InUse
  <2>2. conns[k].in \in Seq(Unit) /\ len \in Nat /\ conns[k].state \in {"closed", "headers", "body", "send"}
    BY <2>1 DEF ConnType, ConnIn
  <2>3. CASE conns[k].state = "headers"
    <3>1. len <= HdrCap
      BY <2>1, <2>3 DEF Talk, InHeaders
    <3>. QED  BY <2>2, <3>1, Sizes
  <2>4. CASE conns[k].state = "body"
    <3>1. /\ conns[k].in # <<>> /\ len < Size(r) /\ Expected(r) = "done"
          /\ Stream(conns[k].in \o wire[c], sent[c], h)
      BY <2>1, <2>4 DEF Talk, Reading, InBody, Framed
    <3>2. r \in RequestType
      BY <2>1, <2>2, <3>1, BufferFirst
    <3>3. r.hdr \in Nat /\ r.cl \in Nat /\ Size(r) = r.hdr + r.cl
      BY <3>2, RequestFacts
    <3>4. r.hdr <= HdrCap /\ r.cl <= BodyCap
      <4>1. Expected(r) = "done"
        BY <3>1
      <4> HIDE DEF r
      <4>2. ~(r.hdr > HdrCap) /\ ~(r.cl > BodyCap)
        BY <4>1 DEF Expected
      <4>. QED  BY <3>3, <4>2, Sizes
    <3>5. len < Size(r)
      BY <3>1
    <3> HIDE DEF r, len
    <3>6. len <= HdrCap + BodyCap
      BY <2>2, <3>3, <3>4, <3>5, Sizes
    <3>. QED  BY <3>6 DEF len
  <2>5. CASE conns[k].state = "send"
    BY <2>1, <2>5 DEF Talk
  <2>6. conns[k].state # "closed"
    BY <2>1 DEF Talk
  <2>. QED  BY <2>2, <2>3, <2>4, <2>5, <2>6
<1>. QED  BY <1>1, <1>2

\* Types, and the bounds of the buffers (conn_do_recv, http_reply), for every
\* size of the buffers and however the bytes are cut into reads.
THEOREM TypeCorrect == Spec => []TypeOK
<1>1. HttpInv => TypeOK
  <2> SUFFICES ASSUME HttpInv PROVE TypeOK
    OBVIOUS
  <2>1. Core /\ ListenType
    BY DEF HttpInv
  <2>2. DOMAIN backlog = Listeners
    BY <2>1 DEF Core, QueueInv, Queues
  <2>3. ASSUME NEW k \in Slots
        PROVE  /\ conns[k].cli \in Clients \union {None}
               /\ conns[k].state \in {"closed", "headers", "body", "send"}
               /\ conns[k].out \in 0 .. OutCap
    <3>1. conns[k] \in ConnType
      BY <2>1 DEF Core, TableType
    <3>. QED  BY <3>1 DEF ConnType, ConnIn
  <2>4. \A k \in Slots : Len(conns[k].in) <= HdrCap + BodyCap
    BY <2>1, InBuffer
  <2>5. /\ link \in [Clients -> {"none", "queued", "open", "closed"}]
        /\ gone \subseteq Clients
        /\ \A c \in Clients : Len(sent[c]) <= MaxReq
    BY <2>1 DEF Core, ClientType
  <2>. QED  BY <2>1, <2>2, <2>3, <2>4, <2>5 DEF TypeOK, ListenType
<1>. QED  BY <1>1, HttpInvariant, PTL

\* However requests are cut into reads and run together in the buffer, the n-th
\* thing a handler is given is exactly the client's n-th request, and the n-th
\* reply is the one to it (parse_headers, conn_do_recv, conn_keep_alive_reset):
\* for any number of clients, slots and requests and every size of the buffers.
THEOREM ServedInOrderHolds == Spec => []ServedInOrder
<1>1. HttpInv => ServedInOrder
  BY DEF HttpInv
<1>. QED  BY <1>1, HttpInvariant, PTL
=============================================================================

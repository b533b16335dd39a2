---------------------------- MODULE SessionProofs ---------------------------
(* Proofs about module Session, for any number of VMAs and of requests that   *)
(* fit into a socket, and whatever goes wrong.                                *)
EXTENDS Session, WellFoundedInduction, TLAPS

Connection == [cmd : Commands, data : Seq(Message), closed : BOOLEAN]

Positions == 1 .. Len(conns)

\* The requests the parasite has still to read on connections for cmd.
Pending(cmd) ==
  {m \in Message : \E k \in Positions : /\ conns[k].cmd = cmd
                                        /\ \E i \in 1 .. Len(conns[k].data) : conns[k].data[i] = m}

\* How far the worker has come.
BeforeGet == {"mprotect_off", "off_loop", "get_pages"}
Getting == {"get_loop", "get_map", "get_region", "get_reply"}
BeforeSet == BeforeGet \cup Getting \cup {"get_failed", "checkpointed", "restore"}
BeforeOn == BeforeSet \cup {"set_loop", "mprotect_on"}
BeforeEnd == BeforeOn \cup {"on_loop", "cmd_end"}
Over == {"get_failed", "failed", "done", "crashed"}

Writing == {"off_loop", "on_loop", "set_loop", "get_failed"} \cup Getting

\* The newest connection is for cmd and open.
Newest(cmd) == conns # <<>> /\ conns[Len(conns)].cmd = cmd /\ ~conns[Len(conns)].closed

\* The worker writes to the newest connection; all are closed while it writes to none.
NewestInv ==
  /\ wpc \in {"off_loop", "on_loop"} => Newest("MPROTECT")
  /\ wpc \in Getting \cup {"get_failed"} => Newest("GET_PAGES")
  /\ wpc = "set_loop" => Newest("SET_PAGES")
  /\ wpc \notin Writing => \A k \in Positions : conns[k].closed

\* The commands come in the order of the worker's steps.
OrderInv ==
  /\ \A k \in Positions :
       /\ wpc # "mprotect_off"
       /\ wpc \in BeforeGet => conns[k].cmd # "GET_PAGES"
       /\ wpc \in BeforeSet => conns[k].cmd # "SET_PAGES"
       /\ wpc \in BeforeEnd => conns[k].cmd # "END"
  /\ \A j, k \in Positions : j < k =>
       /\ conns[j].cmd # "END"
       /\ conns[j].cmd \in {"GET_PAGES", "SET_PAGES"} => conns[k].cmd # "GET_PAGES"

\* A connection holds requests of its own kind.
KindInv ==
  /\ \A m \in Pending("MPROTECT") : m.what \in {"open", "orig"}
  /\ \A m \in Pending("GET_PAGES") : m.what \in {"map", "tx", "drop"}
  /\ \A m \in Pending("SET_PAGES") : m.what = "orig"

\* What restores a protection comes after what changes one.
HasOrig(s) == \E i \in 1 .. Len(s) : s[i].what = "orig"
AllOrig(s) == \A i \in 1 .. Len(s) : s[i].what = "orig"

UndoInv ==
  /\ wpc \in BeforeOn => \A m \in Pending("MPROTECT") : m.what = "open"
  /\ wpc = "on_loop" => AllOrig(conns[Len(conns)].data)
  /\ \A j, k \in Positions : j <= k /\ conns[j].cmd = "MPROTECT" /\ conns[k].cmd = "MPROTECT"
       /\ HasOrig(conns[j].data) => AllOrig(conns[k].data)

\* A parasite that will read no request any more, and has not exited.
Halted == ppc \in {"unbound", "trapped", "dead"}

\* What the parasite is at is the first connection.
HeadInv ==
  /\ ppc \in {"start", "unbound"} => conns = <<>>
  /\ ppc \in {"mprotect", "get", "madvise", "set", "exited", "trapped"} => conns # <<>>
  /\ ppc = "mprotect" => conns[1].cmd = "MPROTECT"
  /\ ppc \in {"get", "madvise"} => conns[1].cmd = "GET_PAGES"
  /\ ppc = "madvise" => conns[1].data # <<>> /\ conns[1].data[1].what = "tx"
  /\ ppc = "set" => conns[1].cmd = "SET_PAGES"
  /\ ppc = "exited" => conns[1].cmd = "END"

\* What the watching thread reports is so, and what the worker then does.
StatusInv ==
  /\ status = "exited" => ppc = "exited"
  /\ status = "stopped" => Halted \/ jobctl # "none"
  /\ status = "signaled" => ppc = "dead"
  /\ wpc = "blobs" => ppc = "exited"
  /\ target = "running" => wpc \in {"done", "crashed"}
  /\ target = "frozen" => wpc \notin {"done", "crashed"}
  /\ Released => ppc = "exited"

Img(v) == [vma |-> v, what |-> "orig"]

\* The region of v is dropped, or is going to be.
Dropped(v) == mem[v] = "zero" \/ \E m \in Pending("GET_PAGES") : m.vma = v /\ m.what \in {"tx", "drop"}

\* The dump.
ImageInv ==
  /\ \A i \in 1 .. Len(image) : image[i].what = "orig"
  /\ Len(image) <= NrVmas
  /\ wpc \in Getting => Len(image) < idx
  /\ wpc \in {"get_map", "get_region", "get_reply"} => idx <= NrVmas

\* What is dropped, or is going to be, is in the dump, or arriving.
DropInv ==
  /\ wpc \in BeforeGet => \A v \in Vmas : ~Dropped(v)
  /\ wpc \notin BeforeGet \cup Over => \A v \in Vmas : Dropped(v) =>
       \/ Saved(v) /\ (wpc \in Getting => v < idx)
       \/ wpc = "get_reply" /\ v = idx

\* A request (i-th of the k-th connection) the parasite has still to reply to.
Asks(k, i) ==
  /\ conns[k].cmd = "GET_PAGES"
  /\ conns[k].data[i].what \in {"map", "tx"}
  /\ ~(ppc = "madvise" /\ k = 1 /\ i = 1)

\* It is the last one, and the worker waits for the reply; once the parasite has
\* replied, it drops the region.
AskInv ==
  wpc \notin Over /\ ~Halted =>
    /\ \A k \in Positions : \A i \in 1 .. Len(conns[k].data) : Asks(k, i) =>
         /\ i = Len(conns[k].data)
         /\ reply = <<>>
         /\ conns[k].data[i].what = "map" => wpc = "get_map"
         /\ conns[k].data[i].what = "tx" => wpc = "get_reply" /\ conns[k].data[i].vma = idx
    /\ ppc = "madvise" /\ wpc = "get_reply" /\ conns[1].data[1].vma = idx => reply = <<"orig">>

\* A reply is what the worker waits for, and was sent before the region is
\* dropped.
ReplyInv ==
  wpc \notin Over =>
    /\ reply # <<>> => wpc \in {"get_map", "get_reply"} /\ ppc \in {"get", "madvise", "trapped", "dead"}
    /\ wpc = "get_map" => reply \in {<<>>, <<"map">>}
    /\ wpc = "get_reply" => reply \in {<<>>, <<"orig">>} /\ (reply = <<>> => mem[idx] = "orig")
    /\ wpc \in Getting => \A m \in Pending("GET_PAGES") : m.what = "drop" => m.vma < idx

\* What was dropped is on its way back.
RestoreInv ==
  /\ wpc = "set_loop" => \A v \in Vmas : Dropped(v) =>
       \/ Img(v) \in Pending("SET_PAGES")
       \/ \E i \in idx .. Len(image) : image[i] = Img(v)
  /\ wpc \in {"mprotect_on", "on_loop", "cmd_end", "status_wait", "blobs"} \/ Released =>
       \A v \in Vmas : Dropped(v) => Img(v) \in Pending("SET_PAGES")

\* A protection that was changed, or is going to be, is on its way back.
Opened(v) == prot[v] = "open" \/ [vma |-> v, what |-> "open"] \in Pending("MPROTECT")

ProtInv ==
  /\ \A v \in Vmas : Opened(v) => v \in ReadOnly
  /\ wpc = "on_loop" => \A v \in Vmas : Opened(v) => v >= idx \/ Img(v) \in Pending("MPROTECT")
  /\ (wpc \in {"cmd_end", "status_wait", "blobs"} \/ Released) /\ ~opts.unreachable /\ jobctl = "none" /\ ~Halted =>
       \A v \in Vmas : Opened(v) => Img(v) \in Pending("MPROTECT")

SessionInv ==
  /\ TypeOK /\ NewestInv /\ OrderInv /\ KindInv /\ UndoInv
  /\ HeadInv /\ StatusInv /\ ImageInv /\ DropInv /\ AskInv /\ ReplyInv /\ RestoreInv /\ ProtInv

-----------------------------------------------------------------------------
(* Sequences. *)

\* A sequence, and what Append, Tail and EXCEPT do to it.
LEMMA SeqOf ==
  ASSUME NEW S, NEW s \in Seq(S)
  PROVE  /\ Len(s) \in Nat /\ DOMAIN s = 1 .. Len(s) /\ \A i \in 1 .. Len(s) : s[i] \in S
         /\ s # <<>> => Len(s) >= 1 /\ Head(s) = s[1] /\ s[1] \in S
         /\ s = <<>> => Len(s) = 0
  <1>1. Len(s) \in Nat /\ DOMAIN s = 1 .. Len(s) /\ \A i \in 1 .. Len(s) : s[i] \in S
    OBVIOUS
  <1>2. s # <<>> => Len(s) >= 1 /\ Head(s) = s[1] /\ s[1] \in S
    OBVIOUS
  <1> QED BY <1>1, <1>2

LEMMA AppendTo ==
  ASSUME NEW S, NEW s \in Seq(S), NEW e \in S, NEW t, t = Append(s, e)
  PROVE  /\ t \in Seq(S) /\ Len(t) = Len(s) + 1 /\ t # <<>>
         /\ \A i \in 1 .. Len(s) : t[i] = s[i]
         /\ t[Len(s) + 1] = e
  <1>1. t \in Seq(S) /\ Len(t) = Len(s) + 1
    OBVIOUS
  <1>2. t # <<>>
    OBVIOUS
  <1>3. (\A i \in 1 .. Len(s) : t[i] = s[i]) /\ t[Len(s) + 1] = e
    OBVIOUS
  <1> QED BY Zenon, <1>1, <1>2, <1>3

LEMMA TailOf ==
  ASSUME NEW S, NEW s \in Seq(S), s # <<>>, NEW t, t = Tail(s)
  PROVE  /\ t \in Seq(S) /\ Len(s) \in Nat /\ Len(s) >= 1 /\ Len(t) = Len(s) - 1
         /\ \A i \in 1 .. Len(t) : t[i] = s[i + 1]
         /\ Head(s) = s[1] /\ s[1] \in S
  <1>1. t \in Seq(S) /\ Len(s) \in Nat /\ Len(s) >= 1 /\ Len(t) = Len(s) - 1
    OBVIOUS
  <1>2. \A i \in 1 .. Len(t) : t[i] = s[i + 1]
    OBVIOUS
  <1> QED BY Zenon, <1>1, <1>2, SeqOf

LEMMA ChangeAt ==
  ASSUME NEW S, NEW s \in Seq(S), NEW n \in 1 .. Len(s), NEW e \in S, NEW t,
         t = [s EXCEPT ![n] = e]
  PROVE  /\ t \in Seq(S) /\ Len(t) = Len(s)
         /\ \A i \in 1 .. Len(s) : i # n => t[i] = s[i]
         /\ t[n] = e
  <1>1. t \in Seq(S) /\ Len(t) = Len(s)
    OBVIOUS
  <1>2. (\A i \in 1 .. Len(s) : i # n => t[i] = s[i]) /\ t[n] = e
    OBVIOUS
  <1> QED BY Zenon, <1>1, <1>2

\* Connections are records, and hold requests.
LEMMA ConnsType ==
  ASSUME TypeOK
  PROVE  /\ conns \in Seq(Connection) /\ Len(conns) \in Nat
         /\ conns # <<>> => Len(conns) >= 1
         /\ conns = <<>> => Len(conns) = 0
         /\ \A k \in Positions : conns[k] \in Connection
  <1>1. conns \in Seq(Connection)
    BY Zenon DEF TypeOK, Connection
  <1>2. \A k \in Positions : conns[k] \in Connection
    BY Zenon, <1>1, SeqOf DEF Positions
  <1>3. Len(conns) \in Nat /\ (conns # <<>> => Len(conns) >= 1) /\ (conns = <<>> => Len(conns) = 0)
    BY Zenon, <1>1, SeqOf
  <1> QED BY Zenon, <1>1, <1>2, <1>3

LEMMA ConnFields ==
  ASSUME NEW c \in Connection
  PROVE  /\ c.cmd \in Commands /\ c.data \in Seq(Message) /\ c.closed \in BOOLEAN
         /\ Len(c.data) \in Nat
         /\ c.data # <<>> => Len(c.data) >= 1
         /\ c.data = <<>> => Len(c.data) = 0
         /\ \A i \in 1 .. Len(c.data) : c.data[i] \in Message
  <1>1. c.cmd \in Commands /\ c.data \in Seq(Message) /\ c.closed \in BOOLEAN
    BY Zenon DEF Connection
  <1>2. \A i \in 1 .. Len(c.data) : c.data[i] \in Message
    BY Zenon, <1>1, SeqOf
  <1>3. Len(c.data) \in Nat /\ (c.data # <<>> => Len(c.data) >= 1) /\ (c.data = <<>> => Len(c.data) = 0)
    BY Zenon, <1>1, SeqOf
  <1> QED BY Zenon, <1>1, <1>2, <1>3

-----------------------------------------------------------------------------
(* What the steps do to the connections. *)

LEMMA SameConns ==
  ASSUME conns' = conns
  PROVE  Positions' = Positions /\ \A cmd : Pending(cmd)' = Pending(cmd)
  BY Zenon DEF Positions, Pending

\* A new connection holds no request yet.
LEMMA OpenStep ==
  ASSUME TypeOK, NEW c \in Connection, c.data = <<>>, conns' = Append(conns, c)
  PROVE  /\ conns' \in Seq(Connection) /\ Len(conns') = Len(conns) + 1 /\ conns' # <<>>
         /\ Positions' = Positions \cup {Len(conns')}
         /\ \A k \in Positions : conns'[k] = conns[k]
         /\ conns'[Len(conns')] = c
         /\ \A cmd : Pending(cmd)' = Pending(cmd)
  <1>1. conns \in Seq(Connection) /\ Len(conns) \in Nat
    BY Zenon, ConnsType
  <1>2. /\ conns' \in Seq(Connection) /\ Len(conns') = Len(conns) + 1 /\ conns' # <<>>
        /\ \A k \in Positions : conns'[k] = conns[k]
        /\ conns'[Len(conns')] = c
    <2> HIDE DEF Connection
    <2> QED BY <1>1, AppendTo DEF Positions
  <1>3. Positions' = Positions \cup {Len(conns')}
    BY <1>1, <1>2 DEF Positions
  <1>4. Len(c.data) = 0
    BY Zenon, ConnFields
  <1>5. ASSUME NEW cmd PROVE Pending(cmd)' = Pending(cmd)
    <2>1. \A k \in Positions' : k \notin Positions => Len(conns'[k].data) = 0
      BY Zenon, <1>2, <1>3, <1>4
    <2>2. ASSUME NEW x \in Message, NEW k \in Positions', conns'[k].cmd = cmd,
                 NEW i \in 1 .. Len(conns'[k].data), conns'[k].data[i] = x
          PROVE  x \in Pending(cmd)
      <3>0. PICK n : n = Len(conns'[k].data)
        BY Zenon
      <3>1. i \in 1 .. n
        BY <2>2, <3>0, Zenon
      <3>2. n # 0
        BY <3>1
      <3>3. k \in Positions
        BY <2>1, <3>0, <3>2, Zenon
      <3>4. conns'[k] = conns[k]
        BY Zenon, <3>3, <1>2
      <3> QED BY Zenon, <3>3, <3>4, <2>2 DEF Pending
    <2>3. ASSUME NEW x \in Message, NEW k \in Positions, conns[k].cmd = cmd,
                 NEW i \in 1 .. Len(conns[k].data), conns[k].data[i] = x
          PROVE  x \in Pending(cmd)'
      <3>1. k \in Positions' /\ conns'[k] = conns[k]
        BY Zenon, <1>2, <1>3
      <3> QED BY Zenon, <3>1, <2>3 DEF Pending
    <2>4. Pending(cmd)' \subseteq Pending(cmd)
      BY <2>2, Zenon DEF Pending
    <2>5. Pending(cmd) \subseteq Pending(cmd)'
      BY <2>3, Zenon DEF Pending
    <2> QED BY Zenon, <2>4, <2>5
  <1> QED BY Zenon, <1>2, <1>3, <1>5

\* A request is the last one on the newest connection.
LEMMA SentStep ==
  ASSUME TypeOK, conns # <<>>, NEW m \in Message, conns' = Sent(m)
  PROVE  LET n == Len(conns) IN
         /\ conns' \in Seq(Connection) /\ Len(conns') = n /\ conns' # <<>>
         /\ n \in Positions
         /\ Positions' = Positions
         /\ \A k \in Positions : conns'[k].cmd = conns[k].cmd /\ conns'[k].closed = conns[k].closed
         /\ \A k \in Positions : k # n => conns'[k].data = conns[k].data
         /\ Len(conns'[n].data) = Len(conns[n].data) + 1
         /\ \A i \in 1 .. Len(conns[n].data) : conns'[n].data[i] = conns[n].data[i]
         /\ conns'[n].data[Len(conns'[n].data)] = m
         /\ \A cmd : Pending(cmd)' = IF cmd = conns[n].cmd THEN Pending(cmd) \cup {m} ELSE Pending(cmd)
  <1> DEFINE n == Len(conns)
             d == conns[n].data
             c == [conns[n] EXCEPT !.data = Append(d, m)]
  <1>1. conns \in Seq(Connection) /\ n \in Nat /\ n \in Positions /\ conns[n] \in Connection
    BY ConnsType DEF Positions
  <1>2. d \in Seq(Message) /\ Len(d) \in Nat
    BY Zenon, <1>1, ConnFields
  <1>3. PICK e : e = Append(d, m)
    BY Zenon
  <1>4. /\ e \in Seq(Message) /\ Len(e) = Len(d) + 1
        /\ \A i \in 1 .. Len(d) : e[i] = d[i]
        /\ e[Len(d) + 1] = m
    <2> HIDE DEF d
    <2> QED BY <1>2, <1>3, AppendTo
  <1>5. c \in Connection /\ c.cmd = conns[n].cmd /\ c.closed = conns[n].closed /\ c.data = e
    BY Zenon, <1>1, <1>3, <1>4 DEF Connection
  <1>6. conns' = [conns EXCEPT ![n] = c]
    BY Zenon DEF Sent
  <1>7. /\ conns' \in Seq(Connection) /\ Len(conns') = n
        /\ \A k \in Positions : k # n => conns'[k] = conns[k]
        /\ conns'[n] = c
    <2> HIDE DEF c
    <2> QED BY <1>1, <1>5, <1>6, ChangeAt DEF Positions
  <1>8. conns' # <<>> /\ Positions' = Positions
    BY <1>1, <1>7, SeqOf DEF Positions
  <1> HIDE DEF c
  <1>9. \A k \in Positions : conns'[k].cmd = conns[k].cmd /\ conns'[k].closed = conns[k].closed
    BY Zenon, <1>5, <1>7
  <1>10. \A k \in Positions : k # n => conns'[k].data = conns[k].data
    BY Zenon, <1>7
  <1>11. /\ Len(conns'[n].data) = Len(d) + 1
         /\ \A i \in 1 .. Len(d) : conns'[n].data[i] = d[i]
         /\ conns'[n].data[Len(d) + 1] = m
    BY Zenon, <1>4, <1>5, <1>7
  <1> HIDE DEF d
  <1>12. ASSUME NEW cmd
         PROVE  Pending(cmd)' = IF cmd = conns[n].cmd THEN Pending(cmd) \cup {m} ELSE Pending(cmd)
    <2>1. Pending(cmd)' \subseteq IF cmd = conns[n].cmd THEN Pending(cmd) \cup {m} ELSE Pending(cmd)
      <3> SUFFICES ASSUME NEW x \in Message, NEW k \in Positions, conns'[k].cmd = cmd,
                          NEW i \in 1 .. Len(conns'[k].data), conns'[k].data[i] = x
                   PROVE  x \in IF cmd = conns[n].cmd THEN Pending(cmd) \cup {m} ELSE Pending(cmd)
        BY <1>8 DEF Pending
      <3>1. CASE k # n
        BY Zenon, <3>1, <1>9, <1>10 DEF Pending
      <3>2. CASE k = n /\ i = Len(d) + 1
        BY Zenon, <3>2, <1>9, <1>11
      <3>3. CASE k = n /\ i # Len(d) + 1
        <4>1. i \in 1 .. Len(d)
          BY <3>3, <1>2, <1>11
        <4>2. d[i] = x /\ conns[n].cmd = cmd
          BY Zenon, <3>3, <4>1, <1>9, <1>11
        <4> QED BY Zenon, <4>1, <4>2, <1>1 DEF Pending, d
      <3> QED BY Zenon, <3>1, <3>2, <3>3
    <2>2. Pending(cmd) \subseteq Pending(cmd)'
      <3> SUFFICES ASSUME NEW x \in Message, NEW k \in Positions, conns[k].cmd = cmd,
                          NEW i \in 1 .. Len(conns[k].data), conns[k].data[i] = x
                   PROVE  x \in Pending(cmd)'
        BY Zenon DEF Pending
      <3>1. i \in 1 .. Len(conns'[k].data) /\ conns'[k].data[i] = x
        BY <1>2, <1>10, <1>11 DEF d
      <3> QED BY Zenon, <3>1, <1>8, <1>9 DEF Pending
    <2>3. cmd = conns[n].cmd => m \in Pending(cmd)'
      <3>1. Len(d) + 1 \in 1 .. Len(conns'[n].data)
        BY <1>2, <1>11
      <3> QED BY Zenon, <3>1, <1>1, <1>8, <1>9, <1>11 DEF Pending
    <2> QED BY Zenon, <2>1, <2>2, <2>3
  <1> QED BY Zenon, <1>1, <1>7, <1>8, <1>9, <1>10, <1>11, <1>12 DEF d

\* close() leaves the requests to the parasite.
LEMMA ClosedStep ==
  ASSUME TypeOK, conns # <<>>, conns' = Closed
  PROVE  LET n == Len(conns) IN
         /\ conns' \in Seq(Connection) /\ Len(conns') = n /\ conns' # <<>>
         /\ n \in Positions
         /\ Positions' = Positions
         /\ \A k \in Positions : conns'[k].cmd = conns[k].cmd /\ conns'[k].data = conns[k].data
         /\ \A k \in Positions : k # n => conns'[k].closed = conns[k].closed
         /\ conns'[n].closed
         /\ \A cmd : Pending(cmd)' = Pending(cmd)
  <1> DEFINE n == Len(conns)
             c == [conns[n] EXCEPT !.closed = TRUE]
  <1>1. conns \in Seq(Connection) /\ n \in Nat /\ n \in Positions /\ conns[n] \in Connection
    BY ConnsType DEF Positions
  <1>5. c \in Connection /\ c.cmd = conns[n].cmd /\ c.data = conns[n].data /\ c.closed
    BY Zenon, <1>1 DEF Connection
  <1>6. conns' = [conns EXCEPT ![n] = c]
    BY Zenon DEF Closed
  <1>7. /\ conns' \in Seq(Connection) /\ Len(conns') = n
        /\ \A k \in Positions : k # n => conns'[k] = conns[k]
        /\ conns'[n] = c
    <2> HIDE DEF c
    <2> QED BY <1>1, <1>5, <1>6, ChangeAt DEF Positions
  <1>8. conns' # <<>> /\ Positions' = Positions
    BY <1>1, <1>7, SeqOf DEF Positions
  <1> HIDE DEF c
  <1>9. \A k \in Positions : conns'[k].cmd = conns[k].cmd /\ conns'[k].data = conns[k].data
    BY Zenon, <1>5, <1>7
  <1>10. \A k \in Positions : k # n => conns'[k].closed = conns[k].closed
    BY Zenon, <1>7
  <1>11. conns'[n].closed
    BY Zenon, <1>5, <1>7
  <1>12. ASSUME NEW cmd PROVE Pending(cmd)' = Pending(cmd)
    BY <1>8, <1>9 DEF Pending
  <1> QED BY Zenon, <1>1, <1>7, <1>8, <1>9, <1>10, <1>11, <1>12

\* The parasite reads the first request of the first connection.
LEMMA TookStep ==
  ASSUME TypeOK, conns # <<>>, conns[1].data # <<>>, conns' = Took
  PROVE  /\ conns' \in Seq(Connection) /\ Len(conns') = Len(conns) /\ conns' # <<>>
         /\ 1 \in Positions
         /\ Positions' = Positions
         /\ \A k \in Positions : conns'[k].cmd = conns[k].cmd /\ conns'[k].closed = conns[k].closed
         /\ \A k \in Positions : k # 1 => conns'[k].data = conns[k].data
         /\ Len(conns[1].data) >= 1 /\ Len(conns'[1].data) = Len(conns[1].data) - 1
         /\ \A i \in 1 .. Len(conns'[1].data) : conns'[1].data[i] = conns[1].data[i + 1]
         /\ Conn = conns[1] /\ Msg = conns[1].data[1] /\ Msg \in Message
         /\ \A cmd : cmd # Conn.cmd => Pending(cmd)' = Pending(cmd)
         /\ \A cmd : Pending(cmd)' \subseteq Pending(cmd) /\ Pending(cmd) \subseteq Pending(cmd)' \cup {Msg}
         /\ Msg \in Pending(Conn.cmd)
  <1> DEFINE d == conns[1].data
             c == [conns[1] EXCEPT !.data = Tail(d)]
  <1>1. conns \in Seq(Connection) /\ Len(conns) \in Nat /\ 1 \in Positions /\ conns[1] \in Connection
    BY ConnsType DEF Positions
  <1>2. d \in Seq(Message) /\ Len(d) \in Nat
    BY Zenon, <1>1, ConnFields
  <1>3. PICK e : e = Tail(d)
    BY Zenon
  <1>4. /\ e \in Seq(Message) /\ Len(d) >= 1 /\ Len(e) = Len(d) - 1
        /\ \A i \in 1 .. Len(e) : e[i] = d[i + 1]
        /\ Head(d) = d[1] /\ d[1] \in Message
    <2> d # <<>>
      BY Zenon
    <2> HIDE DEF d
    <2> QED BY <1>2, <1>3, TailOf
  <1>5. c \in Connection /\ c.cmd = conns[1].cmd /\ c.closed = conns[1].closed /\ c.data = e
    BY Zenon, <1>1, <1>3, <1>4 DEF Connection
  <1>6. conns' = [conns EXCEPT ![1] = c]
    BY Zenon DEF Took
  <1>7. /\ conns' \in Seq(Connection) /\ Len(conns') = Len(conns)
        /\ \A k \in Positions : k # 1 => conns'[k] = conns[k]
        /\ conns'[1] = c
    <2> HIDE DEF c
    <2> QED BY <1>1, <1>5, <1>6, ChangeAt DEF Positions
  <1>8. conns' # <<>> /\ Positions' = Positions
    BY <1>1, <1>7, SeqOf DEF Positions
  <1> HIDE DEF c
  <1>9. \A k \in Positions : conns'[k].cmd = conns[k].cmd /\ conns'[k].closed = conns[k].closed
    BY Zenon, <1>5, <1>7
  <1>10. \A k \in Positions : k # 1 => conns'[k].data = conns[k].data
    BY Zenon, <1>7
  <1>11. /\ Len(conns'[1].data) = Len(d) - 1
         /\ \A i \in 1 .. Len(conns'[1].data) : conns'[1].data[i] = d[i + 1]
    BY Zenon, <1>4, <1>5, <1>7
  <1>12. Conn = conns[1] /\ Msg = d[1] /\ Msg \in Message
    <2>1. Head(conns) = conns[1]
      BY Zenon, <1>1, SeqOf
    <2> QED BY Zenon, <2>1, <1>4 DEF Conn, Msg
  <1>13. Msg \in Pending(Conn.cmd)
    <2>1. 1 \in 1 .. Len(d)
      BY <1>2, <1>4
    <2> QED BY Zenon, <2>1, <1>1, <1>12 DEF Pending
  <1> HIDE DEF d
  <1>14. ASSUME NEW cmd PROVE Pending(cmd)' \subseteq Pending(cmd)
    <2> SUFFICES ASSUME NEW x \in Message, NEW k \in Positions, conns'[k].cmd = cmd,
                        NEW i \in 1 .. Len(conns'[k].data), conns'[k].data[i] = x
                 PROVE  x \in Pending(cmd)
      BY Zenon, <1>8 DEF Pending
    <2>1. CASE k # 1
      BY Zenon, <2>1, <1>9, <1>10 DEF Pending
    <2>2. CASE k = 1
      <3>1. i + 1 \in 1 .. Len(d) /\ d[i + 1] = x
        BY <2>2, <1>2, <1>4, <1>11
      <3> QED BY Zenon, <3>1, <2>2, <1>1, <1>9 DEF Pending, d
    <2> QED BY Zenon, <2>1, <2>2
  <1>15. ASSUME NEW cmd, NEW x \in Pending(cmd) PROVE x \in Pending(cmd)' \/ (cmd = Conn.cmd /\ x = Msg)
    <2>1. PICK k \in Positions : conns[k].cmd = cmd /\ \E i \in 1 .. Len(conns[k].data) : conns[k].data[i] = x
      BY Zenon DEF Pending
    <2>2. PICK i \in 1 .. Len(conns[k].data) : conns[k].data[i] = x
      BY Zenon, <2>1
    <2> x \in Message
      BY Zenon DEF Pending
    <2>3. CASE k # 1
      BY Zenon, <2>1, <2>2, <2>3, <1>8, <1>9, <1>10 DEF Pending
    <2>4. CASE k = 1 /\ i = 1
      BY Zenon, <2>1, <2>2, <2>4, <1>12 DEF d
    <2>5. CASE k = 1 /\ i # 1
      <3>1. i - 1 \in 1 .. Len(conns'[1].data) /\ conns'[1].data[i - 1] = d[i]
        <4>1. i - 1 \in 1 .. Len(conns'[1].data) /\ (i - 1) + 1 = i
          BY <2>5, <1>2, <1>11 DEF d
        <4> QED BY Zenon, <4>1, <1>11
      <3> QED BY ZenonT(40), <3>1, <2>1, <2>2, <2>5, <1>8, <1>9 DEF Pending, d
    <2> QED BY Zenon, <2>3, <2>4, <2>5
  <1>16. ASSUME NEW cmd, cmd # Conn.cmd PROVE Pending(cmd)' = Pending(cmd)
    <2>1. Pending(cmd)' \subseteq Pending(cmd)
      BY <1>14, Zenon
    <2>2. Pending(cmd) \subseteq Pending(cmd)'
      BY <1>15, <1>16, Zenon
    <2> QED BY <2>1, <2>2, Zenon
  <1>17. \A cmd : Pending(cmd)' \subseteq Pending(cmd) /\ Pending(cmd) \subseteq Pending(cmd)' \cup {Msg}
    BY <1>14, <1>15, Zenon
  <1> QED BY Zenon, <1>1, <1>4, <1>7, <1>8, <1>9, <1>10, <1>11, <1>12, <1>13, <1>16, <1>17 DEF d

\* The parasite closes a connection with nothing left to read.
LEMMA EofStep ==
  ASSUME TypeOK, conns # <<>>, conns[1].data = <<>>, conns' = Tail(conns)
  PROVE  /\ conns' \in Seq(Connection) /\ Len(conns) >= 1 /\ Len(conns') = Len(conns) - 1
         /\ \A k \in Positions' : k + 1 \in Positions /\ conns'[k] = conns[k + 1]
         /\ \A cmd : Pending(cmd)' = Pending(cmd)
  <1>1. conns \in Seq(Connection) /\ Len(conns) \in Nat /\ 1 \in Positions /\ conns[1] \in Connection
    BY ConnsType DEF Positions
  <1>2. /\ conns' \in Seq(Connection) /\ Len(conns) >= 1 /\ Len(conns') = Len(conns) - 1
        /\ \A k \in 1 .. Len(conns') : conns'[k] = conns[k + 1]
    BY <1>1, TailOf
  <1>3. \A k \in Positions' : k + 1 \in Positions /\ conns'[k] = conns[k + 1]
    BY <1>1, <1>2 DEF Positions
  <1>4. Len(conns[1].data) = 0
    BY Zenon, <1>1, ConnFields
  <1>5. ASSUME NEW cmd PROVE Pending(cmd)' = Pending(cmd)
    <2>1. ASSUME NEW x \in Pending(cmd)' PROVE x \in Pending(cmd)
      <3>1. PICK k \in Positions' : conns'[k].cmd = cmd /\ \E i \in 1 .. Len(conns'[k].data) : conns'[k].data[i] = x
        BY Zenon DEF Pending
      <3>2. k + 1 \in Positions /\ conns'[k] = conns[k + 1]
        BY Zenon, <1>3
      <3> QED BY Zenon, <3>1, <3>2 DEF Pending
    <2>2. ASSUME NEW x \in Pending(cmd) PROVE x \in Pending(cmd)'
      <3>1. PICK k \in Positions : conns[k].cmd = cmd /\ \E i \in 1 .. Len(conns[k].data) : conns[k].data[i] = x
        BY Zenon DEF Pending
      <3>2. k # 1
        BY <3>1, <1>4
      <3>3. k - 1 \in Positions' /\ conns'[k - 1] = conns[k]
        <4>1. k - 1 \in Positions' /\ (k - 1) + 1 = k
          BY <3>2, <1>1, <1>2 DEF Positions
        <4> QED BY Zenon, <4>1, <1>3
      <3> QED BY Zenon, <3>1, <3>3 DEF Pending
    <2> QED BY Zenon, <2>1, <2>2
  <1> QED BY Zenon, <1>2, <1>3, <1>5

\* NextReadOnly(i) is the first of the VMAs from i on that are not writable.
LEMMA SmallestOf ==
  ASSUME NEW S \in SUBSET Nat, S # {}
  PROVE  Min(S) \in S /\ \A m \in S : Min(S) <= m
  <1> DEFINE R == OpToRel(<, Nat)
  <1>1. R = {ss \in Nat \X Nat : ss[1] < ss[2]}
    BY Zenon DEF OpToRel
  <1>2. IsWellFoundedOn(R, Nat)
    BY Zenon, NatLessThanWellFounded
  <1> HIDE DEF R
  <1>3. PICK n \in S : \A m \in S : ~ (<<m, n>> \in R)
    BY Zenon, <1>2, WFMin
  <1>4. ASSUME NEW m \in S PROVE n <= m
    <2>1. m < n => <<m, n>> \in R
      BY Zenon, <1>1
    <2> QED BY <1>3, <2>1
  <1> QED BY Zenon, <1>4 DEF Min

LEMMA NextOne ==
  ASSUME NEW i \in Nat, NEW v, v = NextReadOnly(i)
  PROVE  /\ v # 0 => v \in ReadOnly /\ v \in Vmas /\ v >= i /\ \A u \in ReadOnly : u >= i => u >= v
         /\ v = 0 => \A u \in ReadOnly : u < i
  <1> DEFINE left == {u \in ReadOnly : u >= i}
  <1>1. ReadOnly \subseteq Vmas /\ Vmas \subseteq Nat /\ 0 \notin Vmas
    BY SessionAssumption DEF Vmas
  <1>2. CASE left = {}
    BY <1>1, <1>2 DEF NextReadOnly
  <1>3. CASE left # {}
    <2>1. v = Min(left)
      BY Zenon, <1>3 DEF NextReadOnly
    <2>2. left \in SUBSET Nat
      BY Zenon, <1>1
    <2>3. v \in left /\ \A m \in left : v <= m
      <3> HIDE DEF left
      <3> QED BY <1>3, <2>1, <2>2, SmallestOf
    <2>4. v \in ReadOnly /\ v \in Vmas /\ v >= i
      BY Zenon, <1>1, <2>3
    <2>5. \A u \in ReadOnly : u >= i => u >= v
      BY Zenon, <1>1, <2>3
    <2> QED BY Zenon, <1>1, <2>4, <2>5
  <1> QED BY Zenon, <1>2, <1>3

\* The requests.
LEMMA Requests ==
  ASSUME TypeOK
  PROVE  /\ idx \in Nat /\ idx >= 1
         /\ \A cmd \in Commands : NewConn(cmd) \in Connection /\ NewConn(cmd).data = <<>>
                                  /\ NewConn(cmd).cmd = cmd /\ ~NewConn(cmd).closed
         /\ LET c == [NewConn("END") EXCEPT !.closed = TRUE]
            IN  c \in Connection /\ c.data = <<>> /\ c.cmd = "END" /\ c.closed
         /\ \A v \in Vmas : \A w \in {"open", "orig", "map", "tx", "drop"} : [vma |-> v, what |-> w] \in Message
         /\ Len(image) \in Nat
         /\ \A i \in 1 .. Len(image) : image[i] \in [vma : Vmas, what : {"orig", "zero"}] /\ image[i] \in Message
  <1>1. idx \in Nat /\ idx >= 1
    BY SessionAssumption DEF TypeOK
  <1>2. \A cmd \in Commands : NewConn(cmd) \in Connection /\ NewConn(cmd).data = <<>>
                              /\ NewConn(cmd).cmd = cmd /\ ~NewConn(cmd).closed
    <2>1. <<>> \in Seq(Message)
      OBVIOUS
    <2> QED BY Zenon, <2>1 DEF NewConn, Connection
  <1>3. LET c == [NewConn("END") EXCEPT !.closed = TRUE]
        IN  c \in Connection /\ c.data = <<>> /\ c.cmd = "END" /\ c.closed
    <2>1. <<>> \in Seq(Message)
      OBVIOUS
    <2> QED BY Zenon, <2>1 DEF NewConn, Connection, Commands
  <1>4. \A v \in Vmas : \A w \in {"open", "orig", "map", "tx", "drop"} : [vma |-> v, what |-> w] \in Message
    BY Zenon DEF Message
  <1>5. PICK S : S = [vma : Vmas, what : {"orig", "zero"}]
    BY Zenon
  <1>6. image \in Seq(S)
    BY Zenon, <1>5 DEF TypeOK
  <1>7. Len(image) \in Nat /\ \A i \in 1 .. Len(image) : image[i] \in S
    BY Zenon, <1>6, SeqOf
  <1>8. S \subseteq Message
    BY Zenon, <1>5 DEF Message
  <1> QED BY Zenon, <1>1, <1>2, <1>3, <1>4, <1>5, <1>7, <1>8

-----------------------------------------------------------------------------
(* Every step is one of six kinds for the connections and the worker's place. *)

OpenMove ==
  \E c \in Connection :
    /\ c.data = <<>>
    /\ conns' = Append(conns, c)
    /\ CanConnect
    /\ \/ wpc = "mprotect_off" /\ wpc' = "off_loop" /\ c.cmd = "MPROTECT" /\ ~c.closed
       \/ wpc = "get_pages" /\ wpc' = "get_loop" /\ c.cmd = "GET_PAGES" /\ ~c.closed
       \/ wpc = "restore" /\ wpc' = "set_loop" /\ c.cmd = "SET_PAGES" /\ ~c.closed
       \/ wpc = "mprotect_on" /\ wpc' = "on_loop" /\ c.cmd = "MPROTECT" /\ ~c.closed
       \/ wpc = "cmd_end" /\ wpc' = "status_wait" /\ c.cmd = "END" /\ c.closed
    /\ UNCHANGED <<ppc, reply, mem, prot>>

SendMove ==
  \E m \in Message :
    /\ conns # <<>>
    /\ conns' = Sent(m)
    /\ \/ wpc = "off_loop" /\ wpc' = "off_loop" /\ m.what = "open" /\ m.vma \in ReadOnly
       \/ wpc = "get_loop" /\ wpc' = "get_map" /\ m.what = "map"
       \/ wpc = "get_region" /\ wpc' = "get_reply" /\ m.what = "tx" /\ m.vma = idx
       \/ wpc = "get_region" /\ wpc' \in {"get_loop", "get_failed"} /\ m.what = "drop" /\ m.vma = idx
       \/ wpc = "set_loop" /\ wpc' = "set_loop" /\ m.what = "orig"
       \/ wpc = "on_loop" /\ wpc' = "on_loop" /\ m.what = "orig"
    /\ UNCHANGED <<ppc, reply, mem, prot>>

CloseMove ==
  /\ conns # <<>>
  /\ conns' = Closed
  /\ \/ wpc = "off_loop" /\ wpc' = "get_pages"
     \/ wpc = "get_loop" /\ wpc' = "checkpointed"
     \/ wpc = "get_failed" /\ wpc' = "failed"
     \/ wpc = "set_loop" /\ wpc' \in {"failed", "mprotect_on"}
     \/ wpc = "on_loop" /\ wpc' = "cmd_end"
  /\ UNCHANGED <<ppc, reply, mem, prot>>

KeepMove ==
  /\ conns' = conns
  /\ \/ wpc' = wpc
     \/ wpc = "mprotect_off" /\ wpc' = "get_pages"
     \/ wpc = "get_pages" /\ wpc' = "failed"
     \/ wpc \in {"get_loop", "get_map"} /\ wpc' \in {"get_loop", "get_region", "get_failed"}
     \/ wpc = "get_region" /\ wpc' = "get_failed"
     \/ wpc = "get_reply" /\ wpc' \in {"get_loop", "get_failed"}
     \/ wpc = "checkpointed" /\ wpc' \in {"restore", "done", "crashed"}
     \/ wpc = "restore" /\ wpc' = "failed"
     \/ wpc = "mprotect_on" /\ wpc' = "cmd_end"
     \/ wpc = "cmd_end" /\ wpc' = "status_wait"
     \/ wpc = "status_wait" /\ wpc' \in {"blobs", "failed", "assert"}
     \/ wpc = "blobs" /\ wpc' \in {"done", "assert"}
     \/ wpc = "assert" /\ wpc' = "crashed"
     \/ wpc = "failed" /\ wpc' = "done"

TakeMove ==
  /\ conns # <<>>
  /\ conns[1].data # <<>>
  /\ conns' = Took
  /\ wpc' = wpc
  /\ \/ ppc = "mprotect" /\ ppc' = "mprotect" /\ prot' = [prot EXCEPT ![Msg.vma] = Msg.what]
     \/ ppc \in {"get", "madvise"} /\ ppc' = "get"
     \/ ppc = "set" /\ ppc' = "set" /\ mem' = [mem EXCEPT ![Msg.vma] = Msg.what]

DropMove ==
  /\ conns # <<>>
  /\ conns[1].data = <<>>
  /\ conns[1].closed
  /\ conns' = Tail(conns)
  /\ wpc' = wpc
  /\ ppc \in {"mprotect", "get", "set"} /\ ppc' = "accept"

LEMMA Moves ==
  ASSUME SessionInv, [Next]_vars
  PROVE  OpenMove \/ SendMove \/ CloseMove \/ KeepMove \/ TakeMove \/ DropMove
  <1> USE DEF Goto
  <1>0. TypeOK /\ conns \in Seq(Connection)
    BY Zenon, ConnsType DEF SessionInv
  <1>1. /\ idx \in Nat /\ idx >= 1
        /\ \A cmd \in Commands : NewConn(cmd) \in Connection /\ NewConn(cmd).data = <<>>
                                 /\ NewConn(cmd).cmd = cmd /\ ~NewConn(cmd).closed
    BY Zenon, <1>0, Requests
  <1>2. \A v \in Vmas : \A w \in {"open", "orig", "map", "tx", "drop"} : [vma |-> v, what |-> w] \in Message
    BY Zenon, <1>0, Requests
  <1>3. wpc \in Writing => conns # <<>>
    BY Zenon DEF SessionInv, NewestInv, Newest, Writing, Getting
  <1>4. conns # <<>> => Conn = conns[1]
    BY Zenon, <1>0, SeqOf DEF Conn
  <1>5. ppc \in {"mprotect", "get", "madvise", "set"} => conns # <<>>
    BY Zenon DEF SessionInv, HeadInv
  <1>6. wpc \in {"get_map", "get_region", "get_reply"} => idx \in Vmas
    BY <1>1, SessionAssumption DEF SessionInv, ImageInv, Vmas
  <1>7. CASE UNCHANGED vars
    BY Zenon, <1>7 DEF vars, KeepMove
  <1>8. ASSUME NEW pc \in {"off_loop", "on_loop"}, NEW p, NEW next, Mprotect(pc, p, next),
               pc = "off_loop" => p = "open" /\ next = "get_pages",
               pc = "on_loop" => p = "orig" /\ next = "cmd_end"
        PROVE  SendMove \/ CloseMove
    <2>1. PICK v : v = NextReadOnly(idx)
      BY Zenon
    <2>2. v # 0 => v \in Vmas /\ v \in ReadOnly
      BY Zenon, <2>1, <1>1, NextOne
    <2>3. CASE v # 0 /\ conns' = Sent([vma |-> v, what |-> p]) /\ wpc' = pc
      BY Zenon, <2>2, <2>3, <1>2, <1>3, <1>8 DEF SendMove, Mprotect, parasite, Writing
    <2>4. CASE conns' = Closed /\ wpc' = next
      BY Zenon, <2>4, <1>3, <1>8 DEF CloseMove, Mprotect, parasite, Writing
    <2> QED BY Zenon, <1>8, <2>1, <2>3, <2>4 DEF Mprotect
  <1>9. CASE MprotectOff
    BY Zenon, <1>9, <1>1 DEF MprotectOff, Open, OpenMove, KeepMove, Commands, parasite
  <1>10. CASE OffLoop
    BY Zenon, <1>10, <1>8 DEF OffLoop
  <1>11. CASE GetPages
    BY Zenon, <1>11, <1>1 DEF GetPages, Open, OpenMove, KeepMove, Commands, parasite
  <1>12. CASE GetVma
    <2>1. idx \in Vmas
      BY <1>12, <1>1, SessionAssumption DEF GetVma, Vmas
    <2> QED BY Zenon, <2>1, <1>12, <1>2, <1>3
               DEF GetVma, WithPagemap, SendMove, KeepMove, Writing, Getting, parasite
  <1>13. CASE GetMap
    BY Zenon, <1>13 DEF GetMap, WithPagemap, KeepMove
  <1>14. CASE GetRegion
    <2>1. idx \in Vmas /\ conns # <<>>
      BY Zenon, <1>14, <1>3, <1>6 DEF GetRegion, Writing, Getting
    <2>2. CASE opts.proc_mem /\ HasRoom
               /\ conns' = Sent([vma |-> idx, what |-> IF opts.proc_mem THEN "drop" ELSE "tx"])
      <3>1. conns' = Sent([vma |-> idx, what |-> "drop"]) /\ [vma |-> idx, what |-> "drop"] \in Message
        BY Zenon, <2>1, <2>2, <1>2
      <3>2. wpc' \in {"get_loop", "get_failed"}
        BY Zenon, <2>2, <1>14 DEF GetRegion, write_vm_region
      <3> QED BY Zenon, <2>1, <3>1, <3>2, <1>14 DEF GetRegion, SendMove, parasite
    <2>3. CASE ~opts.proc_mem /\ HasRoom
               /\ conns' = Sent([vma |-> idx, what |-> IF opts.proc_mem THEN "drop" ELSE "tx"])
               /\ wpc' = "get_reply"
      <3>1. conns' = Sent([vma |-> idx, what |-> "tx"]) /\ [vma |-> idx, what |-> "tx"] \in Message
        BY Zenon, <2>1, <2>3, <1>2
      <3> QED BY Zenon, <2>1, <2>3, <3>1, <1>14 DEF GetRegion, SendMove, parasite
    <2>4. CASE conns' = conns /\ wpc' = "get_failed"
      BY Zenon, <2>4, <1>14 DEF GetRegion, KeepMove
    <2> QED BY Zenon, <1>14, <2>2, <2>3, <2>4 DEF GetRegion
  <1>15. CASE GetReply
    BY Zenon, <1>15 DEF GetReply, write_vm_region, KeepMove
  <1>16. CASE GetDone
    BY Zenon, <1>16, <1>3 DEF GetDone, CloseMove, Writing, Getting, parasite
  <1>17. CASE SetPages
    BY Zenon, <1>17, <1>1 DEF SetPages, Open, OpenMove, KeepMove, Commands, parasite
  <1>18. CASE SetLoop
    <2>1. CASE idx <= Len(image) /\ conns' = Sent(image[idx]) /\ wpc' = "set_loop"
      <3>1. Len(image) \in Nat /\ idx \in 1 .. Len(image)
        BY <2>1, <1>0, <1>1, Requests
      <3>2. image[idx] \in Message /\ image[idx].what = "orig"
        BY Zenon, <3>1, <1>0, Requests DEF SessionInv, ImageInv
      <3> QED BY Zenon, <2>1, <3>2, <1>3, <1>18 DEF SetLoop, SendMove, Writing, parasite
    <2>2. CASE conns' = Closed /\ wpc' \in {"failed", "mprotect_on"}
      BY Zenon, <2>2, <1>3, <1>18 DEF SetLoop, CloseMove, Writing, parasite
    <2> QED BY Zenon, <1>18, <2>1, <2>2 DEF SetLoop
  <1>19. CASE MprotectOn
    BY Zenon, <1>19, <1>1 DEF MprotectOn, Open, OpenMove, KeepMove, Commands, parasite
  <1>20. CASE OnLoop
    BY Zenon, <1>20, <1>8 DEF OnLoop
  <1>21. CASE CmdEnd
    <2>1. PICK c : c = [NewConn("END") EXCEPT !.closed = TRUE]
      BY Zenon
    <2>2. c \in Connection /\ c.data = <<>> /\ c.cmd = "END" /\ c.closed
      BY Zenon, <2>1, <1>0, Requests
    <2> QED BY Zenon, <1>21, <2>1, <2>2 DEF CmdEnd, OpenMove, KeepMove, parasite
  <1>22. CASE Restore \/ WorkerSigchld \/ StatusWaitTimeout \/ StatusWaitReturn \/ Unseize
              \/ AssertFails \/ KillTarget
    BY Zenon, <1>22
       DEF Restore, WorkerSigchld, StatusWaitTimeout, StatusWaitReturn, Unseize, AssertFails,
                 KillTarget, KeepMove
  <1>23. CASE Listen \/ Accept \/ cmd_get_pages_tx \/ Die \/ TargetKilled \/ TargetStopped \/ TargetContinued
    BY Zenon, <1>23 DEF Listen, Accept, cmd_get_pages_tx, Die, TargetKilled, TargetStopped,
                        TargetContinued, KeepMove, worker, parasite
  <1>24. CASE cmd_mprotect \/ cmd_get_pages_map \/ cmd_get_pages_madvise
    BY Zenon, <1>24, <1>4, <1>5
       DEF cmd_mprotect, cmd_get_pages_map, cmd_get_pages_madvise, HasMsg, TakeMove, worker
  <1>25. CASE cmd_set_pages
    BY Zenon, <1>25, <1>4, <1>5 DEF cmd_set_pages, HasMsg, TakeMove, KeepMove, worker
  <1>26. CASE Eof
    BY Zenon, <1>26, <1>4, <1>5 DEF Eof, DropMove, worker
  <1>27. CASE WatchSeize \/ Watch
    BY Zenon, <1>27 DEF WatchSeize, Watch, KeepMove, worker
  <1> QED
    BY Zenon, <1>7, <1>9, <1>10, <1>11, <1>12, <1>13, <1>14, <1>15, <1>16, <1>17, <1>18, <1>19,
       <1>20, <1>21,
       <1>22, <1>23, <1>24, <1>25, <1>26, <1>27
    DEF Next, Worker, Parasite, Watcher

-----------------------------------------------------------------------------
(* The connections. *)

LEMMA NewestNext ==
  ASSUME SessionInv, [Next]_vars
  PROVE  NewestInv'
  <1>0. TypeOK /\ NewestInv /\ Len(conns) \in Nat
    BY Zenon, ConnsType DEF SessionInv
  <1> USE DEF NewestInv, Newest, Writing, Getting
  <1>1. CASE OpenMove
    <2>1. PICK c \in Connection :
            /\ c.data = <<>>
            /\ conns' = Append(conns, c)
            /\ \/ wpc = "mprotect_off" /\ wpc' = "off_loop" /\ c.cmd = "MPROTECT" /\ ~c.closed
               \/ wpc = "get_pages" /\ wpc' = "get_loop" /\ c.cmd = "GET_PAGES" /\ ~c.closed
               \/ wpc = "restore" /\ wpc' = "set_loop" /\ c.cmd = "SET_PAGES" /\ ~c.closed
               \/ wpc = "mprotect_on" /\ wpc' = "on_loop" /\ c.cmd = "MPROTECT" /\ ~c.closed
               \/ wpc = "cmd_end" /\ wpc' = "status_wait" /\ c.cmd = "END" /\ c.closed
      BY Zenon, <1>1 DEF OpenMove
    <2>2. /\ conns' # <<>> /\ Positions' = Positions \cup {Len(conns')}
          /\ \A k \in Positions : conns'[k] = conns[k]
          /\ conns'[Len(conns')] = c
      BY Zenon, <1>0, <2>1, OpenStep
    <2>3. wpc' = "status_wait" => \A k \in Positions' : conns'[k].closed
      BY Zenon, <1>0, <2>1, <2>2
    <2> QED BY Zenon, <2>1, <2>2, <2>3
  <1>2. CASE SendMove
    <2>1. /\ conns' # <<>> /\ Len(conns') = Len(conns)
          /\ conns'[Len(conns)].cmd = conns[Len(conns)].cmd
          /\ conns'[Len(conns)].closed = conns[Len(conns)].closed
      BY Zenon, <1>0, <1>2, SentStep DEF SendMove
    <2> QED BY Zenon, <2>1, <1>0, <1>2 DEF SendMove
  <1>3. CASE CloseMove
    <2>1. wpc' \notin Writing
      BY Zenon, <1>3 DEF CloseMove
    <2>2. \A k \in Positions' : conns'[k].closed
      <3>1. /\ Positions' = Positions
            /\ \A k \in Positions : k # Len(conns) => conns'[k].closed = conns[k].closed
            /\ conns'[Len(conns)].closed
        BY Zenon, <1>0, <1>3, ClosedStep DEF CloseMove
      <3>2. \A k \in Positions : k # Len(conns) => conns[k].closed
        BY <1>0 DEF TypeOK, Positions
      <3> QED BY Zenon, <3>1, <3>2
    <2> QED BY Zenon, <2>1, <2>2
  <1>4. CASE KeepMove
    BY Zenon, <1>0, <1>4, SameConns DEF KeepMove
  <1>5. CASE TakeMove
    <2>1. /\ conns' # <<>> /\ Len(conns') = Len(conns) /\ Positions' = Positions
          /\ \A k \in Positions : conns'[k].cmd = conns[k].cmd /\ conns'[k].closed = conns[k].closed
      BY Zenon, <1>0, <1>5, TookStep DEF TakeMove
    <2>2. conns # <<>> => Len(conns) \in Positions
      BY <1>0, ConnsType DEF Positions
    <2> QED BY Zenon, <2>1, <2>2, <1>0, <1>5 DEF TakeMove
  <1>6. CASE DropMove
    <2>1. /\ conns' \in Seq(Connection) /\ Len(conns) >= 1 /\ Len(conns') = Len(conns) - 1
          /\ \A k \in Positions' : k + 1 \in Positions /\ conns'[k] = conns[k + 1]
      BY Zenon, <1>0, <1>6, EofStep DEF DropMove
    <2>2. \A k \in Positions' : wpc \notin Writing => conns'[k].closed
      BY Zenon, <2>1, <1>0
    <2>3. ASSUME wpc \in Writing PROVE conns' # <<>> /\ conns'[Len(conns')] = conns[Len(conns)]
      <3>1. ~conns[Len(conns)].closed
        BY Zenon, <2>3, <1>0
      <3>2. Len(conns) # 1
        BY Zenon, <3>1, <1>6 DEF DropMove
      <3>3. Len(conns') \in Positions' /\ Len(conns') + 1 = Len(conns)
        BY <2>1, <3>2, <1>0 DEF Positions
      <3>4. conns' # <<>>
        BY <2>1, <3>2, <1>0
      <3> QED BY Zenon, <2>1, <3>3, <3>4
    <2> QED BY Zenon, <2>2, <2>3, <1>0, <1>6 DEF DropMove
  <1> QED BY Zenon, Moves, <1>1, <1>2, <1>3, <1>4, <1>5, <1>6

LEMMA OrderNext ==
  ASSUME SessionInv, [Next]_vars
  PROVE  OrderInv'
  <1>0. TypeOK /\ OrderInv /\ Len(conns) \in Nat
    BY Zenon, ConnsType DEF SessionInv
  <1> USE DEF BeforeGet, BeforeSet, BeforeEnd, BeforeOn, Getting
  <1>1. CASE OpenMove
    <2>1. PICK c \in Connection :
            /\ c.data = <<>>
            /\ conns' = Append(conns, c)
            /\ \/ wpc = "mprotect_off" /\ wpc' = "off_loop" /\ c.cmd = "MPROTECT" /\ ~c.closed
               \/ wpc = "get_pages" /\ wpc' = "get_loop" /\ c.cmd = "GET_PAGES" /\ ~c.closed
               \/ wpc = "restore" /\ wpc' = "set_loop" /\ c.cmd = "SET_PAGES" /\ ~c.closed
               \/ wpc = "mprotect_on" /\ wpc' = "on_loop" /\ c.cmd = "MPROTECT" /\ ~c.closed
               \/ wpc = "cmd_end" /\ wpc' = "status_wait" /\ c.cmd = "END" /\ c.closed
      BY Zenon, <1>1 DEF OpenMove
    <2>2. /\ Positions' = Positions \cup {Len(conns')} /\ Len(conns') = Len(conns) + 1
          /\ \A k \in Positions : conns'[k] = conns[k]
          /\ conns'[Len(conns')] = c
      BY Zenon, <1>0, <2>1, OpenStep
    <2>3. \A k \in Positions' :
            /\ wpc' # "mprotect_off"
            /\ wpc' \in BeforeGet => conns'[k].cmd # "GET_PAGES"
            /\ wpc' \in BeforeSet => conns'[k].cmd # "SET_PAGES"
            /\ wpc' \in BeforeEnd => conns'[k].cmd # "END"
      BY ZenonT(40), <1>0, <2>1, <2>2 DEF OrderInv
    <2>4. \A k \in Positions :
            /\ conns[k].cmd # "END"
            /\ conns[k].cmd \in {"GET_PAGES", "SET_PAGES"} => c.cmd # "GET_PAGES"
      BY Zenon, <1>0, <2>1 DEF OrderInv
    <2>5. ASSUME NEW j \in Positions', NEW k \in Positions', j < k
          PROVE  /\ conns'[j].cmd # "END"
                 /\ conns'[j].cmd \in {"GET_PAGES", "SET_PAGES"} => conns'[k].cmd # "GET_PAGES"
      <3>1. j \in Positions
        BY <2>2, <2>5, <1>0 DEF Positions
      <3>2. CASE k \in Positions
        BY Zenon, <3>1, <3>2, <2>2, <2>5, <1>0 DEF OrderInv
      <3>3. CASE k = Len(conns')
        BY Zenon, <3>1, <3>3, <2>2, <2>4
      <3> QED BY Zenon, <3>2, <3>3, <2>2
    <2> QED BY Zenon, <2>3, <2>5 DEF OrderInv
  <1>2. CASE SendMove
    <2>1. Positions' = Positions /\ \A k \in Positions : conns'[k].cmd = conns[k].cmd
      BY Zenon, <1>0, <1>2, SentStep DEF SendMove
    <2> QED BY <2>1, <1>0, <1>2 DEF SendMove, OrderInv
  <1>3. CASE CloseMove
    <2>1. Positions' = Positions /\ \A k \in Positions : conns'[k].cmd = conns[k].cmd
      BY Zenon, <1>0, <1>3, ClosedStep DEF CloseMove
    <2> QED BY <2>1, <1>0, <1>3 DEF CloseMove, OrderInv
  <1>4. CASE KeepMove
    BY Zenon, <1>0, <1>4, SameConns DEF KeepMove, OrderInv
  <1>5. CASE TakeMove
    <2>1. Positions' = Positions /\ \A k \in Positions : conns'[k].cmd = conns[k].cmd
      BY Zenon, <1>0, <1>5, TookStep DEF TakeMove
    <2> QED BY <2>1, <1>0, <1>5 DEF TakeMove, OrderInv
  <1>6. CASE DropMove
    <2>1. \A k \in Positions' : k \in Nat /\ k + 1 \in Positions /\ conns'[k] = conns[k + 1]
      BY <1>0, <1>6, EofStep DEF DropMove, Positions
    <2>2. \A k \in Positions' :
            /\ wpc' # "mprotect_off"
            /\ wpc' \in BeforeGet => conns'[k].cmd # "GET_PAGES"
            /\ wpc' \in BeforeSet => conns'[k].cmd # "SET_PAGES"
            /\ wpc' \in BeforeEnd => conns'[k].cmd # "END"
      BY Zenon, <1>0, <1>6, <2>1 DEF DropMove, OrderInv
    <2>3. ASSUME NEW j \in Positions', NEW k \in Positions', j < k
          PROVE  /\ conns'[j].cmd # "END"
                 /\ conns'[j].cmd \in {"GET_PAGES", "SET_PAGES"} => conns'[k].cmd # "GET_PAGES"
      <3>1. j + 1 < k + 1
        BY <2>1, <2>3
      <3> QED BY Zenon, <3>1, <2>1, <1>0 DEF OrderInv
    <2> QED BY Zenon, <2>2, <2>3 DEF OrderInv
  <1> QED BY Zenon, Moves, <1>1, <1>2, <1>3, <1>4, <1>5, <1>6

LEMMA KindNext ==
  ASSUME SessionInv, [Next]_vars
  PROVE  KindInv'
  <1>0. TypeOK /\ KindInv /\ NewestInv
    BY Zenon DEF SessionInv
  <1>1. CASE OpenMove
    <2>1. \A cmd : Pending(cmd)' = Pending(cmd)
      BY Zenon, <1>0, <1>1, OpenStep DEF OpenMove
    <2> QED BY Zenon, <2>1, <1>0 DEF KindInv
  <1>2. CASE SendMove
    <2>1. PICK m \in Message :
            /\ conns # <<>>
            /\ conns' = Sent(m)
            /\ \/ wpc = "off_loop" /\ m.what = "open"
               \/ wpc \in Getting /\ m.what \in {"map", "tx", "drop"}
               \/ wpc = "set_loop" /\ m.what = "orig"
               \/ wpc = "on_loop" /\ m.what = "orig"
      BY Zenon, <1>2 DEF SendMove, Getting
    <2>2. PICK c : c = conns[Len(conns)].cmd
      BY Zenon
    <2>3. \A cmd : Pending(cmd)' = IF cmd = c THEN Pending(cmd) \cup {m} ELSE Pending(cmd)
      BY Zenon, <1>0, <2>1, <2>2, SentStep
    <2>4. /\ wpc \in {"off_loop", "on_loop"} => c = "MPROTECT"
          /\ wpc \in Getting => c = "GET_PAGES"
          /\ wpc = "set_loop" => c = "SET_PAGES"
      BY Zenon, <1>0, <2>2 DEF NewestInv, Newest
    <2> QED BY Zenon, <2>1, <2>3, <2>4, <1>0 DEF KindInv, Getting
  <1>3. CASE CloseMove
    <2>1. \A cmd : Pending(cmd)' = Pending(cmd)
      BY Zenon, <1>0, <1>3, ClosedStep DEF CloseMove
    <2> QED BY Zenon, <2>1, <1>0 DEF KindInv
  <1>4. CASE KeepMove
    BY Zenon, <1>0, <1>4, SameConns DEF KeepMove, KindInv
  <1>5. CASE TakeMove
    <2>1. \A cmd : Pending(cmd)' \subseteq Pending(cmd)
      BY Zenon, <1>0, <1>5, TookStep DEF TakeMove
    <2> QED BY Zenon, <2>1, <1>0 DEF KindInv
  <1>6. CASE DropMove
    <2>1. \A cmd : Pending(cmd)' = Pending(cmd)
      BY Zenon, <1>0, <1>6, EofStep DEF DropMove
    <2> QED BY Zenon, <2>1, <1>0 DEF KindInv
  <1> QED BY Zenon, Moves, <1>1, <1>2, <1>3, <1>4, <1>5, <1>6

LEMMA PendingAt ==
  ASSUME TypeOK, NEW k \in Positions
  PROVE  /\ Len(conns[k].data) \in Nat
         /\ \A i \in 1 .. Len(conns[k].data) : conns[k].data[i] \in Pending(conns[k].cmd) /\ conns[k].data[i] \in Message
  <1>1. conns[k] \in Connection
    BY Zenon, ConnsType
  <1>2. Len(conns[k].data) \in Nat /\ \A i \in 1 .. Len(conns[k].data) : conns[k].data[i] \in Message
    BY Zenon, <1>1, ConnFields
  <1> QED BY Zenon, <1>2 DEF Pending

\* An open connection is not closed by the parasite.
LEMMA NewestStays ==
  ASSUME TypeOK, DropMove, ~conns[Len(conns)].closed
  PROVE  Len(conns') \in Positions' /\ conns'[Len(conns')] = conns[Len(conns)] /\ conns' # <<>>
  <1>1. /\ conns' \in Seq(Connection) /\ Len(conns) >= 1 /\ Len(conns') = Len(conns) - 1
        /\ \A k \in Positions' : k + 1 \in Positions /\ conns'[k] = conns[k + 1]
    BY Zenon, EofStep DEF DropMove
  <1>2. Len(conns) # 1 /\ Len(conns) \in Nat
    BY Zenon, ConnsType DEF DropMove
  <1>3. Len(conns') \in Positions' /\ Len(conns') + 1 = Len(conns)
    BY <1>1, <1>2 DEF Positions
  <1>4. conns' # <<>>
    BY <1>1, <1>2
  <1> QED BY Zenon, <1>1, <1>3, <1>4

LEMMA UndoNext ==
  ASSUME SessionInv, [Next]_vars
  PROVE  UndoInv'
  <1>0. TypeOK /\ UndoInv /\ NewestInv /\ Len(conns) \in Nat
    BY Zenon, ConnsType DEF SessionInv
  <1>a. \A k \in Positions : Len(conns[k].data) \in Nat /\ k \in Nat /\ k <= Len(conns)
    BY <1>0, PendingAt DEF Positions
  <1>b. wpc \in BeforeOn => \A m \in Pending("MPROTECT") : m.what = "open"
    BY Zenon, <1>0 DEF UndoInv
  <1>c. wpc = "on_loop" => AllOrig(conns[Len(conns)].data)
    BY Zenon, <1>0 DEF UndoInv
  <1>d. ASSUME NEW j \in Positions, NEW k \in Positions, j <= k, conns[j].cmd = "MPROTECT",
               conns[k].cmd = "MPROTECT", HasOrig(conns[j].data)
        PROVE  AllOrig(conns[k].data)
    BY Zenon, <1>0, <1>d DEF UndoInv
  <1> SUFFICES /\ wpc' \in BeforeOn => \A m \in Pending("MPROTECT")' : m.what = "open"
               /\ wpc' = "on_loop" => AllOrig(conns'[Len(conns')].data)
               /\ \A j, k \in Positions' : j <= k /\ conns'[j].cmd = "MPROTECT" /\ conns'[k].cmd = "MPROTECT"
                    /\ HasOrig(conns'[j].data) => AllOrig(conns'[k].data)
    BY Zenon DEF UndoInv, HasOrig, AllOrig
  <1>1. CASE OpenMove
    <2>1. PICK c \in Connection : c.data = <<>> /\ conns' = Append(conns, c)
      BY Zenon, <1>1 DEF OpenMove
    <2>2. /\ Positions' = Positions \cup {Len(conns')} /\ Len(conns') = Len(conns) + 1
          /\ \A k \in Positions : conns'[k] = conns[k]
          /\ conns'[Len(conns')] = c
          /\ \A cmd : Pending(cmd)' = Pending(cmd)
      BY Zenon, <1>0, <2>1, OpenStep
    <2>3. AllOrig(c.data) /\ ~HasOrig(c.data)
      BY <2>1, ConnFields DEF AllOrig, HasOrig
    <2>4. ASSUME NEW j \in Positions', NEW k \in Positions', j <= k,
                 conns'[j].cmd = "MPROTECT", conns'[k].cmd = "MPROTECT", HasOrig(conns'[j].data)
          PROVE  AllOrig(conns'[k].data)
      <3>1. CASE k = Len(conns') \/ j = Len(conns')
        BY Zenon, <3>1, <2>2, <2>3, <2>4
      <3>2. CASE k \in Positions /\ j \in Positions
        BY Zenon, <3>2, <2>2, <2>4, <1>d
      <3> QED BY Zenon, <3>1, <3>2, <2>2
    <2>5. wpc' = "on_loop" => AllOrig(conns'[Len(conns')].data)
      BY Zenon, <2>2, <2>3
    <2>6. wpc' \in BeforeOn => wpc \in BeforeOn
      BY Zenon, <1>1 DEF OpenMove, BeforeOn, BeforeSet, BeforeGet, Getting
    <2> QED BY Zenon, <2>2, <2>4, <2>5, <2>6, <1>b
  <1>2. CASE SendMove
    <2> DEFINE n == Len(conns)
    <2>1. PICK m \in Message :
            /\ conns # <<>>
            /\ conns' = Sent(m)
            /\ \/ wpc = "off_loop" /\ wpc' = "off_loop" /\ m.what = "open"
               \/ wpc \in Getting \cup {"set_loop"} /\ wpc' # "on_loop"
               \/ wpc = "on_loop" /\ wpc' = "on_loop" /\ m.what = "orig"
      BY Zenon, <1>2 DEF SendMove, Getting
    <2>2. /\ Len(conns') = n /\ n \in Positions /\ Positions' = Positions
          /\ \A k \in Positions : conns'[k].cmd = conns[k].cmd
          /\ \A k \in Positions : k # n => conns'[k].data = conns[k].data
          /\ Len(conns'[n].data) = Len(conns[n].data) + 1
          /\ \A i \in 1 .. Len(conns[n].data) : conns'[n].data[i] = conns[n].data[i]
          /\ conns'[n].data[Len(conns'[n].data)] = m
      BY Zenon, <1>0, <2>1, SentStep
    <2>3. \A cmd : Pending(cmd)' = IF cmd = conns[n].cmd THEN Pending(cmd) \cup {m} ELSE Pending(cmd)
      BY Zenon, <1>0, <2>1, SentStep
    <2>4. conns[n].cmd = "MPROTECT" => wpc \in {"off_loop", "on_loop"}
      BY Zenon, <1>0, <2>1 DEF NewestInv, Newest, Getting
    <2>5. wpc' \in BeforeOn => \A x \in Pending("MPROTECT")' : x.what = "open"
      BY Zenon, <1>b, <1>2, <2>1, <2>3, <2>4 DEF SendMove, BeforeOn, BeforeSet, BeforeGet, Getting
    <2>6. wpc' = "on_loop" => AllOrig(conns'[n].data)
      <3> SUFFICES ASSUME wpc' = "on_loop", NEW i \in 1 .. Len(conns'[n].data)
                   PROVE  conns'[n].data[i].what = "orig"
        BY Zenon DEF AllOrig
      <3>1. wpc = "on_loop" /\ m.what = "orig"
        BY Zenon, <2>1
      <3>2. i = Len(conns'[n].data) \/ i \in 1 .. Len(conns[n].data)
        BY <2>2, <1>a
      <3> QED BY Zenon, <3>1, <3>2, <2>2, <1>c DEF AllOrig
    <2>7. ASSUME NEW j \in Positions, NEW k \in Positions, j <= k,
                 conns[j].cmd = "MPROTECT", conns[k].cmd = "MPROTECT", HasOrig(conns'[j].data)
          PROVE  AllOrig(conns'[k].data)
      <3>1. CASE wpc = "on_loop" /\ k = n
        BY Zenon, <3>1, <2>1, <2>6 DEF Getting
      <3>2. CASE wpc # "on_loop" /\ k = n
        <4>1. wpc = "off_loop" /\ wpc' = "off_loop"
          BY Zenon, <3>2, <2>1, <2>4, <2>7 DEF Getting
        <4>2. PICK h \in 1 .. Len(conns'[j].data) : conns'[j].data[h].what = "orig"
          BY Zenon, <2>7 DEF HasOrig
        <4>3. conns'[j].data[h] \in Pending("MPROTECT")'
          <5>1. conns'[j].data[h] \in Message
            <6>1. j # n \/ h = Len(conns'[n].data) \/ h \in 1 .. Len(conns[n].data)
              BY <2>2, <1>a, SMTT(30)
            <6> QED BY Zenon, <6>1, <2>1, <2>2, <1>0, PendingAt
          <5> QED BY Zenon, <5>1, <2>2, <2>7 DEF Pending
        <4> QED BY Zenon, <4>1, <4>2, <4>3, <2>5 DEF BeforeOn, BeforeSet, BeforeGet
      <3>3. CASE k # n
        <4>1. j # n
          BY <3>3, <2>7, <1>a
        <4>2. conns'[j].data = conns[j].data /\ conns'[k].data = conns[k].data
          BY Zenon, <4>1, <3>3, <2>2
        <4> QED BY Zenon, <4>2, <2>7, <1>d
      <3> QED BY Zenon, <3>1, <3>2, <3>3
    <2>8. \A j, k \in Positions' : j <= k /\ conns'[j].cmd = "MPROTECT" /\ conns'[k].cmd = "MPROTECT"
            /\ HasOrig(conns'[j].data) => AllOrig(conns'[k].data)
      BY Zenon, <2>2, <2>7
    <2> QED BY Zenon, <2>2, <2>5, <2>6, <2>8
  <1>3. CASE CloseMove
    <2>1. /\ Positions' = Positions
          /\ \A k \in Positions : conns'[k].cmd = conns[k].cmd /\ conns'[k].data = conns[k].data
          /\ \A cmd : Pending(cmd)' = Pending(cmd)
      BY Zenon, <1>0, <1>3, ClosedStep DEF CloseMove
    <2>2. wpc' # "on_loop" /\ (wpc' \in BeforeOn => wpc \in BeforeOn)
      BY Zenon, <1>3 DEF CloseMove, BeforeOn, BeforeSet, BeforeGet, Getting
    <2> QED BY Zenon, <2>1, <2>2, <1>b, <1>d
  <1>4. CASE KeepMove
    <2>1. Positions' = Positions /\ conns' = conns /\ Pending("MPROTECT")' = Pending("MPROTECT")
      BY Zenon, <1>4, SameConns DEF KeepMove
    <2>2. (wpc' = "on_loop" => wpc = "on_loop") /\ (wpc' \in BeforeOn => wpc \in BeforeOn)
      BY Zenon, <1>4 DEF KeepMove, BeforeOn, BeforeSet, BeforeGet, Getting
    <2> QED BY Zenon, <2>1, <2>2, <1>b, <1>c, <1>d
  <1>5. CASE TakeMove
    <2>1. /\ 1 \in Positions /\ Positions' = Positions /\ Len(conns') = Len(conns)
          /\ \A k \in Positions : conns'[k].cmd = conns[k].cmd
          /\ \A k \in Positions : k # 1 => conns'[k].data = conns[k].data
          /\ Len(conns[1].data) >= 1 /\ Len(conns'[1].data) = Len(conns[1].data) - 1
          /\ \A i \in 1 .. Len(conns'[1].data) : conns'[1].data[i] = conns[1].data[i + 1]
          /\ \A cmd : Pending(cmd)' \subseteq Pending(cmd)
      BY Zenon, <1>0, <1>5, TookStep DEF TakeMove
    <2>2. ASSUME NEW k \in Positions, NEW i \in 1 .. Len(conns'[k].data)
          PROVE  \E h \in 1 .. Len(conns[k].data) : conns'[k].data[i] = conns[k].data[h]
      <3>1. CASE k # 1
        BY Zenon, <3>1, <2>1
      <3>2. CASE k = 1
        <4>1. i + 1 \in 1 .. Len(conns[1].data)
          BY <3>2, <2>1, <1>a
        <4> QED BY Zenon, <4>1, <3>2, <2>1
      <3> QED BY Zenon, <3>1, <3>2
    <2>3. wpc' = wpc
      BY Zenon, <1>5 DEF TakeMove
    <2>4. ASSUME NEW k \in Positions
          PROVE  /\ HasOrig(conns'[k].data) => HasOrig(conns[k].data)
                 /\ AllOrig(conns[k].data) => AllOrig(conns'[k].data)
      <3>1. \A i \in 1 .. Len(conns'[k].data) :
              \E h \in 1 .. Len(conns[k].data) : conns'[k].data[i] = conns[k].data[h]
        BY <2>2, Zenon
      <3>2. HasOrig(conns'[k].data) => HasOrig(conns[k].data)
        BY Zenon, <3>1 DEF HasOrig
      <3>3. AllOrig(conns[k].data) => AllOrig(conns'[k].data)
        BY Zenon, <3>1 DEF AllOrig
      <3> QED BY Zenon, <3>2, <3>3
    <2>5. Len(conns) \in Positions
      BY <2>1, <1>0 DEF Positions
    <2>6. ASSUME NEW j \in Positions, NEW k \in Positions, j <= k, conns'[j].cmd = "MPROTECT",
                 conns'[k].cmd = "MPROTECT", HasOrig(conns'[j].data)
          PROVE  AllOrig(conns'[k].data)
      BY Zenon, <2>1, <2>4, <2>6, <1>d
    <2>7. wpc' = "on_loop" => AllOrig(conns'[Len(conns')].data)
      BY Zenon, <2>1, <2>3, <2>4, <2>5, <1>c
    <2> QED BY Zenon, <2>1, <2>3, <2>6, <2>7, <1>b
  <1>6. CASE DropMove
    <2>1. /\ \A k \in Positions' : k \in Nat /\ k + 1 \in Positions /\ conns'[k] = conns[k + 1]
          /\ \A cmd : Pending(cmd)' = Pending(cmd)
      BY <1>0, <1>6, EofStep DEF DropMove, Positions
    <2>2. wpc' = wpc
      BY Zenon, <1>6 DEF DropMove
    <2>3. wpc' = "on_loop" => AllOrig(conns'[Len(conns')].data)
      <3>1. wpc = "on_loop" => conns'[Len(conns')] = conns[Len(conns)]
        BY Zenon, <1>0, <1>6, NewestStays DEF NewestInv, Newest
      <3> QED BY Zenon, <3>1, <2>2, <1>c
    <2>4. ASSUME NEW j \in Positions', NEW k \in Positions', j <= k, conns'[j].cmd = "MPROTECT",
                 conns'[k].cmd = "MPROTECT", HasOrig(conns'[j].data)
          PROVE  AllOrig(conns'[k].data)
      <3>1. j + 1 <= k + 1 /\ j + 1 \in Positions /\ k + 1 \in Positions
        BY <2>1, <2>4
      <3>2. conns'[j] = conns[j + 1] /\ conns'[k] = conns[k + 1]
        BY Zenon, <2>1
      <3> QED BY Zenon, <3>1, <3>2, <2>4, <1>d
    <2> QED BY Zenon, <2>1, <2>2, <2>3, <2>4, <1>b
  <1> QED BY Zenon, Moves, <1>1, <1>2, <1>3, <1>4, <1>5, <1>6

-----------------------------------------------------------------------------
(* The parasite and the watching thread. *)

\* The worker leaves the first request alone.
LEMMA HeadKept ==
  ASSUME TypeOK, OpenMove \/ SendMove \/ CloseMove \/ KeepMove, conns # <<>>
  PROVE  /\ conns' # <<>>
         /\ conns'[1].cmd = conns[1].cmd
         /\ conns[1].data # <<>> => conns'[1].data # <<>> /\ conns'[1].data[1] = conns[1].data[1]
  <1>0. 1 \in Positions /\ Len(conns) \in Nat
    BY ConnsType DEF Positions
  <1>1. CASE OpenMove
    <2>1. conns' # <<>> /\ \A k \in Positions : conns'[k] = conns[k]
      BY Zenon, <1>1, OpenStep DEF OpenMove
    <2> QED BY Zenon, <1>0, <2>1
  <1>2. CASE SendMove
    <2>1. PICK m \in Message : conns' = Sent(m)
      BY Zenon, <1>2 DEF SendMove
    <2> DEFINE n == Len(conns)
    <2>2. /\ conns' \in Seq(Connection) /\ Len(conns') = n /\ conns' # <<>>
          /\ \A k \in Positions : conns'[k].cmd = conns[k].cmd
          /\ \A k \in Positions : k # n => conns'[k].data = conns[k].data
          /\ Len(conns'[n].data) = Len(conns[n].data) + 1
          /\ \A i \in 1 .. Len(conns[n].data) : conns'[n].data[i] = conns[n].data[i]
      BY Zenon, <2>1, SentStep
    <2>3. CASE n # 1
      BY Zenon, <2>2, <2>3, <1>0
    <2>4. CASE n = 1 /\ conns[1].data # <<>>
      <3>1. conns[1] \in Connection
        BY Zenon, <1>0, ConnsType
      <3>2. Len(conns[1].data) \in Nat /\ Len(conns[1].data) >= 1
        BY Zenon, <2>4, <3>1, ConnFields
      <3>3. conns'[1].data # <<>>
        <4>1. Len(conns'[1].data) # 0
          BY <2>2, <2>4, <3>2
        <4> QED BY <4>1
      <3>4. 1 \in 1 .. Len(conns[1].data)
        BY <3>2
      <3> QED BY Zenon, <2>2, <2>4, <3>3, <3>4, <1>0
    <2>5. CASE n = 1 /\ conns[1].data = <<>>
      BY Zenon, <2>2, <2>5, <1>0
    <2> QED BY Zenon, <2>3, <2>4, <2>5
  <1>3. CASE CloseMove
    <2>1. conns' # <<>> /\ \A k \in Positions : conns'[k].cmd = conns[k].cmd /\ conns'[k].data = conns[k].data
      BY Zenon, <1>3, ClosedStep DEF CloseMove
    <2> QED BY Zenon, <1>0, <2>1
  <1>4. CASE KeepMove
    BY Zenon, <1>4 DEF KeepMove
  <1> QED BY Zenon, <1>1, <1>2, <1>3, <1>4

\* The steps of the others do not change what the parasite is at, but for the
\* worst.
LEMMA PpcNext ==
  ASSUME TypeOK, [Next]_vars
  PROVE  \/ ppc' = ppc
         \/ ppc # "exited" /\ ppc' = "dead"
         \/ Listen \/ Accept \/ cmd_get_pages_tx \/ cmd_get_pages_madvise \/ cmd_set_pages \/ Eof \/ Die
  BY Zenon
     DEF Next, Worker, Parasite, Watcher, vars, parasite, MprotectOff, OffLoop, OnLoop, Mprotect,
     GetPages,
         GetVma, GetMap, GetRegion, GetReply, GetDone, SetPages, SetLoop, MprotectOn, CmdEnd,
         StatusWaitReturn, StatusWaitTimeout, Unseize, AssertFails, KillTarget, Restore, WorkerSigchld,
         cmd_mprotect, cmd_get_pages_map, TargetKilled, TargetStopped, TargetContinued, Dead, WatchSeize, Watch

LEMMA HeadNext ==
  ASSUME SessionInv, [Next]_vars
  PROVE  HeadInv'
  <1>0. TypeOK /\ HeadInv /\ conns \in Seq(Connection)
    BY Zenon, ConnsType DEF SessionInv
  <1>a. conns # <<>> => Conn = conns[1] /\ 1 \in Positions
    BY <1>0, ConnsType, SeqOf DEF Conn, Positions
  <1>b. ppc \in {"mprotect", "get", "madvise", "set"} => conns # <<>>
    BY Zenon, <1>0 DEF HeadInv
  <1>1. CASE ppc' = ppc
    <2>1. CASE conns = <<>> /\ OpenMove
      BY Zenon, <1>0, <1>1, <2>1 DEF HeadInv, OpenMove, CanConnect
    <2>2. CASE conns = <<>> /\ ~OpenMove
      <3>1. conns' = conns
        BY Zenon, <2>2, Moves DEF SendMove, CloseMove, KeepMove, TakeMove, DropMove
      <3> QED BY Zenon, <1>0, <1>1, <2>2, <3>1 DEF HeadInv
    <2>3. CASE conns # <<>> /\ (OpenMove \/ SendMove \/ CloseMove \/ KeepMove)
      <3>1. /\ conns' # <<>>
            /\ conns'[1].cmd = conns[1].cmd
            /\ conns[1].data # <<>> => conns'[1].data # <<>> /\ conns'[1].data[1] = conns[1].data[1]
        BY Zenon, <1>0, <2>3, HeadKept
      <3> QED BY Zenon, <1>0, <1>1, <2>3, <3>1 DEF HeadInv
    <2>4. CASE TakeMove
      <3>1. conns' # <<>> /\ conns'[1].cmd = conns[1].cmd
        BY Zenon, <1>0, <1>a, <2>4, TookStep DEF TakeMove
      <3>2. ppc \in {"mprotect", "get", "set"}
        BY Zenon, <2>4, <1>1 DEF TakeMove
      <3> QED BY Zenon, <1>0, <1>1, <3>1, <3>2 DEF HeadInv
    <2>5. CASE DropMove
      BY Zenon, <1>1, <2>5 DEF DropMove, HeadInv
    <2> QED BY Zenon, Moves, <2>5, <2>1, <2>2, <2>3, <2>4
  <1>2. CASE ppc' = "dead"
    BY Zenon, <1>2 DEF HeadInv
  <1>3. CASE Listen
    BY Zenon, <1>3 DEF Listen, HeadInv
  <1>4. CASE Accept
    <2>1. conns' = conns /\ conns # <<>> /\ Conn = conns[1]
      BY Zenon, <1>4, <1>a DEF Accept
    <2>2. conns[1].cmd \in Commands
      BY Zenon, <1>0, <1>a, <2>1, ConnsType, ConnFields
    <2> QED BY Zenon, <1>4, <2>1, <2>2 DEF Accept, HeadInv, Commands
  <1>5. CASE cmd_get_pages_tx
    <2>1. conns' = conns /\ conns # <<>> /\ Conn = conns[1] /\ conns[1].data # <<>>
      BY Zenon, <1>5, <1>a, <1>b DEF cmd_get_pages_tx, HasMsg
    <2>2. Msg = conns[1].data[1]
      <3>1. conns[1].data \in Seq(Message)
        BY Zenon, <1>0, <1>a, <2>1, ConnsType, ConnFields
      <3> QED BY Zenon, <2>1, <3>1, SeqOf DEF Msg
    <2> QED BY Zenon, <1>0, <1>5, <2>1, <2>2 DEF cmd_get_pages_tx, HasMsg, HeadInv
  <1>6. CASE cmd_get_pages_madvise
    <2>1. conns # <<>> /\ Conn = conns[1] /\ conns[1].data # <<>> /\ conns' = Took
      BY Zenon, <1>6, <1>a, <1>b DEF cmd_get_pages_madvise, HasMsg
    <2>2. conns' # <<>> /\ conns'[1].cmd = conns[1].cmd
      BY Zenon, <1>0, <1>a, <2>1, TookStep
    <2> QED BY Zenon, <1>0, <1>6, <2>2 DEF cmd_get_pages_madvise, HasMsg, HeadInv
  <1>7. CASE cmd_set_pages
    <2>1. CASE ppc' = "trapped" /\ conns' = conns
      BY Zenon, <1>7, <1>b, <2>1 DEF cmd_set_pages, HasMsg, HeadInv
    <2> QED BY Zenon, <1>1, <1>2, <1>7, <2>1 DEF cmd_set_pages, Trap
  <1>8. CASE Eof
    BY Zenon, <1>8 DEF Eof, HeadInv
  <1>9. CASE Die
    BY Zenon, <1>0, <1>9 DEF Die, Trap, HeadInv
  <1> QED BY Zenon, <1>0, PpcNext, <1>1, <1>2, <1>3, <1>4, <1>5, <1>6, <1>7, <1>8, <1>9

LEMMA StatusNext ==
  ASSUME SessionInv, [Next]_vars
  PROVE  StatusInv'
  <1>0. TypeOK /\ HeadInv /\ StatusInv
    BY Zenon DEF SessionInv
  <1> USE DEF StatusInv, Released, Halted
  <1>1. CASE /\ UNCHANGED <<status, jobctl, target>>
             /\ wpc' = wpc \/ (wpc' \notin {"blobs", "done", "crashed"} /\ wpc \notin {"done", "crashed"})
             /\ ppc' = ppc \/ ppc \notin {"exited", "unbound", "trapped", "dead"}
    BY Zenon, <1>0, <1>1
  <1>2. CASE StatusWaitReturn
    BY Zenon, <1>0, <1>2 DEF StatusWaitReturn, Goto, parasite, watcher, parasite_status_ok, TypeOK
  <1>3. CASE Unseize
    BY Zenon, <1>0, <1>3 DEF Unseize, Goto, parasite, watcher
  <1>4. CASE AssertFails
    BY Zenon, <1>0, <1>4 DEF AssertFails, Goto, watcher, Dead, TypeOK
  <1>10. CASE KillTarget
    BY Zenon, <1>0, <1>10 DEF KillTarget, Goto, watcher, Dead
  <1>11. CASE TargetKilled \/ TargetStopped \/ TargetContinued
    BY Zenon, <1>0, <1>11 DEF TargetKilled, TargetStopped, TargetContinued, watcher, worker, parasite, Dead
  <1>12. CASE WorkerSigchld
    BY Zenon, <1>0, <1>12 DEF WorkerSigchld, Goto, watcher
  <1>5. CASE cmd_set_pages \/ Die
    BY Zenon, <1>0, <1>5 DEF cmd_set_pages, Die, Trap, HasMsg, watcher, worker
  <1>6. CASE Watch
    BY Zenon, <1>0, <1>6 DEF Watch, parasite_status_signal, parasite
  <1>7. CASE Listen \/ Accept \/ cmd_mprotect \/ cmd_get_pages_map \/ cmd_get_pages_tx
              \/ cmd_get_pages_madvise \/ Eof
    BY Zenon, <1>1, <1>7
       DEF Listen, Accept, cmd_mprotect, cmd_get_pages_map, cmd_get_pages_tx, cmd_get_pages_madvise,
                      Eof, HasMsg, watcher, worker
  <1>8. CASE WatchSeize \/ StatusWaitTimeout \/ UNCHANGED vars
    BY Zenon, <1>1, <1>8 DEF WatchSeize, StatusWaitTimeout, watcher, parasite, worker, vars
  <1>9. CASE MprotectOff \/ OffLoop \/ GetPages \/ GetVma \/ GetMap \/ GetRegion \/ GetReply \/ GetDone
             \/ SetPages \/ SetLoop \/ MprotectOn \/ OnLoop \/ CmdEnd \/ Restore
    BY Zenon, <1>1, <1>9 DEF MprotectOff, OffLoop, OnLoop, Mprotect, GetPages,
         GetVma, GetMap, GetRegion, GetReply, GetDone, SetPages, SetLoop, MprotectOn, CmdEnd, Restore,
         WithPagemap, write_vm_region, Goto, watcher, parasite
  <1> QED BY Zenon, <1>2, <1>3, <1>4, <1>5, <1>6, <1>7, <1>8, <1>9, <1>10, <1>11, <1>12
          DEF Next, Worker, Parasite, Watcher

-----------------------------------------------------------------------------
(* Types. *)

\* No more than two connections wait.
LEMMA WaitingNext ==
  ASSUME SessionInv, [Next]_vars
  PROVE  ppc' # "dead" => Waiting' <= 2
  <1>0. TypeOK /\ HeadInv /\ Len(conns) \in Nat /\ conns \in Seq(Connection)
    BY Zenon, ConnsType DEF SessionInv
  <1> USE DEF Waiting, Serving
  <1>a. ppc # "dead" => Waiting <= 2
    BY Zenon, <1>0 DEF TypeOK
  <1>b. ppc \in {"mprotect", "get", "madvise", "set", "trapped"} => conns # <<>>
    BY Zenon, <1>0 DEF HeadInv
  <1>1. CASE OpenMove
    <2>1. Len(conns') = Len(conns) + 1 /\ conns' # <<>>
      BY Zenon, <1>0, <1>1, OpenStep DEF OpenMove
    <2>2. Waiting < 2 /\ ppc' = ppc
      BY Zenon, <1>1 DEF OpenMove, CanConnect
    <2> QED BY <2>1, <2>2, <1>0, <1>b
  <1>2. CASE SendMove
    <2>1. Len(conns') = Len(conns) /\ conns' # <<>>
      BY Zenon, <1>0, <1>2, SentStep DEF SendMove
    <2> QED BY Zenon, <2>1, <1>2, <1>a, <1>b DEF SendMove
  <1>3. CASE CloseMove
    <2>1. Len(conns') = Len(conns) /\ conns' # <<>>
      BY Zenon, <1>0, <1>3, ClosedStep DEF CloseMove
    <2> QED BY Zenon, <2>1, <1>3, <1>a, <1>b DEF CloseMove
  <1>4. CASE TakeMove
    <2>1. Len(conns') = Len(conns) /\ conns' # <<>>
      BY Zenon, <1>0, <1>4, TookStep DEF TakeMove
    <2> QED BY Zenon, <2>1, <1>4, <1>a, <1>b DEF TakeMove
  <1>5. CASE DropMove
    <2>1. Len(conns') = Len(conns) - 1
      BY Zenon, <1>0, <1>5, EofStep DEF DropMove
    <2> QED BY Zenon, <2>1, <1>0, <1>5, <1>a, <1>b DEF DropMove
  <1>6. CASE conns' = conns
    <2>1. CASE ppc' = ppc
      BY Zenon, <1>6, <1>a, <2>1
    <2>2. CASE Listen
      BY Zenon, <1>6, <1>a, <2>2 DEF Listen
    <2>3. CASE Accept
      BY <1>0, <1>6, <1>a, <2>3 DEF Accept
    <2>4. CASE cmd_get_pages_tx
      BY Zenon, <1>6, <1>a, <1>b, <2>4 DEF cmd_get_pages_tx, HasMsg
    <2>5. CASE cmd_get_pages_madvise
      BY Zenon, <1>6, <1>a, <1>b, <2>5 DEF cmd_get_pages_madvise, HasMsg
    <2>6. CASE cmd_set_pages
      BY Zenon, <1>6, <1>a, <1>b, <2>6 DEF cmd_set_pages, HasMsg, Trap
    <2>7. CASE Eof
      BY <1>0, <1>6, <1>b, <2>7, EofStep DEF Eof
    <2>8. CASE Die
      BY Zenon, <1>0, <1>6, <1>a, <1>b, <2>8 DEF Die, Trap
    <2> QED BY Zenon, <1>0, PpcNext, <2>5, <2>1, <2>2, <2>3, <2>4, <2>6, <2>7, <2>8
  <1> QED BY Zenon, Moves, <1>1, <1>2, <1>3, <1>4, <1>5, <1>6 DEF KeepMove

\* The request at hand is one of the first connection's.
LEMMA MsgIs ==
  ASSUME SessionInv, ppc \in {"mprotect", "get", "madvise", "set"}, Conn.data # <<>>
  PROVE  /\ conns # <<>> /\ 1 \in Positions /\ Conn = conns[1]
         /\ 1 \in 1 .. Len(conns[1].data) /\ Msg = conns[1].data[1]
         /\ Msg \in Message /\ Msg \in Pending(conns[1].cmd)
         /\ conns[1].cmd = CASE ppc = "mprotect" -> "MPROTECT" [] ppc = "set" -> "SET_PAGES" [] OTHER -> "GET_PAGES"
  <1>1. TypeOK /\ conns # <<>> /\ conns \in Seq(Connection) /\ 1 \in Positions
    BY ConnsType DEF SessionInv, HeadInv, Positions
  <1>2. Conn = conns[1]
    BY Zenon, <1>1, SeqOf DEF Conn
  <1>3. conns[1].data \in Seq(Message) /\ 1 \in 1 .. Len(conns[1].data)
    BY <1>1, <1>2, ConnsType, ConnFields
  <1>4. Msg = conns[1].data[1]
    BY Zenon, <1>2, <1>3, SeqOf DEF Msg
  <1>5. Msg \in Message /\ Msg \in Pending(conns[1].cmd)
    BY Zenon, <1>1, <1>3, <1>4, PendingAt
  <1>6. conns[1].cmd = CASE ppc = "mprotect" -> "MPROTECT" [] ppc = "set" -> "SET_PAGES" [] OTHER -> "GET_PAGES"
    BY Zenon DEF SessionInv, HeadInv
  <1> QED BY Zenon, <1>1, <1>2, <1>3, <1>4, <1>5, <1>6

LEMMA TypeConns ==
  ASSUME SessionInv, [Next]_vars
  PROVE  conns' \in Seq(Connection) /\ \A i \in 1 .. Len(conns') - 1 : conns'[i].closed
  <1>0. TypeOK /\ NewestInv /\ Len(conns) \in Nat /\ conns \in Seq(Connection)
    BY Zenon, ConnsType DEF SessionInv
  <1>a. \A k \in Positions : k # Len(conns) => conns[k].closed
    BY <1>0 DEF TypeOK, Positions
  <1>1. CASE OpenMove
    <2>1. /\ conns' \in Seq(Connection) /\ Len(conns') = Len(conns) + 1
          /\ \A k \in Positions : conns'[k] = conns[k]
      BY Zenon, <1>0, <1>1, OpenStep DEF OpenMove
    <2>2. \A k \in Positions : conns[k].closed
      BY Zenon, <1>0, <1>1 DEF NewestInv, OpenMove, Writing, Getting
    <2> QED BY <1>0, <2>1, <2>2 DEF Positions
  <1>2. CASE SendMove
    <2>1. /\ conns' \in Seq(Connection) /\ Len(conns') = Len(conns)
          /\ \A k \in Positions : conns'[k].closed = conns[k].closed
      BY Zenon, <1>0, <1>2, SentStep DEF SendMove
    <2> QED BY <1>0, <1>a, <2>1 DEF Positions
  <1>3. CASE CloseMove
    <2>1. /\ conns' \in Seq(Connection) /\ Len(conns') = Len(conns)
          /\ \A k \in Positions : k # Len(conns) => conns'[k].closed = conns[k].closed
      BY Zenon, <1>0, <1>3, ClosedStep DEF CloseMove
    <2> QED BY <1>0, <1>a, <2>1 DEF Positions
  <1>4. CASE KeepMove
    BY Zenon, <1>0, <1>4 DEF KeepMove, TypeOK
  <1>5. CASE TakeMove
    <2>1. /\ conns' \in Seq(Connection) /\ Len(conns') = Len(conns)
          /\ \A k \in Positions : conns'[k].closed = conns[k].closed
      BY Zenon, <1>0, <1>5, TookStep DEF TakeMove
    <2> QED BY <1>0, <1>a, <2>1 DEF Positions
  <1>6. CASE DropMove
    <2>1. /\ conns' \in Seq(Connection) /\ Len(conns) >= 1 /\ Len(conns') = Len(conns) - 1
          /\ \A k \in Positions' : k + 1 \in Positions /\ conns'[k] = conns[k + 1]
      BY Zenon, <1>0, <1>6, EofStep DEF DropMove
    <2>2. ASSUME NEW i \in 1 .. Len(conns') - 1 PROVE conns'[i].closed
      <3>1. i \in Positions' /\ i + 1 # Len(conns)
        BY <1>0, <2>1 DEF Positions
      <3> QED BY Zenon, <3>1, <2>1, <1>a
    <2> QED BY Zenon, <2>1, <2>2
  <1> QED BY Zenon, Moves, <1>1, <1>2, <1>3, <1>4, <1>5, <1>6

LEMMA TypeParasite ==
  ASSUME SessionInv, [Next]_vars
  PROVE  /\ reply' \in Seq({"map", "orig", "zero"})
         /\ mem' \in [Vmas -> {"orig", "zero"}]
         /\ prot' \in [Vmas -> {"orig", "open"}]
         /\ ppc' \in {"start", "accept", "mprotect", "get", "madvise", "set",
                      "unbound", "trapped", "exited", "dead"}
  <1>0. TypeOK /\ KindInv
    BY Zenon DEF SessionInv
  <1>a. /\ mem \in [Vmas -> {"orig", "zero"}]
        /\ prot \in [Vmas -> {"orig", "open"}]
        /\ ppc \in {"start", "accept", "mprotect", "get", "madvise", "set",
                    "unbound", "trapped", "exited", "dead"}
    BY Zenon, <1>0 DEF TypeOK
  <1>b. PICK R : R = {"map", "orig", "zero"}
    BY Zenon
  <1>c. reply \in Seq(R)
    BY Zenon, <1>0, <1>b DEF TypeOK
  <1>1. reply' \in Seq(R)
    <2>1. CASE reply' = reply
      BY Zenon, <1>c, <2>1
    <2>2. CASE Accept
      BY <2>2, SeqOf DEF Accept
    <2>3. CASE cmd_get_pages_map
      <3>1. reply' = Append(reply, "map") /\ "map" \in R
        BY Zenon, <1>b, <2>3 DEF cmd_get_pages_map
      <3> QED BY Zenon, <3>1, <1>c, AppendTo
    <2>4. CASE cmd_get_pages_tx
      <3>1. Msg.vma \in Vmas
        BY Zenon, <2>4, MsgIs DEF cmd_get_pages_tx, HasMsg, Message
      <3>2. reply' = Append(reply, mem[Msg.vma]) /\ mem[Msg.vma] \in R
        BY Zenon, <3>1, <1>a, <1>b, <2>4 DEF cmd_get_pages_tx
      <3> QED BY Zenon, <3>2, <1>c, AppendTo
    <2>5. CASE reply # <<>> /\ reply' = Tail(reply)
      BY Zenon, <2>5, <1>c, TailOf
    <2> QED
      BY Zenon, <2>5, <2>1, <2>2, <2>3, <2>4
      DEF Next, Worker, Parasite, Watcher, vars, parasite, MprotectOff, OffLoop, OnLoop, Mprotect, GetPages,
          GetVma, GetMap, GetRegion, GetReply, GetDone, SetPages, SetLoop, MprotectOn, CmdEnd,
          StatusWaitReturn, StatusWaitTimeout, Unseize, AssertFails, KillTarget, Restore, WorkerSigchld,
          Listen, cmd_mprotect, cmd_get_pages_madvise, cmd_set_pages, Eof, Die, TargetKilled,
          TargetStopped, TargetContinued, WatchSeize, Watch
  <1>2. mem' \in [Vmas -> {"orig", "zero"}]
    <2>1. CASE mem' = mem
      BY Zenon, <1>a, <2>1
    <2>2. CASE cmd_get_pages_madvise
      BY Zenon, <1>a, <2>2 DEF cmd_get_pages_madvise
    <2>3. CASE cmd_set_pages /\ mem' = [mem EXCEPT ![Msg.vma] = Msg.what]
      <3>1. Msg.what = "orig"
        BY Zenon, <1>0, <2>3, MsgIs DEF cmd_set_pages, HasMsg, KindInv
      <3> QED BY Zenon, <1>a, <2>3, <3>1
    <2> QED
      BY Zenon, <2>1, <2>2, <2>3
      DEF Next, Worker, Parasite, Watcher, vars, parasite, MprotectOff, OffLoop, OnLoop, Mprotect, GetPages,
          GetVma, GetMap, GetRegion, GetReply, GetDone, SetPages, SetLoop, MprotectOn, CmdEnd,
          StatusWaitReturn, StatusWaitTimeout, Unseize, AssertFails, KillTarget, Restore, WorkerSigchld,
          Listen, Accept, cmd_mprotect, cmd_get_pages_map, cmd_get_pages_tx, cmd_set_pages, Eof, Die,
          TargetKilled, TargetStopped, TargetContinued, WatchSeize, Watch
  <1>3. prot' \in [Vmas -> {"orig", "open"}]
    <2>1. CASE prot' = prot
      BY Zenon, <1>a, <2>1
    <2>2. CASE cmd_mprotect
      <3>1. Msg.what \in {"orig", "open"}
        BY Zenon, <1>0, <2>2, MsgIs DEF cmd_mprotect, HasMsg, KindInv
      <3> QED BY Zenon, <1>a, <2>2, <3>1 DEF cmd_mprotect
    <2> QED
      BY Zenon, <2>1, <2>2
      DEF Next, Worker, Parasite, Watcher, vars, parasite, MprotectOff, OffLoop, OnLoop, Mprotect, GetPages,
          GetVma, GetMap, GetRegion, GetReply, GetDone, SetPages, SetLoop, MprotectOn, CmdEnd,
          StatusWaitReturn, StatusWaitTimeout, Unseize, AssertFails, KillTarget, Restore, WorkerSigchld,
          Listen, Accept, cmd_get_pages_map, cmd_get_pages_tx, cmd_get_pages_madvise, cmd_set_pages, Eof, Die,
          TargetKilled, TargetStopped, TargetContinued, WatchSeize, Watch
  <1>4. ppc' \in {"start", "accept", "mprotect", "get", "madvise", "set",
                  "unbound", "trapped", "exited", "dead"}
    BY Zenon, <1>0, <1>a, PpcNext
    DEF Listen, Accept, cmd_get_pages_tx, cmd_get_pages_madvise, cmd_set_pages, Eof, Die, Trap
  <1> QED BY Zenon, <1>1, <1>2, <1>3, <1>4, <1>b

-----------------------------------------------------------------------------
(* The dump. *)

\* A region is written to the dump as it was in the target.
LEMMA ImageMove ==
  ASSUME SessionInv, [Next]_vars
  PROVE  \/ /\ image' = image
            /\ wpc = "get_pages" => wpc' = wpc
            /\ wpc \in {"get_region", "get_reply"} => wpc' # "get_loop"
         \/ wpc = "get_pages" /\ image' = <<>>
         \/ /\ wpc \in {"get_region", "get_reply"} /\ idx \in Vmas
            /\ image' = Append(image, Img(idx))
            /\ wpc' = "get_loop" /\ idx' = idx + 1
  <1>0. TypeOK /\ ImageInv /\ DropInv /\ ReplyInv
    BY Zenon DEF SessionInv
  <1>1. idx \in Nat /\ idx >= 1
    BY Zenon, <1>0, Requests
  <1>2. wpc \in {"get_region", "get_reply"} => idx \in Vmas
    BY <1>0, <1>1, SessionAssumption DEF ImageInv, Vmas
  <1>3. CASE GetRegion
    <2>1. mem[idx] = "orig"
      <3>1. wpc = "get_region" /\ idx \in Vmas
        BY Zenon, <1>2, <1>3 DEF GetRegion
      <3>2. ~Dropped(idx)
        BY <1>0, <1>1, <3>1 DEF DropInv, BeforeGet, Over, Getting
      <3>3. mem[idx] \in {"orig", "zero"}
        BY Zenon, <1>0, <3>1 DEF TypeOK
      <3> QED BY Zenon, <3>2, <3>3 DEF Dropped
    <2> QED BY Zenon, <1>2, <1>3, <2>1 DEF GetRegion, write_vm_region, Goto, Img
  <1>4. CASE GetReply
    <2>1. reply # <<>> => Head(reply) = "orig"
      BY <1>0, <1>4 DEF GetReply, ReplyInv, Over
    <2> QED BY Zenon, <1>2, <1>4, <2>1 DEF GetReply, write_vm_region, Goto, Img
  <1>5. CASE GetPages
    BY ZenonT(40), <1>5 DEF GetPages
  <1> QED
    BY ZenonT(40), <1>3, <1>4, <1>5
    DEF Next, Worker, Parasite, Watcher, vars, worker, Goto, MprotectOff, OffLoop, OnLoop, Mprotect,
        GetVma, GetMap, GetDone, SetPages, SetLoop, MprotectOn, CmdEnd,
        StatusWaitReturn, StatusWaitTimeout, Unseize, AssertFails, KillTarget, Restore, WorkerSigchld,
        Listen, Accept, cmd_mprotect, cmd_get_pages_map, cmd_get_pages_tx, cmd_get_pages_madvise, cmd_set_pages,
        Eof, Die, TargetKilled,
          TargetStopped, TargetContinued, WatchSeize, Watch

\* The worker's loops stay within the VMAs and the dump.
LEMMA IdxMove ==
  ASSUME SessionInv, [Next]_vars
  PROVE  \/ wpc' = wpc /\ idx' = idx
         \/ idx' = 1 /\ (wpc' \notin Getting \/ (wpc = "get_pages" /\ wpc' = "get_loop"))
         \/ wpc \in {"off_loop", "on_loop", "set_loop"} /\ wpc' = wpc /\ idx' \in 2 .. NrVmas + 1
         \/ /\ wpc \in {"get_loop", "get_map", "get_region", "get_reply"} /\ idx \in Vmas
            /\ \/ wpc' = "get_loop" /\ idx' = idx + 1
               \/ wpc' \in {"get_map", "get_region", "get_reply", "get_failed"} /\ idx' = idx
  <1>0. TypeOK /\ ImageInv
    BY Zenon DEF SessionInv
  <1>1. idx \in Nat /\ idx >= 1 /\ Len(image) \in Nat
    BY Zenon, <1>0, Requests
  <1>2. wpc \in {"get_map", "get_region", "get_reply"} => idx \in Vmas
    BY <1>0, <1>1, SessionAssumption DEF ImageInv, Vmas
  <1> USE DEF Goto, Getting
  <1>3. CASE OffLoop \/ OnLoop
    <2>1. PICK v : v = NextReadOnly(idx)
      BY Zenon
    <2>2. v # 0 => v + 1 \in 2 .. NrVmas + 1
      BY <2>1, <1>1, NextOne, SessionAssumption DEF Vmas
    <2> QED BY Zenon, <1>3, <2>1, <2>2 DEF OffLoop, OnLoop, Mprotect
  <1>4. CASE SetLoop
    <2>1. idx <= Len(image) => idx + 1 \in 2 .. NrVmas + 1
      BY <1>0, <1>1, SessionAssumption DEF ImageInv
    <2> QED BY Zenon, <1>4, <2>1 DEF SetLoop
  <1>5. CASE GetVma
    <2>1. idx \in Vmas
      BY <1>1, <1>5, SessionAssumption DEF GetVma, Vmas
    <2> QED BY Zenon, <1>5, <2>1 DEF GetVma, WithPagemap
  <1>6. CASE GetMap
    BY Zenon, <1>2, <1>6 DEF GetMap, WithPagemap
  <1>7. CASE GetRegion
    BY Zenon, <1>2, <1>7 DEF GetRegion, write_vm_region
  <1>8. CASE GetReply
    BY Zenon, <1>2, <1>8 DEF GetReply, write_vm_region
  <1> QED
    BY ZenonT(40), <1>3, <1>4, <1>5, <1>6, <1>7, <1>8
    DEF Next, Worker, Parasite, Watcher, vars, worker, MprotectOff, GetPages, GetDone, SetPages, MprotectOn,
        CmdEnd, StatusWaitReturn, StatusWaitTimeout, Unseize, AssertFails, KillTarget, Restore, WorkerSigchld,
        Listen, Accept, cmd_mprotect, cmd_get_pages_map, cmd_get_pages_tx, cmd_get_pages_madvise, cmd_set_pages,
        Eof, Die, TargetKilled,
          TargetStopped, TargetContinued, WatchSeize, Watch

\* The image after a region was added.
LEMMA ImageAppended ==
  ASSUME TypeOK, NEW v \in Vmas, image' = Append(image, Img(v))
  PROVE  /\ image' \in Seq([vma : Vmas, what : {"orig", "zero"}])
         /\ Len(image') = Len(image) + 1
         /\ \A i \in 1 .. Len(image) : image'[i] = image[i]
         /\ image'[Len(image')] = Img(v)
         /\ \A i \in 1 .. Len(image') : i = Len(image') \/ i \in 1 .. Len(image)
  <1>1. PICK S : S = [vma : Vmas, what : {"orig", "zero"}]
    BY Zenon
  <1>2. image \in Seq(S) /\ Img(v) \in S /\ Len(image) \in Nat
    BY Zenon, <1>1, Requests DEF TypeOK, Img
  <1>3. /\ image' \in Seq(S) /\ Len(image') = Len(image) + 1
        /\ \A i \in 1 .. Len(image) : image'[i] = image[i]
        /\ image'[Len(image) + 1] = Img(v)
    BY <1>2, AppendTo
  <1> QED BY <1>1, <1>2, <1>3

LEMMA TypeNext ==
  ASSUME SessionInv, [Next]_vars
  PROVE  TypeOK'
  <1>0. TypeOK
    BY Zenon DEF SessionInv
  <1>1. /\ conns' \in Seq([cmd : Commands, data : Seq(Message), closed : BOOLEAN])
        /\ \A i \in 1 .. Len(conns') - 1 : conns'[i].closed
    BY Zenon, TypeConns DEF Connection
  <1>2. ppc' # "dead" => Waiting' <= 2
    BY Zenon, WaitingNext
  <1>3. /\ reply' \in Seq({"map", "orig", "zero"})
        /\ mem' \in [Vmas -> {"orig", "zero"}]
        /\ prot' \in [Vmas -> {"orig", "open"}]
        /\ ppc' \in {"start", "accept", "mprotect", "get", "madvise", "set",
                     "unbound", "trapped", "exited", "dead"}
    BY Zenon, TypeParasite
  <1>4. image' \in Seq([vma : Vmas, what : {"orig", "zero"}])
    <2>1. CASE image' = image
      BY Zenon, <1>0, <2>1 DEF TypeOK
    <2>2. CASE image' = <<>>
      BY <2>2, SeqOf
    <2>3. CASE idx \in Vmas /\ image' = Append(image, Img(idx))
      BY Zenon, <1>0, <2>3, ImageAppended
    <2> QED BY Zenon, ImageMove, <2>1, <2>2, <2>3
  <1>5. idx' \in 1 .. NrVmas + 1
    <2>1. idx \in 1 .. NrVmas + 1
      BY Zenon, <1>0 DEF TypeOK
    <2>2. idx \in Vmas => idx + 1 \in 1 .. NrVmas + 1
      BY SessionAssumption DEF Vmas
    <2>3. 1 \in 1 .. NrVmas + 1 /\ 2 .. NrVmas + 1 \subseteq 1 .. NrVmas + 1
      BY SessionAssumption
    <2> QED BY Zenon, IdxMove, <2>1, <2>2, <2>3
  <1>6. wpc' \in {"mprotect_off", "off_loop", "get_pages", "get_loop", "get_map", "get_region",
              "get_reply", "get_failed", "checkpointed", "restore", "set_loop", "mprotect_on", "on_loop", "cmd_end", "status_wait",
              "blobs", "failed", "assert", "crashed", "done"}
    BY SMTT(30), <1>0, Moves DEF TypeOK, OpenMove, SendMove, CloseMove, KeepMove, TakeMove, DropMove
  <1>7. opts' = opts
    BY Zenon
       DEF Next, Worker, Parasite, Watcher, vars, worker, MprotectOff, OffLoop, OnLoop, Mprotect,
       GetPages,
           GetVma, GetMap, GetRegion, GetReply, GetDone, SetPages, SetLoop, MprotectOn, CmdEnd,
           StatusWaitReturn, StatusWaitTimeout, Unseize, AssertFails, KillTarget, Restore, WorkerSigchld,
           Listen, Accept, cmd_mprotect, cmd_get_pages_map, cmd_get_pages_tx, cmd_get_pages_madvise, cmd_set_pages,
           Eof, Die, TargetKilled,
          TargetStopped, TargetContinued, WatchSeize, Watch
  <1>8. wret' \in {"0", "ETIMEDOUT"} /\ status' \in {"ok", "exited", "stopped", "signaled"}
    BY Zenon, <1>0
    DEF TypeOK, Next, Worker, Parasite, Watcher, vars, worker, watcher, MprotectOff, OffLoop, OnLoop, Mprotect,
        GetPages, GetVma, GetMap, GetRegion, GetReply, GetDone, SetPages, SetLoop, MprotectOn, CmdEnd,
        StatusWaitReturn, StatusWaitTimeout, Unseize, AssertFails, KillTarget, Restore, WorkerSigchld,
        Listen, Accept, cmd_mprotect, cmd_get_pages_map, cmd_get_pages_tx, cmd_get_pages_madvise, cmd_set_pages,
        Eof, Die, TargetKilled, TargetStopped, TargetContinued, WatchSeize, Watch, parasite_status_signal
  <1>9. watch' \in {"start", "wait", "over"} /\ target' \in {"frozen", "running", "dead"}
    BY Zenon, <1>0
    DEF TypeOK, Next, Worker, Parasite, Watcher, vars, worker, watcher, MprotectOff, OffLoop, OnLoop, Mprotect,
        GetPages, GetVma, GetMap, GetRegion, GetReply, GetDone, SetPages, SetLoop, MprotectOn, CmdEnd,
        StatusWaitReturn, StatusWaitTimeout, Unseize, AssertFails, KillTarget, Restore, WorkerSigchld,
        Listen, Accept, cmd_mprotect, cmd_get_pages_map, cmd_get_pages_tx, cmd_get_pages_madvise, cmd_set_pages,
        Eof, Die, TargetKilled, TargetStopped, TargetContinued, WatchSeize, Watch, Trap
  <1>10. Message' = Message /\ Vmas' = Vmas
    BY Zenon DEF Message, Vmas
  <1>11. jobctl' \in {"none", "stopped", "continued"}
    BY Zenon, <1>0
    DEF TypeOK, Next, Worker, Parasite, Watcher, vars, worker, watcher, MprotectOff, OffLoop, OnLoop, Mprotect,
        GetPages, GetVma, GetMap, GetRegion, GetReply, GetDone, SetPages, SetLoop, MprotectOn, CmdEnd,
        StatusWaitReturn, StatusWaitTimeout, Unseize, AssertFails, KillTarget, Restore, WorkerSigchld,
        Listen, Accept, cmd_mprotect, cmd_get_pages_map, cmd_get_pages_tx, cmd_get_pages_madvise, cmd_set_pages,
        Eof, Die, TargetKilled, TargetStopped, TargetContinued, WatchSeize, Watch
  <1> QED BY Zenon, <1>0, <1>1, <1>2, <1>3, <1>4, <1>5, <1>6, <1>7, <1>8, <1>9, <1>10, <1>11 DEF TypeOK

LEMMA ImageNext ==
  ASSUME SessionInv, [Next]_vars
  PROVE  ImageInv'
  <1>0. TypeOK /\ ImageInv
    BY Zenon DEF SessionInv
  <1>1. idx \in Nat /\ idx >= 1 /\ Len(image) \in Nat /\ NrVmas \in Nat
    BY Zenon, <1>0, Requests, SessionAssumption
  <1>2. CASE image' = image /\ (wpc = "get_pages" => wpc' = wpc)
    <2>1. wpc' \in {"get_map", "get_region", "get_reply"} => idx' <= NrVmas
      BY <1>0, <1>1, IdxMove DEF ImageInv, Vmas, Getting
    <2>2. wpc' \in Getting => Len(image') < idx'
      BY <1>0, <1>1, <1>2, IdxMove DEF ImageInv, Vmas, Getting
    <2> QED BY Zenon, <1>0, <1>2, <2>1, <2>2 DEF ImageInv
  <1>3. CASE wpc = "get_pages" /\ image' = <<>>
    <2>1. wpc' \in Getting => wpc' = "get_loop" /\ idx' = 1
      BY Zenon, <1>3, IdxMove DEF Getting
    <2>2. Len(image') = 0
      BY Zenon, <1>3
    <2> QED BY <1>1, <2>1, <2>2 DEF ImageInv, Getting
  <1>4. CASE /\ wpc \in {"get_region", "get_reply"} /\ idx \in Vmas
             /\ image' = Append(image, Img(idx))
             /\ wpc' = "get_loop" /\ idx' = idx + 1
    <2>1. /\ Len(image') = Len(image) + 1
          /\ \A i \in 1 .. Len(image) : image'[i] = image[i]
          /\ image'[Len(image')] = Img(idx)
          /\ \A i \in 1 .. Len(image') : i = Len(image') \/ i \in 1 .. Len(image)
      BY Zenon, <1>0, <1>4, ImageAppended
    <2>2. \A i \in 1 .. Len(image') : image'[i].what = "orig"
      BY <1>0, <2>1 DEF ImageInv, Img
    <2>3. Len(image') <= NrVmas /\ Len(image') < idx'
      BY <1>0, <1>1, <1>4, <2>1 DEF ImageInv, Vmas, Getting
    <2> QED BY Zenon, <1>4, <2>2, <2>3 DEF ImageInv
  <1> QED BY Zenon, ImageMove, <1>2, <1>3, <1>4
=============================================================================

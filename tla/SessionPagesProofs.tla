-------------------------- MODULE SessionPagesProofs -------------------------
(* That the pages and the protections come back: the second half of the       *)
(* induction that SessionProofs begins, and the theorems it leads to.         *)
EXTENDS SessionProofs

\* The worker does not come back from a failure, nor to an earlier phase.
LEMMA Phases ==
  ASSUME SessionInv, [Next]_vars
  PROVE  /\ wpc \in Over => wpc' \in Over
         /\ wpc' \in BeforeGet => wpc \in BeforeGet
         /\ wpc' \in Getting => wpc \in Getting \/ wpc = "get_pages"
         /\ wpc' = "get_map" => wpc \in {"get_loop", "get_map"}
         /\ wpc' = "get_reply" => wpc \in {"get_region", "get_reply"}
         /\ wpc = "get_reply" => wpc' \in {"get_reply", "get_loop", "get_failed"}
         /\ wpc = "get_map" => wpc' \in {"get_map", "get_loop", "get_region", "get_failed"}
         /\ wpc \in BeforeGet => wpc' \in BeforeGet \/ wpc' \in {"get_loop", "failed"}
         /\ wpc' = "set_loop" => wpc \in {"restore", "set_loop"}
         /\ wpc' = "mprotect_on" => wpc \in {"set_loop", "mprotect_on"}
         /\ wpc' \in {"on_loop", "cmd_end", "status_wait", "blobs"} =>
              wpc \in {"mprotect_on", "on_loop", "cmd_end", "status_wait", "blobs"}
         /\ wpc' = "on_loop" => wpc \in {"mprotect_on", "on_loop"}
         /\ wpc' = "cmd_end" => wpc \in {"mprotect_on", "on_loop", "cmd_end"}
         /\ wpc' \in {"status_wait", "blobs"} => wpc \in {"cmd_end", "status_wait", "blobs"}
         /\ Released' => Released \/ wpc = "blobs"
  <1>1. Released' => Released \/ wpc = "blobs"
    <2>1. SUFFICES ASSUME wpc' = "done", target' = "running", wpc # "blobs"
                   PROVE  Released
      BY Zenon DEF Released
    <2>2. StatusInv
      BY Zenon DEF SessionInv
    <2> QED
      BY Zenon, <2>1, <2>2
      DEF Released, StatusInv, Next, Worker, Parasite, Watcher, vars, worker, MprotectOff, OffLoop, OnLoop, Mprotect,
          GetPages, GetVma, GetMap, GetRegion, GetReply, GetDone, SetPages, SetLoop, MprotectOn, CmdEnd,
          StatusWaitReturn, StatusWaitTimeout, Unseize, AssertFails, KillTarget, Restore, WorkerSigchld,
          Listen, Accept, cmd_mprotect, cmd_get_pages_map, cmd_get_pages_tx, cmd_get_pages_madvise, cmd_set_pages,
          Eof, Die, TargetKilled, TargetStopped, TargetContinued, WatchSeize, Watch, Trap, Goto, WithPagemap, write_vm_region
  <1> QED
    BY Zenon, <1>1, Moves
    DEF Over, BeforeGet, Getting, OpenMove, SendMove, CloseMove, KeepMove, TakeMove, DropMove

LEMMA SavedAt ==
  ASSUME TypeOK, NEW v
  PROVE  Saved(v) <=> \E i \in 1 .. Len(image) : image[i] = Img(v)
  <1>1. DOMAIN image = 1 .. Len(image)
    BY Zenon, SeqOf DEF TypeOK
  <1> QED BY Zenon, <1>1 DEF Saved, Img, Range

\* What is saved stays saved, and a region that was received is saved.
LEMMA SavedMove ==
  ASSUME SessionInv, [Next]_vars, TypeOK', NEW v \in Vmas
  PROVE  /\ Saved(v) /\ wpc # "get_pages" => Saved(v)'
         /\ wpc \in {"get_region", "get_reply"} /\ wpc' = "get_loop" => idx' = idx + 1 /\ (v = idx => Saved(v)')
  <1>0. TypeOK
    BY Zenon DEF SessionInv
  <1>1. Saved(v) <=> \E i \in 1 .. Len(image) : image[i] = Img(v)
    BY Zenon, <1>0, SavedAt
  <1>2. CASE image' = image /\ ~(wpc \in {"get_region", "get_reply"} /\ wpc' = "get_loop")
    BY Zenon, <1>2 DEF Saved
  <1>3. CASE wpc = "get_pages"
    BY Zenon, <1>3
  <1>4. CASE idx \in Vmas /\ image' = Append(image, Img(idx)) /\ idx' = idx + 1
    <2>1. /\ Len(image') = Len(image) + 1
          /\ \A i \in 1 .. Len(image) : image'[i] = image[i]
          /\ image'[Len(image')] = Img(idx)
      BY Zenon, <1>0, <1>4, ImageAppended
    <2>2. Len(image) \in Nat
      BY Zenon, <1>0, Requests
    <2>3. ASSUME \E i \in 1 .. Len(image') : image'[i] = Img(v) PROVE Saved(v)'
      <3>1. DOMAIN image' = 1 .. Len(image')
        BY Zenon, SeqOf DEF TypeOK
      <3> QED BY Zenon, <2>3, <3>1 DEF Saved, Img, Range
    <2>4. Saved(v) => \E i \in 1 .. Len(image') : image'[i] = Img(v)
      BY <1>1, <2>1, <2>2
    <2>5. v = idx => \E i \in 1 .. Len(image') : image'[i] = Img(v)
      BY <2>1, <2>2
    <2> QED BY Zenon, <1>4, <2>3, <2>4, <2>5
  <1> QED BY Zenon, ImageMove, <1>2, <1>3, <1>4

\* Only the request to send or to drop the region at hand makes it one to be
\* dropped.
LEMMA DroppedMove ==
  ASSUME SessionInv, [Next]_vars, NEW v \in Vmas, Dropped(v)'
  PROVE  Dropped(v) \/ (v = idx /\ wpc = "get_region" /\ wpc' \in {"get_reply", "get_loop", "get_failed"})
  <1>0. TypeOK /\ KindInv /\ NewestInv
    BY Zenon DEF SessionInv
  <1>1. CASE mem'[v] = "zero"
    <2>1. CASE mem' = mem
      BY Zenon, <1>1, <2>1 DEF Dropped
    <2>2. CASE cmd_get_pages_madvise
      <3>1. /\ Msg \in Message /\ Msg \in Pending("GET_PAGES")
            /\ Msg.what \in {"tx", "drop"}
        <4>1. ppc \in {"get", "madvise"} /\ Conn.data # <<>>
          BY Zenon, <2>2 DEF cmd_get_pages_madvise, HasMsg
        <4>2. Msg \in Message /\ Msg \in Pending("GET_PAGES") /\ Msg = conns[1].data[1]
          BY Zenon, <4>1, MsgIs
        <4>3. ppc = "madvise" => Msg.what = "tx"
          BY Zenon, <4>2 DEF SessionInv, HeadInv
        <4> QED BY Zenon, <4>2, <4>3, <2>2 DEF cmd_get_pages_madvise, HasMsg
      <3>2. CASE v = Msg.vma
        BY Zenon, <3>1, <3>2 DEF Dropped
      <3>3. CASE v # Msg.vma
        <4>1. mem'[v] = mem[v]
          BY Zenon, <1>0, <2>2, <3>3 DEF cmd_get_pages_madvise, TypeOK
        <4> QED BY Zenon, <1>1, <4>1 DEF Dropped
      <3> QED BY Zenon, <3>2, <3>3
    <2>3. CASE cmd_set_pages /\ mem' = [mem EXCEPT ![Msg.vma] = Msg.what]
      <3>1. Msg.what = "orig"
        BY Zenon, <1>0, <2>3, MsgIs DEF cmd_set_pages, HasMsg, KindInv
      <3>2. mem'[v] = mem[v]
        BY Zenon, <1>0, <1>1, <2>3, <3>1 DEF TypeOK
      <3> QED BY Zenon, <1>1, <3>2 DEF Dropped
    <2> QED
      BY Zenon, <2>1, <2>2, <2>3
      DEF Next, Worker, Parasite, Watcher, vars, parasite, MprotectOff, OffLoop, OnLoop, Mprotect, GetPages,
          GetVma, GetMap, GetRegion, GetReply, GetDone, SetPages, SetLoop, MprotectOn, CmdEnd,
          StatusWaitReturn, StatusWaitTimeout, Unseize, AssertFails, KillTarget, Restore, WorkerSigchld,
          Listen, Accept, cmd_mprotect, cmd_get_pages_map, cmd_get_pages_tx, cmd_set_pages, Eof, Die,
          TargetKilled, TargetStopped, TargetContinued, WatchSeize, Watch
  <1>2. CASE \E m \in Pending("GET_PAGES")' : m.vma = v /\ m.what \in {"tx", "drop"}
    <2>1. CASE Pending("GET_PAGES")' \subseteq Pending("GET_PAGES")
      BY Zenon, <1>2, <2>1 DEF Dropped
    <2>2. CASE SendMove
      <3>1. PICK m \in Message :
              /\ conns # <<>> /\ conns' = Sent(m)
              /\ m.what \in {"tx", "drop"} =>
                   m.vma = idx /\ wpc = "get_region" /\ wpc' \in {"get_reply", "get_loop", "get_failed"}
        BY Zenon, <2>2 DEF SendMove
      <3>2. Pending("GET_PAGES")' \subseteq Pending("GET_PAGES") \cup {m}
        <4>1. \A cmd : Pending(cmd)' = IF cmd = conns[Len(conns)].cmd THEN Pending(cmd) \cup {m} ELSE Pending(cmd)
          BY Zenon, <1>0, <3>1, SentStep
        <4> QED BY Zenon, <4>1
      <3> QED BY Zenon, <1>2, <3>1, <3>2 DEF Dropped
    <2>3. CASE OpenMove
      <3>1. \A cmd : Pending(cmd)' = Pending(cmd)
        BY Zenon, <1>0, <2>3, OpenStep DEF OpenMove
      <3> QED BY Zenon, <2>1, <3>1
    <2>4. CASE CloseMove
      <3>1. \A cmd : Pending(cmd)' = Pending(cmd)
        BY Zenon, <1>0, <2>4, ClosedStep DEF CloseMove
      <3> QED BY Zenon, <2>1, <3>1
    <2>5. CASE KeepMove
      BY Zenon, <2>1, <2>5, SameConns DEF KeepMove
    <2>6. CASE TakeMove
      <3>1. \A cmd : Pending(cmd)' \subseteq Pending(cmd)
        BY Zenon, <1>0, <2>6, TookStep DEF TakeMove
      <3> QED BY Zenon, <2>1, <3>1
    <2>7. CASE DropMove
      <3>1. \A cmd : Pending(cmd)' = Pending(cmd)
        BY Zenon, <1>0, <2>7, EofStep DEF DropMove
      <3> QED BY Zenon, <2>1, <3>1
    <2> QED BY Zenon, Moves, <2>2, <2>3, <2>4, <2>5, <2>6, <2>7
  <1> QED BY Zenon, <1>1, <1>2 DEF Dropped

LEMMA DropNext ==
  ASSUME SessionInv, [Next]_vars
  PROVE  DropInv'
  <1>0. TypeOK /\ DropInv /\ TypeOK'
    BY Zenon, TypeNext DEF SessionInv
  <1>1. idx \in Nat /\ idx >= 1
    BY Zenon, <1>0, Requests
  <1>2. ASSUME wpc' \in BeforeGet, NEW v \in Vmas, Dropped(v)' PROVE FALSE
    <2>1. wpc \in BeforeGet
      BY Zenon, <1>2, Phases
    <2> QED BY Zenon, <1>0, <1>2, <2>1, DroppedMove DEF DropInv, BeforeGet
  <1>3. ASSUME wpc' \notin BeforeGet \cup Over, NEW v \in Vmas, Dropped(v)'
        PROVE  \/ Saved(v)' /\ (wpc' \in Getting => v < idx')
               \/ wpc' = "get_reply" /\ v = idx'
    <2>1. wpc \notin Over
      BY Zenon, <1>3, Phases
    <2>2. CASE v = idx /\ wpc = "get_region" /\ wpc' \in {"get_reply", "get_loop", "get_failed"}
      <3>1. CASE wpc' = "get_reply"
        BY Zenon, <2>2, <3>1, IdxMove DEF Getting
      <3>2. CASE wpc' = "get_loop"
        BY <2>2, <3>2, <1>1, SavedMove, <1>0
      <3>3. CASE wpc' = "get_failed"
        BY Zenon, <1>3, <3>3 DEF Over
      <3> QED BY Zenon, <2>2, <3>1, <3>2, <3>3
    <2>3. CASE Dropped(v) /\ wpc \notin BeforeGet
      <3>1. \/ Saved(v) /\ (wpc \in Getting => v < idx)
            \/ wpc = "get_reply" /\ v = idx
        BY Zenon, <1>0, <2>1, <2>3 DEF DropInv
      <3>2. CASE Saved(v) /\ (wpc \in Getting => v < idx)
        <4>1. Saved(v)'
          BY Zenon, <1>0, <2>3, <3>2, SavedMove DEF BeforeGet
        <4>2. ASSUME wpc' \in Getting PROVE v < idx'
          <5>1. wpc \in Getting /\ v < idx
            BY Zenon, <2>3, <3>2, <4>2, Phases DEF BeforeGet
          <5>2. idx' = idx \/ idx' = idx + 1
            BY Zenon, <2>3, <4>2, <5>1, IdxMove DEF BeforeGet, Getting
          <5> QED BY <5>1, <5>2, <1>1, SessionAssumption DEF Vmas
        <4> QED BY Zenon, <4>1, <4>2
      <3>3. CASE wpc = "get_reply" /\ v = idx
        <4>1. wpc' \in {"get_reply", "get_loop"}
          BY Zenon, <1>3, <3>3, Phases DEF Over
        <4>2. CASE wpc' = "get_reply"
          BY Zenon, <3>3, <4>2, IdxMove DEF Getting
        <4>3. CASE wpc' = "get_loop"
          BY <1>0, <1>1, <3>3, <4>3, SavedMove
        <4> QED BY Zenon, <4>1, <4>2, <4>3
      <3> QED BY Zenon, <3>1, <3>2, <3>3
    <2>4. CASE Dropped(v) /\ wpc \in BeforeGet
      BY Zenon, <1>0, <2>4 DEF DropInv
    <2> QED BY Zenon, <1>3, DroppedMove, <2>2, <2>3, <2>4
  <1> QED BY Zenon, <1>2, <1>3 DEF DropInv

-----------------------------------------------------------------------------
(* The replies. *)

\* Where replies are sent and received.
LEMMA ReplyMove ==
  ASSUME SessionInv, [Next]_vars
  PROVE  \/ reply' = reply /\ (wpc \in {"get_map", "get_reply"} => wpc' \in {wpc, "get_failed"})
         \/ Accept
         \/ cmd_get_pages_map
         \/ cmd_get_pages_tx
         \/ /\ wpc \in {"get_map", "get_reply"} /\ wpc' \in {"get_loop", "get_region", "get_failed"}
            /\ reply # <<>> /\ reply' = Tail(reply)
            /\ UNCHANGED <<conns, ppc, mem>>
  BY Zenon
     DEF Next, Worker, Parasite, Watcher, vars, worker, parasite, MprotectOff, OffLoop, OnLoop,
     Mprotect, GetPages,
         GetVma, GetMap, GetRegion, GetReply, GetDone, SetPages, SetLoop, MprotectOn, CmdEnd,
         StatusWaitReturn, StatusWaitTimeout, Unseize, AssertFails, KillTarget, Restore, WorkerSigchld,
         Listen, cmd_mprotect, cmd_get_pages_madvise, cmd_set_pages, Eof, Die,
         TargetKilled, TargetStopped, TargetContinued, WatchSeize, Watch, Goto, WithPagemap, write_vm_region

\* A parasite that has stopped or died does not go on.
LEMMA HaltedStays ==
  ASSUME SessionInv, [Next]_vars, ~Halted'
  PROVE  ~Halted
  <1>1. TypeOK
    BY Zenon DEF SessionInv
  <1> QED BY Zenon, <1>1, PpcNext
             DEF Halted, Listen, Accept, cmd_get_pages_tx, cmd_get_pages_madvise, cmd_set_pages,
                               HasMsg, Eof, Die

\* Nobody waits for a reply.
LEMMA NoAsk ==
  ASSUME SessionInv, wpc \notin Over, ~Halted, wpc \notin {"get_map", "get_reply"} \/ reply # <<>>,
         NEW k \in Positions, NEW i \in 1 .. Len(conns[k].data)
  PROVE  ~Asks(k, i)
  BY Zenon DEF SessionInv, AskInv, Asks

\* The request the parasite is going to reply to is the only one.
LEMMA OneAsk ==
  ASSUME SessionInv, wpc \notin Over, ppc = "get", Conn.data # <<>>, Msg.what \in {"map", "tx"}
  PROVE  /\ Len(conns[1].data) = 1 /\ reply = <<>>
         /\ Msg.what = "map" => wpc = "get_map"
         /\ Msg.what = "tx" => wpc = "get_reply" /\ Msg.vma = idx
         /\ \A k \in Positions : conns[k].cmd = "GET_PAGES" => k = 1
  <1>1. /\ 1 \in Positions /\ 1 \in 1 .. Len(conns[1].data) /\ Msg = conns[1].data[1]
        /\ conns[1].cmd = "GET_PAGES"
    BY Zenon, MsgIs
  <1>2. Asks(1, 1)
    BY Zenon, <1>1 DEF Asks
  <1>3. \A k \in Positions : conns[k].cmd = "GET_PAGES" => k = 1
    <2>1. OrderInv /\ \A k \in Positions : k \in Nat /\ k >= 1
      BY DEF SessionInv, Positions
    <2> QED BY <1>1, <2>1 DEF OrderInv
  <1> QED BY Zenon, <1>1, <1>2, <1>3 DEF SessionInv, AskInv, Halted

LEMMA AskNext ==
  ASSUME SessionInv, [Next]_vars
  PROVE  AskInv'
  <1> SUFFICES ASSUME wpc' \notin Over, ~Halted'
               PROVE  /\ \A k \in Positions' : \A i \in 1 .. Len(conns'[k].data) : Asks(k, i)' =>
                           /\ i = Len(conns'[k].data)
                           /\ reply' = <<>>
                           /\ conns'[k].data[i].what = "map" => wpc' = "get_map"
                           /\ conns'[k].data[i].what = "tx" => wpc' = "get_reply" /\ conns'[k].data[i].vma = idx'
                      /\ ppc' = "madvise" /\ wpc' = "get_reply" /\ conns'[1].data[1].vma = idx' => reply' = <<"orig">>
    BY Zenon DEF AskInv
  <1>0. TypeOK /\ AskInv /\ ReplyInv /\ Len(conns) \in Nat
    BY Zenon, ConnsType DEF SessionInv
  <1>1. wpc \notin Over /\ ~Halted
    BY Zenon, Phases, HaltedStays
  <1>a. \A k \in Positions : \A i \in 1 .. Len(conns[k].data) : Asks(k, i) =>
          /\ i = Len(conns[k].data)
          /\ reply = <<>>
          /\ conns[k].data[i].what = "map" => wpc = "get_map"
          /\ conns[k].data[i].what = "tx" => wpc = "get_reply" /\ conns[k].data[i].vma = idx
    BY Zenon, <1>0, <1>1 DEF AskInv
  <1>b. ppc = "madvise" /\ wpc = "get_reply" /\ conns[1].data[1].vma = idx => reply = <<"orig">>
    BY Zenon, <1>0, <1>1 DEF AskInv
  <1>c. \A k \in Positions : Len(conns[k].data) \in Nat
    BY Zenon, <1>0, PendingAt
  <1>2. CASE cmd_get_pages_map
    <2>1. ppc = "get" /\ Conn.data # <<>> /\ Msg.what = "map" /\ conns' = Took /\ ppc' = "get"
      BY Zenon, <1>2 DEF cmd_get_pages_map, HasMsg
    <2>2. /\ Len(conns[1].data) = 1
          /\ \A k \in Positions : conns[k].cmd = "GET_PAGES" => k = 1
      BY Zenon, <1>1, <2>1, OneAsk
    <2>3. conns # <<>> /\ conns[1].data # <<>>
      BY Zenon, <2>1, MsgIs
    <2>4. /\ Positions' = Positions /\ \A k \in Positions : conns'[k].cmd = conns[k].cmd
          /\ Len(conns'[1].data) = Len(conns[1].data) - 1
      BY Zenon, <1>0, <2>1, <2>3, TookStep
    <2>5. ASSUME NEW k \in Positions', NEW i \in 1 .. Len(conns'[k].data) PROVE ~Asks(k, i)'
      <3>1. CASE k # 1
        BY Zenon, <2>2, <2>4, <3>1 DEF Asks
      <3>2. CASE k = 1
        BY <2>2, <2>4, <3>2
      <3> QED BY Zenon, <3>1, <3>2
    <2> QED BY Zenon, <2>1, <2>5
  <1>3. CASE cmd_get_pages_tx
    <2>1. ppc = "get" /\ Conn.data # <<>> /\ Msg.what = "tx" /\ conns' = conns /\ ppc' = "madvise" /\ Positions' = Positions
      BY Zenon, <1>3, SameConns DEF cmd_get_pages_tx, HasMsg
    <2>2. /\ Len(conns[1].data) = 1 /\ reply = <<>> /\ wpc = "get_reply" /\ Msg.vma = idx
          /\ \A k \in Positions : conns[k].cmd = "GET_PAGES" => k = 1
      BY Zenon, <1>1, <2>1, OneAsk
    <2>3. reply' = <<"orig">>
      <3>1. mem[idx] = "orig"
        BY Zenon, <1>0, <1>1, <2>2 DEF ReplyInv
      <3> QED BY <1>3, <2>2, <3>1 DEF cmd_get_pages_tx
    <2>4. ASSUME NEW k \in Positions', NEW i \in 1 .. Len(conns'[k].data) PROVE ~Asks(k, i)'
      <3>1. CASE k # 1
        BY Zenon, <2>1, <2>2, <3>1 DEF Asks
      <3>2. CASE k = 1
        <4>1. Len(conns'[k].data) = 1
          BY Zenon, <2>1, <2>2, <3>2
        <4>2. i = 1
          BY <4>1
        <4> QED BY Zenon, <2>1, <3>2, <4>2 DEF Asks
      <3> QED BY Zenon, <3>1, <3>2
    <2> QED BY Zenon, <2>3, <2>4
  <1>4. CASE /\ wpc \in {"get_map", "get_reply"} /\ wpc' \in {"get_loop", "get_region", "get_failed"}
             /\ reply # <<>> /\ reply' = Tail(reply)
             /\ UNCHANGED <<conns, ppc, mem>>
    <2>1. ASSUME NEW k \in Positions', NEW i \in 1 .. Len(conns'[k].data) PROVE ~Asks(k, i)'
      <3>1. Positions' = Positions
        BY Zenon, <1>4, SameConns
      <3>2. ~Asks(k, i)
        BY Zenon, <1>1, <1>4, <3>1, NoAsk
      <3> QED BY Zenon, <1>4, <3>2 DEF Asks
    <2> QED BY Zenon, <1>4, <2>1
  <1>5. CASE Accept
    <2>1. reply' = reply /\ conns' = conns /\ Positions' = Positions /\ wpc' = wpc /\ idx' = idx
      BY Zenon, <1>0, <1>1, <1>5, SameConns DEF Accept, ReplyInv, worker
    <2>2. ppc # "madvise" /\ ppc' # "madvise"
      BY Zenon, <1>5 DEF Accept
    <2>3. ASSUME NEW k \in Positions, NEW i \in 1 .. Len(conns[k].data), Asks(k, i)' PROVE Asks(k, i)
      BY Zenon, <2>1, <2>2, <2>3 DEF Asks
    <2> QED BY <2>1, <2>2, <2>3, <1>a
  <1>6. CASE reply' = reply /\ (wpc \in {"get_map", "get_reply"} => wpc' \in {wpc, "get_failed"})
    <2>1. CASE OpenMove
      <3>1. PICK c \in Connection : c.data = <<>> /\ conns' = Append(conns, c)
        BY Zenon, <2>1 DEF OpenMove
      <3>2. /\ Positions' = Positions \cup {Len(conns')}
            /\ \A k \in Positions : conns'[k] = conns[k]
            /\ conns'[Len(conns')] = c
        BY Zenon, <1>0, <3>1, OpenStep
      <3>3. Len(c.data) = 0
        BY Zenon, <3>1, ConnFields
      <3>4. wpc \notin {"get_map", "get_reply"} /\ wpc' # "get_reply" /\ ppc' = ppc
        BY Zenon, <2>1 DEF OpenMove
      <3>5. ASSUME NEW k \in Positions', NEW i \in 1 .. Len(conns'[k].data) PROVE ~Asks(k, i)'
        <4>1. CASE k \in Positions
          <5>1. conns'[k] = conns[k]
            BY Zenon, <3>2, <4>1
          <5>2. ~Asks(k, i)
            BY Zenon, <1>1, <3>4, <4>1, <5>1, NoAsk
          <5> QED BY Zenon, <3>4, <5>1, <5>2 DEF Asks
        <4>2. CASE k = Len(conns')
          BY <3>2, <3>3, <4>2
        <4> QED BY Zenon, <3>2, <4>1, <4>2
      <3> QED BY Zenon, <3>4, <3>5
    <2>2. CASE SendMove
      <3> DEFINE n == Len(conns)
      <3>1. PICK m \in Message :
              /\ conns # <<>>
              /\ conns' = Sent(m)
              /\ wpc \notin {"get_map", "get_reply"}
              /\ m.what = "map" => wpc = "get_loop" /\ wpc' = "get_map"
              /\ m.what = "tx" => wpc = "get_region" /\ wpc' = "get_reply" /\ m.vma = idx
              /\ wpc' = "get_reply" => wpc = "get_region"
        BY Zenon, <2>2 DEF SendMove
      <3>2. /\ n \in Positions /\ Positions' = Positions
            /\ \A k \in Positions : conns'[k].cmd = conns[k].cmd
            /\ \A k \in Positions : k # n => conns'[k].data = conns[k].data
            /\ Len(conns'[n].data) = Len(conns[n].data) + 1
            /\ \A i \in 1 .. Len(conns[n].data) : conns'[n].data[i] = conns[n].data[i]
            /\ conns'[n].data[Len(conns'[n].data)] = m
        BY Zenon, <1>0, <3>1, SentStep
      <3>3. ppc' = ppc
        BY Zenon, <2>2 DEF SendMove
      <3>4. reply = <<>>
        BY Zenon, <1>0, <1>1, <3>1 DEF ReplyInv
      <3>5. wpc' = "get_reply" => idx' = idx
        BY Zenon, <3>1, IdxMove DEF Getting
      <3>6. ASSUME NEW k \in Positions, NEW i \in 1 .. Len(conns'[k].data), Asks(k, i)'
            PROVE  k = n /\ i = Len(conns'[n].data)
        <4>1. (k = n /\ i = Len(conns'[n].data)) \/ i \in 1 .. Len(conns[k].data)
          BY <1>c, <3>2
        <4>2. ASSUME i \in 1 .. Len(conns[k].data) PROVE FALSE
          <5>1. conns'[k].data[i] = conns[k].data[i] /\ conns'[k].cmd = conns[k].cmd
            BY Zenon, <3>2, <4>2
          <5>2. Asks(k, i)
            BY Zenon, <3>3, <3>6, <5>1 DEF Asks
          <5> QED BY Zenon, <1>1, <3>1, <4>2, <5>2, NoAsk
        <4> QED BY Zenon, <4>1, <4>2
      <3>7. ppc = "madvise" /\ wpc' = "get_reply" => conns'[1].data[1].vma # idx
        <4> SUFFICES ASSUME ppc = "madvise", wpc' = "get_reply" PROVE conns'[1].data[1].vma # idx
          BY Zenon
        <4>1. conns[1].data # <<>> /\ conns[1].data[1].what = "tx" /\ conns # <<>>
          BY Zenon DEF SessionInv, HeadInv
        <4>2. conns'[1].data[1] = conns[1].data[1]
          BY Zenon, <1>0, <2>2, <4>1, HeadKept
        <4>3. conns[1].data[1] \in Pending("GET_PAGES") /\ conns[1].data[1] \in Message
          <5>1. Conn = conns[1]
            BY Zenon, <1>0, <4>1, ConnsType, SeqOf DEF Conn
          <5> QED BY Zenon, <4>1, <5>1, MsgIs
        <4>4. conns[1].data[1].vma \in Vmas /\ Dropped(conns[1].data[1].vma)
          BY Zenon, <4>1, <4>3 DEF Dropped, Message
        <4>5. wpc = "get_region" /\ DropInv
          BY Zenon, <3>1 DEF SessionInv
        <4>6. conns[1].data[1].vma < idx
          BY Zenon, <4>4, <4>5 DEF DropInv, BeforeGet, Over, Getting
        <4>7. idx \in Nat /\ conns[1].data[1].vma \in Nat
          BY <1>0, <4>4, Requests, SessionAssumption DEF Vmas
        <4> QED BY <4>2, <4>6, <4>7
      <3>8. \A k \in Positions' : \A i \in 1 .. Len(conns'[k].data) : Asks(k, i)' =>
              /\ i = Len(conns'[k].data)
              /\ reply' = <<>>
              /\ conns'[k].data[i].what = "map" => wpc' = "get_map"
              /\ conns'[k].data[i].what = "tx" => wpc' = "get_reply" /\ conns'[k].data[i].vma = idx'
        BY Zenon, <1>6, <3>1, <3>2, <3>4, <3>5, <3>6
      <3> QED BY Zenon, <3>3, <3>5, <3>7, <3>8
    <2>3. CASE CloseMove
      <3>1. /\ Positions' = Positions
            /\ \A k \in Positions : conns'[k].cmd = conns[k].cmd /\ conns'[k].data = conns[k].data
        BY Zenon, <1>0, <2>3, ClosedStep DEF CloseMove
      <3>2. wpc \notin {"get_map", "get_reply"} /\ wpc' # "get_reply" /\ ppc' = ppc
        BY Zenon, <2>3 DEF CloseMove
      <3>3. ASSUME NEW k \in Positions, NEW i \in 1 .. Len(conns'[k].data) PROVE ~Asks(k, i)'
        <4>1. ~Asks(k, i)
          BY Zenon, <1>1, <3>1, <3>2, NoAsk
        <4> QED BY Zenon, <3>1, <3>2, <4>1 DEF Asks
      <3> QED BY Zenon, <3>1, <3>2, <3>3
    <2>4. CASE TakeMove
      <3>1. /\ 1 \in Positions /\ Positions' = Positions
            /\ \A k \in Positions : conns'[k].cmd = conns[k].cmd
            /\ \A k \in Positions : k # 1 => conns'[k].data = conns[k].data
            /\ Len(conns[1].data) >= 1 /\ Len(conns'[1].data) = Len(conns[1].data) - 1
            /\ \A i \in 1 .. Len(conns'[1].data) : conns'[1].data[i] = conns[1].data[i + 1]
        BY Zenon, <1>0, <2>4, TookStep DEF TakeMove
      <3>2. ppc' # "madvise" /\ wpc' = wpc
        BY Zenon, <2>4 DEF TakeMove
      <3>3. wpc = "get_reply" => idx' = idx
        BY Zenon, <3>2, IdxMove DEF Getting
      <3>4. ASSUME NEW k \in Positions, NEW i \in 1 .. Len(conns'[k].data), Asks(k, i)'
            PROVE  /\ i = Len(conns'[k].data)
                   /\ reply = <<>>
                   /\ conns'[k].data[i].what = "map" => wpc = "get_map"
                   /\ conns'[k].data[i].what = "tx" => wpc = "get_reply" /\ conns'[k].data[i].vma = idx
        <4>1. CASE k # 1
          <5>1. conns'[k].data = conns[k].data /\ conns'[k].cmd = conns[k].cmd
            BY Zenon, <3>1, <4>1
          <5>2. Asks(k, i)
            BY Zenon, <3>4, <4>1, <5>1 DEF Asks
          <5> QED BY Zenon, <1>a, <5>1, <5>2
        <4>2. CASE k = 1
          <5>1. i + 1 \in 1 .. Len(conns[1].data) /\ i + 1 # 1
            BY <1>c, <3>1, <4>2
          <5>2. conns'[1].data[i] = conns[1].data[i + 1]
            BY Zenon, <3>1, <4>2
          <5>3. Asks(1, i + 1)
            BY Zenon, <3>1, <3>4, <4>2, <5>1, <5>2 DEF Asks
          <5>4. i + 1 = Len(conns[1].data)
            BY Zenon, <1>a, <3>1, <5>1, <5>3
          <5>5. i = Len(conns'[1].data)
            BY <1>c, <3>1, <5>1, <5>4
          <5> QED BY SMTT(30), <1>a, <3>1, <4>2, <5>1, <5>2, <5>3, <5>5
        <4> QED BY Zenon, <4>1, <4>2
      <3> QED BY Zenon, <1>6, <3>1, <3>2, <3>3, <3>4
    <2>5. CASE DropMove
      <3>1. \A k \in Positions' : k \in Nat /\ k >= 1 /\ k + 1 \in Positions /\ conns'[k] = conns[k + 1]
        BY <1>0, <2>5, EofStep DEF DropMove, Positions
      <3>2. ppc' # "madvise" /\ wpc' = wpc
        BY Zenon, <2>5 DEF DropMove
      <3>3. wpc = "get_reply" => idx' = idx
        BY Zenon, <3>2, IdxMove DEF Getting
      <3>4. ASSUME NEW k \in Positions', NEW i \in 1 .. Len(conns'[k].data), Asks(k, i)'
            PROVE  Asks(k + 1, i) /\ k + 1 \in Positions /\ conns'[k] = conns[k + 1]
        BY <3>1, <3>4 DEF Asks
      <3> QED BY <1>6, <1>a, <3>2, <3>3, <3>4
    <2>6. CASE KeepMove
      <3>1. conns' = conns /\ Positions' = Positions
        BY Zenon, <2>6, SameConns DEF KeepMove
      <3>2. ppc' = ppc \/ (ppc # "madvise" /\ ppc' # "madvise") \/ Eof \/ cmd_get_pages_madvise \/ cmd_get_pages_tx
        BY Zenon, <1>0, PpcNext DEF Halted, Listen, Accept, cmd_set_pages, Die, Trap
      <3>3. CASE ppc' = ppc \/ (ppc # "madvise" /\ ppc' # "madvise")
        <4>1. ASSUME NEW k \in Positions, NEW i \in 1 .. Len(conns[k].data), Asks(k, i)' PROVE Asks(k, i)
          BY Zenon, <3>1, <3>3, <4>1 DEF Asks
        <4>2. CASE wpc \notin {"get_map", "get_reply"}
          <5>1. wpc' # "get_reply"
            BY Zenon, <2>6, <4>2 DEF KeepMove
          <5> QED BY Zenon, <1>1, <3>1, <4>1, <4>2, <5>1, NoAsk
        <4>3. CASE wpc \in {"get_map", "get_reply"}
          <5>1. wpc' = wpc
            BY Zenon, <1>6, <4>3 DEF Over
          <5>2. idx' = idx
            BY Zenon, <4>3, <5>1, IdxMove DEF Getting
          <5> QED BY <1>6, <1>a, <1>b, <3>1, <3>3, <4>1, <5>1, <5>2
        <4> QED BY Zenon, <4>2, <4>3
      <3>4. CASE Eof
        <4>1. conns' = Tail(conns) /\ ppc \in {"mprotect", "get", "set"}
          BY Zenon, <3>4 DEF Eof
        <4>2. conns # <<>>
          BY Zenon, <4>1 DEF SessionInv, HeadInv
        <4>3. Len(conns') = Len(conns) - 1
          BY Zenon, <1>0, <4>1, <4>2, ConnsType, TailOf
        <4>4. FALSE
          BY <1>0, <3>1, <4>3
        <4> QED BY Zenon, <4>4
      <3>5. CASE cmd_get_pages_madvise
        <4>1. Conn.data # <<>> /\ conns' = Took /\ ppc \in {"get", "madvise"}
          BY Zenon, <3>5 DEF cmd_get_pages_madvise, HasMsg
        <4>2. conns # <<>> /\ conns[1].data # <<>>
          BY Zenon, <4>1, MsgIs
        <4>3. 1 \in Positions /\ Len(conns'[1].data) = Len(conns[1].data) - 1
          BY Zenon, <1>0, <4>1, <4>2, TookStep
        <4>4. FALSE
          BY SMTT(30), <1>c, <3>1, <4>3
        <4> QED BY Zenon, <4>4
      <3> QED BY Zenon, <1>3, <3>2, <3>3, <3>4, <3>5
    <2> QED BY Zenon, Moves, <2>5, <2>1, <2>2, <2>3, <2>4, <2>6
  <1> QED BY Zenon, ReplyMove, <1>2, <1>3, <1>4, <1>5, <1>6

\* Where memory changes.
LEMMA MemMove ==
  ASSUME SessionInv, [Next]_vars
  PROVE  mem' = mem \/ cmd_get_pages_madvise \/ cmd_set_pages
  BY Zenon
     DEF Next, Worker, Parasite, Watcher, vars, parasite, MprotectOff, OffLoop, OnLoop, Mprotect,
     GetPages,
         GetVma, GetMap, GetRegion, GetReply, GetDone, SetPages, SetLoop, MprotectOn, CmdEnd,
         StatusWaitReturn, StatusWaitTimeout, Unseize, AssertFails, KillTarget, Restore, WorkerSigchld,
         Listen, Accept, cmd_mprotect, cmd_get_pages_map, cmd_get_pages_tx, Eof, Die, TargetKilled,
          TargetStopped, TargetContinued, WatchSeize, Watch

\* What waits to be read was waiting before or is sent just now.
LEMMA PendingMove ==
  ASSUME SessionInv, [Next]_vars
  PROVE  \/ SendMove
         \/ \A cmd : Pending(cmd)' \subseteq Pending(cmd)
  <1>0. TypeOK
    BY Zenon DEF SessionInv
  <1>1. CASE OpenMove
    <2>1. PICK c \in Connection : c.data = <<>> /\ conns' = Append(conns, c)
      BY Zenon, <1>1 DEF OpenMove
    <2>2. \A cmd : Pending(cmd)' = Pending(cmd)
      BY Zenon, <1>0, <2>1, OpenStep
    <2> QED BY Zenon, <2>2
  <1>2. CASE CloseMove
    <2>1. \A cmd : Pending(cmd)' = Pending(cmd)
      BY Zenon, <1>0, <1>2, ClosedStep DEF CloseMove
    <2> QED BY Zenon, <2>1
  <1>3. CASE KeepMove
    <2>1. \A cmd : Pending(cmd)' = Pending(cmd)
      BY Zenon, <1>3, SameConns DEF KeepMove
    <2> QED BY Zenon, <2>1
  <1>4. CASE TakeMove
    <2>1. \A cmd : Pending(cmd)' \subseteq Pending(cmd)
      BY Zenon, <1>0, <1>4, TookStep DEF TakeMove
    <2> QED BY Zenon, <2>1
  <1>5. CASE DropMove
    <2>1. \A cmd : Pending(cmd)' = Pending(cmd)
      BY Zenon, <1>0, <1>5, EofStep DEF DropMove
    <2> QED BY Zenon, <2>1
  <1> QED BY Zenon, Moves, <1>1, <1>2, <1>3, <1>4, <1>5

LEMMA ReplyNext ==
  ASSUME SessionInv, [Next]_vars
  PROVE  ReplyInv'
  <1> SUFFICES ASSUME wpc' \notin Over
               PROVE  /\ reply' # <<>> => wpc' \in {"get_map", "get_reply"} /\ ppc' \in {"get", "madvise", "trapped", "dead"}
                      /\ wpc' = "get_map" => reply' \in {<<>>, <<"map">>}
                      /\ wpc' = "get_reply" => reply' \in {<<>>, <<"orig">>} /\ (reply' = <<>> => mem'[idx'] = "orig")
                      /\ wpc' \in Getting => \A m \in Pending("GET_PAGES")' : m.what = "drop" => m.vma < idx'
    BY Zenon DEF ReplyInv
  <1>0. TypeOK /\ ReplyInv /\ Len(conns) \in Nat
    BY Zenon, ConnsType DEF SessionInv
  <1>1. wpc \notin Over
    BY Zenon, Phases
  <1>a. reply # <<>> => wpc \in {"get_map", "get_reply"} /\ ppc \in {"get", "madvise", "trapped", "dead"}
    BY Zenon, <1>0, <1>1 DEF ReplyInv
  <1>b. wpc = "get_map" => reply \in {<<>>, <<"map">>}
    BY Zenon, <1>0, <1>1 DEF ReplyInv
  <1>c. wpc = "get_reply" => reply \in {<<>>, <<"orig">>} /\ (reply = <<>> => mem[idx] = "orig")
    BY Zenon, <1>0, <1>1 DEF ReplyInv
  <1>2. ASSUME wpc' \in Getting, NEW m \in Pending("GET_PAGES")', m.what = "drop" PROVE m.vma < idx'
    <2>1. m \in Message
      BY Zenon DEF Pending
    <2>2. m.vma \in Nat /\ m.vma \in Vmas /\ idx \in Nat
      BY <1>0, <2>1, Requests, SessionAssumption DEF Message, Vmas
    <2>3. CASE m \in Pending("GET_PAGES")
      <3>1. CASE wpc \in Getting
        <4>1. m.vma < idx
          BY Zenon, <1>0, <1>1, <1>2, <2>3, <3>1 DEF ReplyInv
        <4>2. idx' = idx \/ idx' = idx + 1
          BY Zenon, <1>2, <3>1, IdxMove DEF Getting
        <4> QED BY <2>2, <4>1, <4>2
      <3>2. CASE wpc = "get_pages"
        <4>1. Dropped(m.vma)
          BY Zenon, <1>2, <2>3 DEF Dropped
        <4> QED BY Zenon, <2>2, <3>2, <4>1 DEF SessionInv, DropInv, BeforeGet
      <3> QED BY Zenon, <1>2, <3>1, <3>2, Phases
    <2>4. CASE m \notin Pending("GET_PAGES")
      <3>1. PICK n \in Message :
              /\ conns # <<>>
              /\ conns' = Sent(n)
              /\ n.what = "drop" => wpc = "get_region" /\ wpc' \in {"get_loop", "get_failed"} /\ n.vma = idx
        <4>1. SendMove
          BY Zenon, <2>4, PendingMove
        <4> QED BY Zenon, <4>1 DEF SendMove
      <3>2. m = n
        <4>1. \A cmd : Pending(cmd)' = IF cmd = conns[Len(conns)].cmd THEN Pending(cmd) \cup {n} ELSE Pending(cmd)
          BY Zenon, <1>0, <3>1, SentStep
        <4> QED BY Zenon, <2>4, <4>1
      <3>3. wpc = "get_region" /\ wpc' = "get_loop" /\ m.vma = idx
        BY Zenon, <1>2, <3>1, <3>2 DEF Over
      <3>4. idx' = idx + 1
        BY Zenon, <3>3, IdxMove DEF Getting
      <3> QED BY <2>2, <3>3, <3>4
    <2> QED BY Zenon, <2>3, <2>4
  <1>3. CASE cmd_get_pages_map
    <2>1. ppc = "get" /\ Conn.data # <<>> /\ Msg.what = "map"
      BY Zenon, <1>3 DEF cmd_get_pages_map, HasMsg
    <2>2. reply = <<>> /\ wpc = "get_map"
      BY Zenon, <1>1, <2>1, OneAsk
    <2>3. wpc' = wpc /\ ppc' = ppc /\ reply' = <<"map">>
      BY <1>3, <2>2 DEF cmd_get_pages_map, worker
    <2> QED BY Zenon, <1>2, <2>1, <2>2, <2>3
  <1>4. CASE cmd_get_pages_tx
    <2>1. ppc = "get" /\ Conn.data # <<>> /\ Msg.what = "tx"
      BY Zenon, <1>4 DEF cmd_get_pages_tx, HasMsg
    <2>2. reply = <<>> /\ wpc = "get_reply" /\ Msg.vma = idx
      BY Zenon, <1>1, <2>1, OneAsk
    <2>3. mem[idx] = "orig"
      BY Zenon, <1>c, <2>2
    <2>4. wpc' = wpc /\ ppc' = "madvise" /\ reply' = <<"orig">>
      BY <1>4, <2>2, <2>3 DEF cmd_get_pages_tx, worker
    <2> QED BY Zenon, <1>2, <2>2, <2>4
  <1>5. CASE /\ wpc \in {"get_map", "get_reply"} /\ wpc' \in {"get_loop", "get_region", "get_failed"}
             /\ reply # <<>> /\ reply' = Tail(reply)
             /\ UNCHANGED <<conns, ppc, mem>>
    <2>1. reply = <<"map">> \/ reply = <<"orig">>
      BY Zenon, <1>b, <1>c, <1>5
    <2>2. reply' = <<>>
      BY <1>5, <2>1
    <2> QED BY Zenon, <1>2, <1>5, <2>2
  <1>6. CASE /\ reply' = reply
             /\ wpc \in {"get_map", "get_reply"} => wpc' \in {wpc, "get_failed"}
    <2>1. wpc \in {"get_map", "get_reply"} => wpc' = wpc /\ idx' = idx
      <3>1. wpc \in {"get_map", "get_reply"} => wpc' = wpc
        BY Zenon, <1>6 DEF Over
      <3> QED BY Zenon, <3>1, IdxMove DEF Getting
    <2>2. ASSUME reply' # <<>> PROVE wpc' \in {"get_map", "get_reply"} /\ ppc' \in {"get", "madvise", "trapped", "dead"}
      <3>1. wpc \in {"get_map", "get_reply"} /\ ppc \in {"get", "madvise", "trapped", "dead"}
        BY Zenon, <1>6, <1>a, <2>2
      <3>2. ~Eof
        <4> SUFFICES ASSUME Eof PROVE FALSE
          BY Zenon
        <4>1. /\ ppc = "get" /\ Conn.closed
          BY Zenon, <3>1 DEF Eof
        <4>2. /\ conns # <<>> /\ conns[1].cmd = "GET_PAGES"
          BY Zenon, <4>1 DEF SessionInv, HeadInv
        <4>3. Conn = conns[1] /\ 1 \in Positions /\ Len(conns) \in Positions
          BY <1>0, <4>2, ConnsType, SeqOf DEF Conn, Positions
        <4>4. conns[Len(conns)].cmd = "GET_PAGES" /\ ~conns[Len(conns)].closed
          BY Zenon, <3>1 DEF SessionInv, NewestInv, Newest, Getting
        <4>5. 1 < Len(conns)
          BY <1>0, <4>1, <4>3, <4>4 DEF Positions
        <4> QED BY Zenon, <4>2, <4>3, <4>4, <4>5 DEF SessionInv, OrderInv
      <3>3. ppc' \in {"get", "madvise", "trapped", "dead"}
        BY Zenon, <1>0, <3>1, <3>2, PpcNext
           DEF Listen, Accept, cmd_get_pages_tx, cmd_get_pages_madvise, cmd_set_pages, HasMsg,
                                         Die, Trap
      <3> QED BY Zenon, <2>1, <3>1, <3>3
    <2>3. wpc' = "get_map" => reply' \in {<<>>, <<"map">>}
      BY Zenon, <1>6, <1>a, <1>b, <2>1, Phases
    <2>4. ASSUME wpc' = "get_reply" PROVE reply' \in {<<>>, <<"orig">>} /\ (reply' = <<>> => mem'[idx'] = "orig")
      <3>1. CASE wpc = "get_reply"
        <4>1. reply' \in {<<>>, <<"orig">>}
          BY Zenon, <1>6, <1>c, <3>1
        <4>2. ASSUME reply' = <<>> PROVE mem'[idx'] = "orig"
          <5>1. reply = <<>> /\ mem[idx] = "orig" /\ idx' = idx
            BY Zenon, <1>6, <1>c, <2>1, <3>1, <4>2
          <5>2. CASE mem' = mem
            BY Zenon, <5>1, <5>2
          <5>3. CASE cmd_get_pages_madvise
            <6>1. ppc \in {"get", "madvise"} /\ Conn.data # <<>> /\ (ppc = "get" => Msg.what = "drop")
                  /\ mem' = [mem EXCEPT ![Msg.vma] = "zero"]
              BY Zenon, <5>3 DEF cmd_get_pages_madvise, HasMsg
            <6>2. Msg \in Pending("GET_PAGES") /\ Msg = conns[1].data[1] /\ Msg \in Message
              BY Zenon, <6>1, MsgIs
            <6>3. CASE ppc = "madvise"
              <7>1. Msg.vma # idx
                BY Zenon, <1>1, <3>1, <5>1, <6>2, <6>3 DEF SessionInv, AskInv, Halted
              <7> QED BY <5>1, <6>1, <7>1
            <6>4. CASE ppc = "get"
              <7>1. Msg.vma < idx
                BY Zenon, <1>0, <1>1, <3>1, <6>1, <6>2, <6>4 DEF ReplyInv, Getting
              <7>2. Msg.vma # idx
                BY <1>0, <6>2, <7>1, Requests, SessionAssumption DEF Message, Vmas
              <7> QED BY <5>1, <6>1, <7>2
            <6> QED BY Zenon, <6>1, <6>3, <6>4
          <5>4. CASE cmd_set_pages
            <6>1. ppc = "set" /\ Conn.data # <<>>
              BY Zenon, <5>4 DEF cmd_set_pages, HasMsg
            <6>2. 1 \in Positions /\ conns[1].cmd = "SET_PAGES"
              BY Zenon, <6>1, MsgIs
            <6> QED BY Zenon, <3>1, <6>2 DEF SessionInv, OrderInv, BeforeSet, Getting
          <5> QED BY Zenon, MemMove, <5>2, <5>3, <5>4
        <4> QED BY Zenon, <4>1, <4>2
      <3>2. CASE wpc = "get_region"
        <4>1. reply' = <<>>
          BY Zenon, <1>6, <1>a, <3>2
        <4>2. mem' = mem /\ idx' = idx /\ idx \in Vmas
          BY Zenon, <2>4, <3>2, IdxMove, Moves
             DEF Getting, OpenMove, SendMove, CloseMove, KeepMove, TakeMove, DropMove
        <4>3. ~Dropped(idx)
          <5>1. \A v \in Vmas : Dropped(v) => v < idx
            BY Zenon, <3>2 DEF SessionInv, DropInv, BeforeGet, Over, Getting
          <5>2. idx \in Nat
            BY Zenon, <1>0, Requests
          <5> QED BY <4>2, <5>1, <5>2
        <4>4. mem[idx] = "orig"
          BY Zenon, <1>0, <4>2, <4>3 DEF Dropped, TypeOK
        <4> QED BY Zenon, <4>1, <4>2, <4>4
      <3> QED BY Zenon, <2>4, <3>1, <3>2, Phases
    <2> QED BY Zenon, <1>2, <2>2, <2>3, <2>4
  <1>7. CASE Accept
    <2>1. /\ reply = <<>> /\ reply' = <<>> /\ wpc' = wpc /\ mem' = mem /\ idx' = idx
      BY Zenon, <1>a, <1>7 DEF Accept, worker
    <2> QED BY Zenon, <1>2, <1>c, <2>1
  <1> QED BY Zenon, ReplyMove, <1>3, <1>4, <1>5, <1>6, <1>7

-----------------------------------------------------------------------------
(* What was dropped comes back. *)

\* The loop over the dump.
LEMMA SetLoopMove ==
  ASSUME SessionInv, [Next]_vars, wpc = "set_loop"
  PROVE  /\ wpc' = "set_loop" => \/ idx' = idx
                                 \/ idx \in 1 .. Len(image) /\ conns' = Sent(image[idx]) /\ idx' = idx + 1
         /\ wpc' = "mprotect_on" => idx > Len(image)
  <1>1. idx \in Nat /\ idx >= 1 /\ Len(image) \in Nat
    BY Zenon, Requests DEF SessionInv
  <1>2. CASE SetLoop
    BY <1>1, <1>2 DEF SetLoop, Goto
  <1>3. CASE ~SetLoop
    <2>1. wpc' = wpc /\ idx' = idx
      BY ZenonT(40), <1>3
         DEF Next, Worker, Parasite, Watcher, vars, worker, MprotectOff, OffLoop, OnLoop, Mprotect,
          GetPages, GetVma, GetMap, GetRegion, GetReply, GetDone, SetPages, MprotectOn, CmdEnd,
          StatusWaitReturn, StatusWaitTimeout, Unseize, AssertFails, KillTarget, Restore, WorkerSigchld,
          Listen, Accept, cmd_mprotect, cmd_get_pages_map, cmd_get_pages_tx, cmd_get_pages_madvise, cmd_set_pages,
          Eof, Die, TargetKilled,
          TargetStopped, TargetContinued, WatchSeize, Watch
    <2> QED BY ZenonT(40), <2>1
  <1> QED BY Zenon, <1>2, <1>3

\* A request is read by the parasite only.
LEMMA PendingKept ==
  ASSUME SessionInv, [Next]_vars, NEW cmd, NEW m \in Pending(cmd), m \notin Pending(cmd)'
  PROVE  /\ TakeMove /\ m = Msg /\ conns[1].cmd = cmd
         /\ 1 \in Positions /\ Positions' = Positions
         /\ 1 \in 1 .. Len(conns[1].data) /\ Msg = conns[1].data[1]
         /\ \A c : Pending(c)' \subseteq Pending(c)
  <1>0. TypeOK
    BY Zenon DEF SessionInv
  <1>1. CASE OpenMove
    <2>1. PICK c \in Connection : c.data = <<>> /\ conns' = Append(conns, c)
      BY Zenon, <1>1 DEF OpenMove
    <2>2. \A d : Pending(d)' = Pending(d)
      BY Zenon, <1>0, <2>1, OpenStep
    <2> QED BY Zenon, <2>2
  <1>2. CASE CloseMove
    <2>1. \A d : Pending(d)' = Pending(d)
      BY Zenon, <1>0, <1>2, ClosedStep DEF CloseMove
    <2> QED BY Zenon, <2>1
  <1>3. CASE KeepMove
    <2>1. \A d : Pending(d)' = Pending(d)
      BY Zenon, <1>3, SameConns DEF KeepMove
    <2> QED BY Zenon, <2>1
  <1>4. CASE TakeMove
    <2>1. /\ 1 \in Positions /\ Positions' = Positions
          /\ Len(conns[1].data) >= 1
          /\ Conn = conns[1] /\ Msg = conns[1].data[1]
          /\ \A d : d # Conn.cmd => Pending(d)' = Pending(d)
          /\ \A d : Pending(d)' \subseteq Pending(d) /\ Pending(d) \subseteq Pending(d)' \cup {Msg}
      BY Zenon, <1>0, <1>4, TookStep DEF TakeMove
    <2>2. 1 \in 1 .. Len(conns[1].data)
      BY <1>0, <2>1, PendingAt
    <2> QED BY Zenon, <1>4, <2>1, <2>2
  <1>5. CASE DropMove
    <2>1. \A d : Pending(d)' = Pending(d)
      BY Zenon, <1>0, <1>5, EofStep DEF DropMove
    <2> QED BY Zenon, <2>1
  <1>6. CASE SendMove
    <2>1. PICK n \in Message : conns # <<>> /\ conns' = Sent(n)
      BY Zenon, <1>6 DEF SendMove
    <2>2. \A d : Pending(d)' = IF d = conns[Len(conns)].cmd THEN Pending(d) \cup {n} ELSE Pending(d)
      BY Zenon, <1>0, <2>1, SentStep
    <2> QED BY Zenon, <2>2
  <1> QED BY Zenon, Moves, <1>1, <1>2, <1>3, <1>4, <1>5, <1>6

\* What is sent on the newest connection waits to be read there.
LEMMA PendingSent ==
  ASSUME TypeOK, NEW cmd, Newest(cmd), NEW m \in Message, conns' = Sent(m)
  PROVE  m \in Pending(cmd)'
  <1>1. conns # <<>> /\ conns[Len(conns)].cmd = cmd
    BY Zenon DEF Newest
  <1>2. \A d : Pending(d)' = IF d = conns[Len(conns)].cmd THEN Pending(d) \cup {m} ELSE Pending(d)
    BY Zenon, <1>1, SentStep
  <1> QED BY Zenon, <1>1, <1>2

\* A region that is on its way back stays so until the parasite has written it,
\* and nothing drops it again.
LEMMA SetKept ==
  ASSUME SessionInv, [Next]_vars, NEW v \in Vmas, Img(v) \in Pending("SET_PAGES"), Dropped(v)'
  PROVE  Img(v) \in Pending("SET_PAGES")'
  <1> SUFFICES ASSUME Img(v) \notin Pending("SET_PAGES")' PROVE FALSE
    BY Zenon
  <1>1. /\ TakeMove /\ Img(v) = Msg /\ conns[1].cmd = "SET_PAGES"
        /\ 1 \in Positions
        /\ \A c : Pending(c)' \subseteq Pending(c)
    BY Zenon, PendingKept
  <1>2. mem' = [mem EXCEPT ![Msg.vma] = Msg.what]
    BY Zenon, <1>1 DEF TakeMove, SessionInv, HeadInv
  <1>3. mem'[v] = "orig"
    BY Zenon, <1>1, <1>2 DEF Img, SessionInv, TypeOK
  <1>4. PICK m \in Pending("GET_PAGES") : TRUE
    <2>1. PICK m \in Pending("GET_PAGES")' : TRUE
      BY Zenon, <1>3 DEF Dropped
    <2> QED BY Zenon, <1>1, <2>1
  <1>5. PICK k \in Positions : conns[k].cmd = "GET_PAGES"
    BY Zenon, <1>4 DEF Pending
  <1>6. 1 < k
    BY <1>1, <1>5 DEF Positions
  <1> QED BY Zenon, <1>1, <1>5, <1>6 DEF SessionInv, OrderInv

LEMMA RestoreNext ==
  ASSUME SessionInv, [Next]_vars
  PROVE  RestoreInv'
  <1>0. TypeOK /\ RestoreInv /\ idx \in Nat /\ Len(image) \in Nat
    BY Zenon, Requests DEF SessionInv
  <1>1. ASSUME wpc' = "set_loop", NEW v \in Vmas, Dropped(v)'
        PROVE  \/ Img(v) \in Pending("SET_PAGES")'
               \/ \E i \in idx' .. Len(image') : image'[i] = Img(v)
    <2>1. wpc \in {"restore", "set_loop"}
      BY Zenon, <1>1, Phases
    <2>2. Dropped(v) /\ image' = image
      BY Zenon, <1>1, <2>1, DroppedMove, ImageMove
    <2>3. CASE wpc = "restore"
      <3>1. idx' = 1
        BY Zenon, <1>1, <2>3, IdxMove
      <3>2. Saved(v)
        BY Zenon, <2>2, <2>3 DEF SessionInv, DropInv, BeforeGet, Over
      <3> QED BY Zenon, <1>0, <2>2, <3>1, <3>2, SavedAt
    <2>4. CASE wpc = "set_loop"
      <3>1. CASE Img(v) \in Pending("SET_PAGES")
        BY Zenon, <1>1, <3>1, SetKept
      <3>2. ASSUME NEW i \in idx .. Len(image), image[i] = Img(v)
            PROVE  \/ Img(v) \in Pending("SET_PAGES")'
                   \/ \E j \in idx' .. Len(image') : image'[j] = Img(v)
        <4>1. CASE idx' = idx
          BY Zenon, <2>2, <3>2, <4>1
        <4>2. CASE idx \in 1 .. Len(image) /\ conns' = Sent(image[idx]) /\ idx' = idx + 1
          <5>1. CASE i = idx
            <6>1. image[idx] \in Message /\ Newest("SET_PAGES")
              BY Zenon, <1>0, <2>4, <4>2, Requests DEF SessionInv, NewestInv
            <6>2. image[idx] \in Pending("SET_PAGES")'
              BY Zenon, <1>0, <4>2, <6>1, PendingSent
            <6> QED BY Zenon, <3>2, <5>1, <6>2
          <5>2. CASE i # idx
            <6>1. i \in idx' .. Len(image') /\ image'[i] = Img(v)
              BY <1>0, <2>2, <3>2, <4>2, <5>2
            <6> QED BY Zenon, <6>1
          <5> QED BY Zenon, <5>1, <5>2
        <4> QED BY Zenon, <1>1, <2>4, <4>1, <4>2, SetLoopMove
      <3> QED BY Zenon, <1>0, <2>2, <2>4, <3>1, <3>2 DEF RestoreInv
    <2> QED BY Zenon, <2>1, <2>3, <2>4
  <1>2. ASSUME wpc' \in {"mprotect_on", "on_loop", "cmd_end", "status_wait", "blobs"} \/ Released',
               NEW v \in Vmas, Dropped(v)'
        PROVE  Img(v) \in Pending("SET_PAGES")'
    <2>1. \/ wpc = "set_loop" /\ wpc' = "mprotect_on"
          \/ wpc \in {"mprotect_on", "on_loop", "cmd_end", "status_wait", "blobs"} \/ Released
      BY Zenon, <1>2, Phases
    <2>2. Dropped(v)
      BY Zenon, <1>2, <2>1, DroppedMove DEF Released
    <2>3. Img(v) \in Pending("SET_PAGES")
      <3>1. CASE wpc = "set_loop" /\ wpc' = "mprotect_on"
        <4>1. idx > Len(image)
          BY Zenon, <3>1, SetLoopMove
        <4>2. ~\E i \in idx .. Len(image) : image[i] = Img(v)
          BY <1>0, <4>1
        <4> QED BY Zenon, <1>0, <2>2, <3>1, <4>2 DEF RestoreInv
      <3>2. CASE wpc \in {"mprotect_on", "on_loop", "cmd_end", "status_wait", "blobs"} \/ Released
        BY Zenon, <1>0, <2>2, <3>2 DEF RestoreInv
      <3> QED BY Zenon, <2>1, <3>1, <3>2
    <2> QED BY Zenon, <1>2, <2>3, SetKept
  <1> QED BY Zenon, <1>1, <1>2 DEF RestoreInv, Img

-----------------------------------------------------------------------------
(* The protections come back. *)

\* The loop over the VMAs whose protection is restored.
LEMMA OnLoopMove ==
  ASSUME SessionInv, [Next]_vars, wpc = "on_loop"
  PROVE  /\ wpc' = "on_loop" => \/ idx' = idx
                                \/ \E w \in Vmas : w = NextReadOnly(idx) /\ conns' = Sent(Img(w)) /\ idx' = w + 1
         /\ wpc' = "cmd_end" => NextReadOnly(idx) = 0 \/ parasite_write_fails
  <1>1. idx \in Nat
    BY Zenon, Requests DEF SessionInv
  <1>2. CASE OnLoop
    <2>1. PICK w : w = NextReadOnly(idx)
      BY Zenon
    <2>2. w # 0 => w \in Vmas
      BY Zenon, <1>1, <2>1, NextOne
    <2> QED BY Zenon, <1>2, <2>1, <2>2 DEF OnLoop, Mprotect, Goto, Img
  <1>3. CASE ~OnLoop
    <2>1. wpc' = wpc /\ idx' = idx
      BY ZenonT(40), <1>3 DEF Next, Worker, Parasite, Watcher, vars, worker, MprotectOff, OffLoop, Mprotect,
          GetPages, GetVma, GetMap, GetRegion, GetReply, GetDone, SetPages, SetLoop, MprotectOn, CmdEnd,
          StatusWaitReturn, StatusWaitTimeout, Unseize, AssertFails, KillTarget, Restore, WorkerSigchld,
          Listen, Accept, cmd_mprotect, cmd_get_pages_map, cmd_get_pages_tx, cmd_get_pages_madvise, cmd_set_pages,
          Eof, Die, TargetKilled,
          TargetStopped, TargetContinued, WatchSeize, Watch
    <2> QED BY ZenonT(40), <2>1
  <1> QED BY Zenon, <1>2, <1>3

\* Where protections change, and why target_mprotect_on may be skipped.
LEMMA ProtMove ==
  ASSUME SessionInv, [Next]_vars
  PROVE  /\ prot' = prot \/ cmd_mprotect
         /\ opts' = opts
         /\ jobctl' = "none" => jobctl = "none"
         /\ wpc = "mprotect_on" /\ wpc' = "cmd_end" => parasite_connect_fails
  BY ZenonT(40)
     DEF Next, Worker, Parasite, Watcher, vars, parasite, worker, watcher, MprotectOff, OffLoop, OnLoop,
     Mprotect, GetPages,
         GetVma, GetMap, GetRegion, GetReply, GetDone, SetPages, SetLoop, MprotectOn, CmdEnd,
         StatusWaitReturn, StatusWaitTimeout, Unseize, AssertFails, KillTarget, Restore, WorkerSigchld,
         Listen, Accept, cmd_mprotect, cmd_get_pages_map, cmd_get_pages_tx, cmd_get_pages_madvise, cmd_set_pages,
         Eof, Die, TargetKilled, TargetStopped, TargetContinued, WatchSeize, Watch, Goto

\* Only target_mprotect_off changes a protection.
LEMMA OpenedMove ==
  ASSUME SessionInv, [Next]_vars, NEW v \in Vmas, Opened(v)'
  PROVE  Opened(v) \/ (wpc = "off_loop" /\ wpc' = "off_loop" /\ v \in ReadOnly)
  <1>0. TypeOK
    BY Zenon DEF SessionInv
  <1>1. CASE prot'[v] = "open"
    <2>1. CASE prot' = prot
      BY Zenon, <1>1, <2>1 DEF Opened
    <2>2. CASE cmd_mprotect
      <3>1. ppc = "mprotect" /\ Conn.data # <<>> /\ prot' = [prot EXCEPT ![Msg.vma] = Msg.what]
        BY Zenon, <2>2 DEF cmd_mprotect, HasMsg
      <3>2. Msg \in Message /\ Msg \in Pending(conns[1].cmd) /\ conns[1].cmd = "MPROTECT"
        BY Zenon, <3>1, MsgIs
      <3>3. CASE Msg.vma # v
        BY Zenon, <1>0, <1>1, <3>1, <3>3 DEF Opened, TypeOK
      <3>4. CASE Msg.vma = v
        <4>1. Msg.what = "open"
          BY Zenon, <1>0, <1>1, <3>1, <3>4 DEF TypeOK
        <4>2. Msg = [vma |-> v, what |-> "open"]
          BY Zenon, <3>2, <3>4, <4>1 DEF Message
        <4> QED BY Zenon, <3>2, <4>2 DEF Opened
      <3> QED BY Zenon, <3>3, <3>4
    <2> QED BY Zenon, <2>1, <2>2, ProtMove
  <1>2. ASSUME NEW m, m = [vma |-> v, what |-> "open"], m \in Pending("MPROTECT")', m \notin Pending("MPROTECT")
        PROVE  wpc = "off_loop" /\ wpc' = "off_loop" /\ v \in ReadOnly
    <2>1. PICK n \in Message :
            /\ conns # <<>>
            /\ conns' = Sent(n)
            /\ n.what = "open" => wpc = "off_loop" /\ wpc' = "off_loop" /\ n.vma \in ReadOnly
      <3>1. SendMove
        BY Zenon, <1>2, PendingMove
      <3> QED BY Zenon, <3>1 DEF SendMove
    <2>2. m = n
      <3>1. \A cmd : Pending(cmd)' = IF cmd = conns[Len(conns)].cmd THEN Pending(cmd) \cup {n} ELSE Pending(cmd)
        BY Zenon, <1>0, <2>1, SentStep
      <3> QED BY Zenon, <1>2, <3>1
    <2>3. m.what = "open" /\ m.vma = v
      BY Zenon, <1>2
    <2> QED BY Zenon, <2>1, <2>2, <2>3
  <1>3. PICK m : m = [vma |-> v, what |-> "open"]
    BY Zenon
  <1>4. prot'[v] = "open" \/ m \in Pending("MPROTECT")'
    BY Zenon, <1>3 DEF Opened
  <1>5. m \in Pending("MPROTECT") => Opened(v)
    BY Zenon, <1>3 DEF Opened
  <1> QED BY Zenon, <1>1, <1>2, <1>3, <1>4, <1>5

\* A protection that is on its way back stays so until the parasite has restored
\* it, and nothing changes it again.
LEMMA UndoKept ==
  ASSUME SessionInv, [Next]_vars, NEW v \in Vmas, Img(v) \in Pending("MPROTECT"), Opened(v)'
  PROVE  Img(v) \in Pending("MPROTECT")'
  <1> SUFFICES ASSUME Img(v) \notin Pending("MPROTECT")' PROVE FALSE
    BY Zenon
  <1>1. /\ TakeMove /\ Img(v) = Msg /\ conns[1].cmd = "MPROTECT"
        /\ 1 \in Positions
        /\ 1 \in 1 .. Len(conns[1].data) /\ Msg = conns[1].data[1]
        /\ \A c : Pending(c)' \subseteq Pending(c)
    BY Zenon, PendingKept
  <1>2. prot' = [prot EXCEPT ![Msg.vma] = Msg.what]
    BY Zenon, <1>1 DEF TakeMove, SessionInv, HeadInv
  <1>3. prot'[v] = "orig"
    BY <1>1, <1>2 DEF Img, SessionInv, TypeOK
  <1>4. PICK m : m.what = "open" /\ m \in Pending("MPROTECT")
    <2>1. PICK m : m = [vma |-> v, what |-> "open"]
      BY Zenon
    <2>2. m \in Pending("MPROTECT")'
      BY Zenon, <1>3, <2>1 DEF Opened
    <2>3. m \in Pending("MPROTECT") /\ m.what = "open"
      BY Zenon, <1>1, <2>1, <2>2
    <2> QED BY Zenon, <2>3
  <1>5. PICK k \in Positions : conns[k].cmd = "MPROTECT" /\ \E i \in 1 .. Len(conns[k].data) : conns[k].data[i] = m
    BY Zenon, <1>4 DEF Pending
  <1>6. HasOrig(conns[1].data)
    <2>1. Msg.what = "orig"
      BY <1>1 DEF Img
    <2> QED BY Zenon, <1>1, <2>1 DEF HasOrig
  <1>7. AllOrig(conns[k].data)
    <2>1. 1 <= k
      BY <1>5 DEF Positions
    <2> QED BY Zenon, <1>1, <1>5, <1>6, <2>1 DEF SessionInv, UndoInv
  <1> QED BY Zenon, <1>4, <1>5, <1>7 DEF AllOrig

LEMMA ProtNext ==
  ASSUME SessionInv, [Next]_vars
  PROVE  ProtInv'
  <1>0. TypeOK /\ ProtInv /\ idx \in Nat /\ idx >= 1
    BY Zenon, Requests DEF SessionInv
  <1>v. \A v \in Vmas : v \in Nat /\ v >= 1
    BY SessionAssumption DEF Vmas
  <1>1. ASSUME NEW v \in Vmas, Opened(v)' PROVE v \in ReadOnly
    BY Zenon, <1>0, <1>1, OpenedMove DEF ProtInv
  <1>2. ASSUME wpc' = "on_loop", NEW v \in Vmas, Opened(v)'
        PROVE  v >= idx' \/ Img(v) \in Pending("MPROTECT")'
    <2>1. wpc \in {"mprotect_on", "on_loop"}
      BY Zenon, <1>2, Phases
    <2>2. Opened(v)
      BY Zenon, <1>2, <2>1, OpenedMove
    <2>3. CASE wpc = "mprotect_on"
      <3>1. idx' = 1
        BY Zenon, <1>2, <2>3, IdxMove
      <3> QED BY Zenon, <1>v, <3>1
    <2>4. CASE wpc = "on_loop"
      <3>1. CASE Img(v) \in Pending("MPROTECT")
        BY Zenon, <1>2, <3>1, UndoKept
      <3>2. CASE v >= idx /\ idx' = idx
        BY Zenon, <3>2
      <3>3. CASE v >= idx /\ \E w \in Vmas : w = NextReadOnly(idx) /\ conns' = Sent(Img(w)) /\ idx' = w + 1
        <4>1. PICK w \in Vmas : w = NextReadOnly(idx) /\ conns' = Sent(Img(w)) /\ idx' = w + 1
          BY Zenon, <3>3
        <4>2. v >= w
          <5>1. w # 0
            BY <1>v, <4>1
          <5> QED BY Zenon, <1>0, <1>1, <1>2, <3>3, <4>1, <5>1, NextOne
        <4>3. CASE v = w
          <5>1. Img(v) \in Message /\ Newest("MPROTECT")
            BY Zenon, <2>4 DEF Img, Message, SessionInv, NewestInv
          <5> QED BY Zenon, <1>0, <4>1, <4>3, <5>1, PendingSent
        <4>4. CASE v # w
          BY <1>v, <4>1, <4>2, <4>4
        <4> QED BY Zenon, <4>3, <4>4
      <3> QED BY Zenon, <1>0, <1>2, <2>2, <2>4, <3>1, <3>2, <3>3, OnLoopMove DEF ProtInv
    <2> QED BY Zenon, <2>1, <2>3, <2>4
  <1>3. ASSUME wpc' \in {"cmd_end", "status_wait", "blobs"} \/ Released', ~opts'.unreachable, jobctl' = "none", ~Halted',
               NEW v \in Vmas, Opened(v)'
        PROVE  Img(v) \in Pending("MPROTECT")'
    <2>1. ~opts.unreachable /\ jobctl = "none" /\ ~Halted
      BY Zenon, <1>3, ProtMove, HaltedStays
    <2>2. \/ wpc \in {"mprotect_on", "on_loop"} /\ wpc' = "cmd_end"
          \/ wpc \in {"cmd_end", "status_wait", "blobs"} \/ Released
      BY Zenon, <1>3, Phases
    <2>3. Opened(v)
      BY Zenon, <1>3, <2>2, OpenedMove DEF Released
    <2>4. wpc \in BeforeEnd => ppc # "exited"
      <3> SUFFICES ASSUME wpc \in BeforeEnd, ppc = "exited" PROVE FALSE
        BY Zenon
      <3>1. conns # <<>> /\ conns[1].cmd = "END"
        BY Zenon DEF SessionInv, HeadInv
      <3>2. 1 \in Positions
        BY <1>0, <3>1, ConnsType DEF Positions
      <3> QED BY Zenon, <3>1, <3>2 DEF SessionInv, OrderInv
    <2>5. Img(v) \in Pending("MPROTECT")
      <3>1. CASE wpc = "mprotect_on" /\ wpc' = "cmd_end"
        <4>1. ppc = "exited"
          BY Zenon, <2>1, <3>1, ProtMove DEF parasite_connect_fails, Halted
        <4> QED BY Zenon, <2>4, <3>1, <4>1 DEF BeforeEnd, BeforeOn
      <3>2. CASE wpc = "on_loop" /\ wpc' = "cmd_end"
        <4>1. ~parasite_write_fails
          <5>1. status \in {"ok", "exited", "stopped", "signaled"}
            BY Zenon, <1>0 DEF TypeOK
          <5>2. status = "ok" /\ ppc # "dead"
            BY Zenon, <2>1, <2>4, <3>2, <5>1 DEF SessionInv, StatusInv, Halted, BeforeEnd
          <5> QED BY Zenon, <5>2 DEF parasite_write_fails, parasite_status_ok
        <4>2. 0 = NextReadOnly(idx)
          BY Zenon, <3>2, <4>1, OnLoopMove
        <4>3. v < idx
          BY Zenon, <1>0, <1>1, <1>3, <4>2, NextOne
        <4> QED BY <1>0, <1>v, <2>3, <3>2, <4>3 DEF ProtInv
      <3>3. CASE wpc \in {"cmd_end", "status_wait", "blobs"} \/ Released
        BY Zenon, <1>0, <2>1, <2>3, <3>3 DEF ProtInv
      <3> QED BY Zenon, <2>2, <3>1, <3>2, <3>3
    <2> QED BY Zenon, <1>3, <2>5, UndoKept
  <1> QED BY Zenon, <1>1, <1>2, <1>3 DEF ProtInv, Img

-----------------------------------------------------------------------------
(* The theorems. *)

LEMMA SessionInit ==
  ASSUME Init
  PROVE  SessionInv
  <1>1. /\ conns = <<>> /\ reply = <<>> /\ image = <<>> /\ Len(image) = 0 /\ Positions = {}
        /\ wpc = "mprotect_off" /\ ppc = "start" /\ status = "ok" /\ target = "frozen" /\ idx = 1
        /\ \A v \in Vmas : mem[v] = "orig" /\ prot[v] = "orig"
    BY DEF Init, Positions
  <1>2. \A cmd : Pending(cmd) = {}
    BY Zenon, <1>1 DEF Pending
  <1>3. TypeOK
    BY <1>1, SessionAssumption DEF Init, TypeOK, Waiting, Serving
  <1>4. NewestInv /\ OrderInv
    BY Zenon, <1>1 DEF NewestInv, OrderInv, Writing, Getting
  <1>5. KindInv /\ UndoInv
    BY Zenon, <1>1, <1>2 DEF KindInv, UndoInv
  <1>6. HeadInv /\ StatusInv
    BY Zenon, <1>1 DEF HeadInv, StatusInv, Released
  <1>7. ImageInv /\ AskInv
    BY <1>1, SessionAssumption DEF ImageInv, AskInv, Getting
  <1>8. \A v \in Vmas : ~Dropped(v) /\ ~Opened(v)
    BY Zenon, <1>1, <1>2 DEF Dropped, Opened
  <1>9. DropInv /\ ProtInv
    BY Zenon, <1>1, <1>8 DEF DropInv, BeforeGet, ProtInv
  <1>10. ReplyInv /\ RestoreInv
    BY Zenon, <1>1, <1>8 DEF ReplyInv, RestoreInv, Getting
  <1> QED BY Zenon, <1>3, <1>4, <1>5, <1>6, <1>7, <1>9, <1>10 DEF SessionInv

LEMMA SessionNext ==
  ASSUME SessionInv, [Next]_vars
  PROVE  SessionInv'
  <1>1. TypeOK'
    BY Zenon, TypeNext
  <1>2. NewestInv' /\ OrderInv' /\ KindInv' /\ UndoInv'
    BY Zenon, NewestNext, OrderNext, KindNext, UndoNext
  <1>3. HeadInv' /\ StatusInv' /\ ImageInv' /\ DropInv'
    BY Zenon, <1>1, HeadNext, StatusNext, ImageNext, DropNext
  <1>4. AskInv' /\ ReplyInv' /\ RestoreInv' /\ ProtInv'
    BY Zenon, AskNext, ReplyNext, RestoreNext, ProtNext
  <1> QED BY Zenon, <1>1, <1>2, <1>3, <1>4 DEF SessionInv

LEMMA SessionHolds == Spec => []SessionInv
  BY SessionInit, SessionNext, PTL DEF Spec

\* Every way a session can go, for any number of VMAs, of messages a socket
\* takes, with or without -m, and whatever fails: what was dropped from the
\* target's memory is in the dump or arriving, unless the checkpoint has failed.
THEOREM DroppedIsSavedHolds == Spec => []DroppedIsSaved
  <1>1. ASSUME SessionInv PROVE DroppedIsSaved
    <2>0. TypeOK
      BY Zenon, <1>1 DEF SessionInv
    <2>1. ASSUME NEW v \in Vmas, mem[v] = "zero", target = "frozen"
          PROVE  \/ Saved(v)
                 \/ wpc = "get_reply" /\ v = idx /\ reply = <<"orig">>
                 \/ wpc \in {"get_failed", "failed"}
      <3>1. Dropped(v)
        BY Zenon, <2>1 DEF Dropped
      <3>2. wpc \notin {"done", "crashed"}
        BY Zenon, <1>1, <2>1 DEF SessionInv, StatusInv
      <3>3. CASE wpc \in Over
        BY Zenon, <3>2, <3>3 DEF Over
      <3>4. CASE wpc \notin Over
        <4>1. Saved(v) \/ (wpc = "get_reply" /\ v = idx)
          BY Zenon, <1>1, <3>1, <3>4 DEF SessionInv, DropInv
        <4>2. wpc = "get_reply" /\ v = idx => reply = <<"orig">>
          BY Zenon, <1>1, <2>1, <3>4 DEF SessionInv, ReplyInv
        <4> QED BY Zenon, <4>1, <4>2
      <3> QED BY Zenon, <3>3, <3>4
    <2> QED BY Zenon, <2>0, <2>1 DEF DroppedIsSaved
  <1> QED BY <1>1, SessionHolds, PTL

\* Nothing waits to be read when the parasite has exited.
LEMMA NothingPending ==
  ASSUME SessionInv, Released
  PROVE  /\ ppc = "exited"
         /\ Pending("SET_PAGES") = {} /\ Pending("MPROTECT") = {}
  <1>1. ppc = "exited"
    BY Zenon DEF SessionInv, StatusInv
  <1>2. conns # <<>> /\ conns[1].cmd = "END" /\ TypeOK
    BY Zenon, <1>1 DEF SessionInv, HeadInv
  <1>3. 1 \in Positions /\ \A k \in Positions : k \in Nat /\ (k = 1 \/ 1 < k)
    BY <1>2, ConnsType DEF Positions
  <1>4. \A k \in Positions : conns[k].cmd = "END"
    BY Zenon, <1>2, <1>3 DEF SessionInv, OrderInv
  <1> QED BY Zenon, <1>1, <1>4 DEF Pending

\* A target that is released has its memory back and is rid of the parasite.
THEOREM MemoryIntactHolds == Spec => []MemoryIntact
  <1>1. ASSUME SessionInv PROVE MemoryIntact
    <2> SUFFICES ASSUME Released PROVE ppc = "exited" /\ \A v \in Vmas : mem[v] = "orig"
      BY Zenon DEF MemoryIntact
    <2>1. ppc = "exited" /\ Pending("SET_PAGES") = {}
      BY Zenon, <1>1, NothingPending
    <2>2. ASSUME NEW v \in Vmas PROVE mem[v] = "orig"
      <3>1. ~Dropped(v)
        BY Zenon, <1>1, <2>1 DEF SessionInv, RestoreInv
      <3> QED BY Zenon, <1>1, <3>1 DEF Dropped, SessionInv, TypeOK
    <2> QED BY Zenon, <2>1, <2>2
  <1> QED BY <1>1, SessionHolds, PTL

\* And its protections, as long as every connection to a living parasite
\* succeeds and the parasite is not stopped.
THEOREM MappingsUnchangedHolds == Spec => []MappingsUnchanged
  <1>1. ASSUME SessionInv PROVE MappingsUnchanged
    <2> SUFFICES ASSUME Released, ~opts.unreachable, jobctl = "none", NEW v \in Vmas PROVE prot[v] = "orig"
      BY Zenon DEF MappingsUnchanged
    <2>1. ppc = "exited" /\ Pending("MPROTECT") = {}
      BY Zenon, <1>1, NothingPending
    <2>2. ~Opened(v)
      BY Zenon, <1>1, <2>1 DEF SessionInv, ProtInv, Halted
    <2> QED BY Zenon, <1>1, <2>2 DEF Opened, SessionInv, TypeOK
  <1> QED BY <1>1, SessionHolds, PTL
=============================================================================

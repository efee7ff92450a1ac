-------------------------- MODULE MultimodalProofs --------------------------
(***************************************************************************)
(* The BAGEL service for any number of requests, probes and threads, and   *)
(* under any client: its invariant, and that the two programs that drive   *)
(* it are such clients.                                                    *)
(***************************************************************************)
EXTENDS BagelWorkload, SequenceTheorems, FunctionTheorems, FiniteSetTheorems, TLAPS

(* The statuses of refusals are neither those of BAGEL's answers nor 504.  *)
LEMMA Faults ==
  /\ FormFaults \subseteq {400, 415, 422}
  /\ ImageFaults \subseteq {400, 413}
BY DEF FormFaults, ImageFaults

(* The service starts with nothing queued and every thread idle.           *)
LEMMA InitService == ServiceInit => ServiceInvariant
<1> SUFFICES ASSUME ServiceInit PROVE ServiceInvariant
  OBVIOUS
<1> USE DEF ServiceInit
<1>1. TypeOK
  <2>1. queue \in Seq(Items)
    OBVIOUS
  <2> QED BY <2>1 DEF TypeOK, Idle, Outcomes
<1>2. ThreadsFit
  BY DEF ThreadsFit
<1>3. HandlersFit
  BY Faults DEF HandlersFit, Queued
<1>4. NoStrayFile
  BY DEF NoStrayFile
<1>5. OneCallPerRequest
  BY DEF OneCallPerRequest
<1>6. AnswerIsTrue
  BY Faults DEF AnswerIsTrue, Items
<1> QED BY <1>1, <1>2, <1>3, <1>4, <1>5, <1>6 DEF ServiceInvariant

-----------------------------------------------------------------------------
(* The event loop.                                                         *)

(* A step of a handler that leaves the executor alone.                     *)
LEMMA HandlerStep ==
  ASSUME ServiceInvariant, NEW i \in Items,
         UNCHANGED <<queue, thread, future, files>>,
         counted' \in [Outcomes -> Nat],
         \/ /\ handler[i] = "new" /\ i \in Requests
            /\ handler' = [handler EXCEPT ![i] = "reading"] /\ UNCHANGED answer
         \/ /\ handler[i] \in {"new", "reading"} /\ i \in Requests
            /\ \E status \in FormFaults \cup ImageFaults : Respond(i, status)
         \/ /\ handler[i] = "waiting"
            /\ \E status \in {200, 500, 502, 503} :
                 /\ Respond(i, status)
                 /\ i \in Requests => (status = 200 => future[i] = "ok")
                 /\ i \in Requests => (status = 502 => future[i] = "error")
  PROVE  ServiceInvariant'
<1> USE DEF ServiceInvariant
<1>1. TypeOK'
  <2>1. CASE handler' = [handler EXCEPT ![i] = "reading"] /\ UNCHANGED answer
    BY <2>1 DEF TypeOK
  <2>2. ASSUME NEW status \in {200, 400, 413, 415, 422, 500, 502, 503}, Respond(i, status)
        PROVE  TypeOK'
    BY <2>2 DEF TypeOK, Respond
  <2> QED BY <2>1, <2>2, Faults
<1>2. ThreadsFit'
  BY DEF ThreadsFit
<1>3. HandlersFit'
  <2> SUFFICES ASSUME NEW j \in Items
               PROVE  /\ handler'[j] \in {"new", "reading"} =>
                           future'[j] = "pending" /\ answer'[j] = 0 /\ j \notin Queued'
                      /\ handler'[j] = "waiting" => answer'[j] = 0 /\ future'[j] # "cancelled"
                      /\ j \in Requests /\ answer'[j] \in FormFaults \cup ImageFaults
                           => j \notin Queued'
    BY DEF HandlersFit
  <2>1. Queued' = Queued
    BY DEF Queued
  <2>2. CASE j # i
    <3>1. handler'[j] = handler[j] /\ answer'[j] = answer[j]
      BY <2>2 DEF TypeOK, Respond
    <3> QED BY <2>1, <3>1 DEF HandlersFit
  <2>3. CASE j = i
    BY <2>1, <2>3, Faults DEF HandlersFit, TypeOK, Respond
  <2> QED BY <2>2, <2>3
<1>4. NoStrayFile'
  BY DEF NoStrayFile
<1>5. OneCallPerRequest'
  BY DEF OneCallPerRequest
<1>6. AnswerIsTrue'
  <2> SUFFICES ASSUME NEW r \in Requests
               PROVE  /\ answer'[r] = 200 => future'[r] = "ok"
                      /\ answer'[r] = 502 => future'[r] = "error"
                      /\ answer'[r] \in FormFaults \cup ImageFaults => future'[r] = "pending"
                      /\ answer'[r] = 504 => future'[r] # "pending"
                      /\ future'[r] = "cancelled" => answer'[r] = 504
    BY DEF AnswerIsTrue
  <2>0. r \in Items
    BY DEF Items
  <2>1. CASE r # i
    <3>1. answer'[r] = answer[r]
      BY <2>0, <2>1 DEF TypeOK, Respond
    <3> QED BY <3>1 DEF AnswerIsTrue
  <2>2. CASE r = i
    <3>1. handler[r] \in {"new", "reading"} => future[r] = "pending" /\ answer[r] = 0
      BY <2>0 DEF HandlersFit
    <3>2. handler[r] = "waiting" => answer[r] = 0 /\ future[r] # "cancelled"
      BY <2>0 DEF HandlersFit
    <3> QED BY <2>0, <2>2, <3>1, <3>2, Faults DEF TypeOK, Respond
  <2> QED BY <2>1, <2>2
<1> QED BY <1>1, <1>2, <1>3, <1>4, <1>5, <1>6

(* An item is handed to the executor.                                      *)
LEMMA QueueStep ==
  ASSUME ServiceInvariant, NEW i \in Items,
         handler[i] \in {"new", "reading"},
         handler' = [handler EXCEPT ![i] = "waiting"],
         queue' = Append(queue, i),
         UNCHANGED <<answer, thread, future, files, counted>>
  PROVE  ServiceInvariant'
<1> USE DEF ServiceInvariant
<1>0. /\ queue \in Seq(Items)
      /\ future[i] = "pending" /\ answer[i] = 0 /\ i \notin Queued
  BY DEF TypeOK, HandlersFit
<1>a. /\ Len(queue') = Len(queue) + 1
      /\ queue'[Len(queue) + 1] = i
      /\ \A k \in 1..Len(queue) : queue'[k] = queue[k]
  BY <1>0
<1>1. TypeOK'
  BY <1>0 DEF TypeOK
<1>2. ThreadsFit'
  BY DEF ThreadsFit
<1>3. HandlersFit'
  <2> SUFFICES ASSUME NEW j \in Items
               PROVE  /\ handler'[j] \in {"new", "reading"} =>
                           future'[j] = "pending" /\ answer'[j] = 0 /\ j \notin Queued'
                      /\ handler'[j] = "waiting" => answer'[j] = 0 /\ future'[j] # "cancelled"
                      /\ j \in Requests /\ answer'[j] \in FormFaults \cup ImageFaults
                           => j \notin Queued'
    BY DEF HandlersFit
  <2>1. CASE j # i
    <3>1. handler'[j] = handler[j]
      BY <2>1 DEF TypeOK
    <3>2. j \in Queued' => j \in Queued
      BY <1>0, <1>a, <2>1 DEF Queued
    <3> QED BY <3>1, <3>2 DEF HandlersFit
  <2>2. CASE j = i
    BY <1>0, <2>2, Faults DEF TypeOK
  <2> QED BY <2>1, <2>2
<1>4. NoStrayFile'
  BY DEF NoStrayFile
<1>5. OneCallPerRequest'
  <2>1. ASSUME NEW k \in 1..Len(queue')
        PROVE  /\ future[queue'[k]] \in {"pending", "cancelled"}
               /\ \A l \in 1..Len(queue') : queue'[k] = queue'[l] => k = l
    BY <1>0, <1>a, <2>1 DEF OneCallPerRequest, Queued
  <2> QED BY <2>1 DEF OneCallPerRequest
<1>6. AnswerIsTrue'
  BY DEF AnswerIsTrue
<1> QED BY <1>1, <1>2, <1>3, <1>4, <1>5, <1>6

(* A handler gives up.                                                     *)
LEMMA TimeOutStep ==
  ASSUME ServiceInvariant, NEW r \in Requests, TimeOut(r)
  PROVE  ServiceInvariant'
<1> USE DEF ServiceInvariant, TimeOut, Respond
<1>0. r \in Items
  BY DEF Items
<1>1. TypeOK'
  BY <1>0 DEF TypeOK, Count, Outcomes
<1>2. ThreadsFit'
  BY DEF ThreadsFit
<1>3. HandlersFit'
  BY <1>0, Faults DEF HandlersFit, Queued, TypeOK
<1>4. NoStrayFile'
  BY <1>0 DEF NoStrayFile, TypeOK
<1>5. OneCallPerRequest'
  BY <1>0 DEF OneCallPerRequest, TypeOK
<1>6. AnswerIsTrue'
  BY <1>0, Faults DEF AnswerIsTrue, HandlersFit, TypeOK, Items
<1> QED BY <1>1, <1>2, <1>3, <1>4, <1>5, <1>6

-----------------------------------------------------------------------------
(* The threads.                                                            *)

(* A thread and its item belong to each other.                             *)
LEMMA BusyThread ==
  ASSUME ServiceInvariant, NEW t \in Threads, thread[t] # Idle
  PROVE  /\ thread[t].item \in Items /\ future[thread[t].item] = "running"
         /\ \A u \in Threads \ {t} : thread[u].item # thread[t].item
         /\ thread[t].item \notin Queued
<1>1. thread[t].item \in Items
  BY DEF ServiceInvariant, ThreadsFit, Items
<1>2. /\ future[thread[t].item] = "running"
      /\ \A u \in Threads \ {t} : thread[u].item # thread[t].item
  BY DEF ServiceInvariant, OneCallPerRequest
<1>3. thread[t].item \notin Queued
  BY <1>2 DEF ServiceInvariant, OneCallPerRequest, Queued
<1> QED BY <1>1, <1>2, <1>3

(* A thread drops a cancelled item.                                        *)
LEMMA DroppedStep ==
  ASSUME ServiceInvariant, queue # <<>>, queue' = Tail(queue),
         UNCHANGED <<handler, answer, thread, future, files, counted>>
  PROVE  ServiceInvariant'
<1> USE DEF ServiceInvariant
<1>a. /\ queue \in Seq(Items) /\ queue' \in Seq(Items)
      /\ Len(queue') = Len(queue) - 1
      /\ \A k \in 1..Len(queue') : k + 1 \in 1..Len(queue) /\ queue'[k] = queue[k + 1]
  BY DEF TypeOK
<1>1. TypeOK'
  BY <1>a DEF TypeOK
<1>2. ThreadsFit'
  BY DEF ThreadsFit
<1>3. HandlersFit'
  <2>1. Queued' \subseteq Queued
    BY <1>a DEF Queued
  <2> QED BY <2>1 DEF HandlersFit
<1>4. NoStrayFile'
  BY DEF NoStrayFile
<1>5. OneCallPerRequest'
  <2>1. ASSUME NEW k \in 1..Len(queue')
        PROVE  /\ future[queue'[k]] \in {"pending", "cancelled"}
               /\ \A l \in 1..Len(queue') : queue'[k] = queue'[l] => k = l
    <3>1. k + 1 \in 1..Len(queue) /\ queue'[k] = queue[k + 1]
      BY <1>a
    <3>2. ASSUME NEW l \in 1..Len(queue'), queue'[k] = queue'[l] PROVE k = l
      <4>1. l + 1 \in 1..Len(queue) /\ queue'[l] = queue[l + 1]
        BY <1>a
      <4>2. k + 1 = l + 1
        BY <3>1, <3>2, <4>1 DEF OneCallPerRequest
      <4> QED BY <1>a, <4>2
    <3> QED BY <3>1, <3>2 DEF OneCallPerRequest
  <2> QED BY <2>1 DEF OneCallPerRequest
<1>6. AnswerIsTrue'
  BY DEF AnswerIsTrue
<1> QED BY <1>1, <1>2, <1>3, <1>4, <1>5, <1>6

(* A thread takes the oldest item.                                         *)
LEMMA TakeStep ==
  ASSUME ServiceInvariant, NEW t \in Threads, Take(t)
  PROVE  ServiceInvariant'
<1> USE DEF ServiceInvariant
<1> DEFINE i == Head(queue)
<1>a. /\ queue \in Seq(Items) /\ queue' \in Seq(Items) /\ i \in Items
      /\ 1 \in 1..Len(queue) /\ i = queue[1]
      /\ Len(queue') = Len(queue) - 1
      /\ \A k \in 1..Len(queue') : k + 1 \in 1..Len(queue) /\ queue'[k] = queue[k + 1]
  BY DEF Take, TypeOK
<1>b. CASE future[i] = "cancelled"
  BY <1>b, DroppedStep DEF Take
<1>c. CASE future[i] # "cancelled"
  <2>0. /\ thread[t] = Idle
        /\ future' = [future EXCEPT ![i] = "running"]
        /\ thread' = [thread EXCEPT ![t] =
             [item |-> i, at |-> IF i \in Probes THEN "urlopen" ELSE "write"]]
        /\ UNCHANGED <<handler, answer, files, counted>>
    BY <1>c DEF Take
  <2>a. /\ future[i] = "pending" /\ i \in Queued /\ Queued' \subseteq Queued
    BY <1>a, <1>c DEF OneCallPerRequest, Queued
  <2>b. \A u \in Threads : thread[u].item # i
    <3>1. \A u \in Threads : thread[u] # Idle => thread[u].item # i
      BY <2>a DEF OneCallPerRequest
    <3>2. Idle.item # i
      BY <1>a, ItemsAssumption DEF Idle
    <3> QED BY <3>1, <3>2
  <2>c. /\ thread'[t].item = i
        /\ \A u \in Threads \ {t} : thread'[u] = thread[u]
        /\ future'[i] = "running"
        /\ \A j \in Items \ {i} : future'[j] = future[j]
    BY <1>a, <2>0 DEF TypeOK
  <2>1. TypeOK'
    BY <1>a, <2>0 DEF TypeOK
  <2>2. ThreadsFit'
    BY <1>a, <2>0 DEF ThreadsFit, TypeOK, Items
  <2>3. HandlersFit'
    BY <2>0, <2>a, <2>c DEF HandlersFit
  <2>4. NoStrayFile'
    <3> SUFFICES ASSUME NEW r \in files'
                 PROVE  \/ \E u \in Threads : thread'[u].item = r /\ thread'[u].at # "write"
                        \/ future'[r] = "oserror"
      BY DEF NoStrayFile
    <3>1. r \in files /\ r \in Items
      BY <2>0 DEF TypeOK, Items
    <3>2. ASSUME NEW u \in Threads, thread[u].item = r, thread[u].at # "write"
          PROVE  thread'[u].item = r /\ thread'[u].at # "write"
      <4>1. u # t
        BY <2>0, <3>1, <3>2, ItemsAssumption DEF Idle
      <4> QED BY <2>c, <3>2, <4>1
    <3>3. CASE future[r] = "oserror"
      BY <2>a, <2>c, <3>1, <3>3
    <3> QED BY <3>1, <3>2, <3>3 DEF NoStrayFile
  <2>5. OneCallPerRequest'
    <3>1. ASSUME NEW u \in Threads, thread'[u] # Idle
          PROVE  /\ future'[thread'[u].item] = "running"
                 /\ \A v \in Threads \ {u} : thread'[v].item # thread'[u].item
      <4>1. CASE u = t
        BY <2>b, <2>c, <4>1
      <4>2. CASE u # t
        <5>1. thread'[u] = thread[u]
          BY <2>c, <4>2
        <5>2. thread[u].item \in Items /\ thread[u].item # i
          BY <2>b, <3>1, <5>1, BusyThread
        <5>3. \A v \in Threads \ {u} : thread[v].item # thread[u].item
          BY <3>1, <5>1, BusyThread
        <5>4. future[thread[u].item] = "running"
          BY <3>1, <5>1, BusyThread
        <5> QED BY <2>c, <5>1, <5>2, <5>3, <5>4
      <4> QED BY <4>1, <4>2
    <3>2. ASSUME NEW j \in Items, future'[j] = "running"
          PROVE  \E u \in Threads : thread'[u].item = j
      <4>1. CASE j = i
        BY <2>c, <4>1
      <4>2. CASE j # i
        <5>1. PICK u \in Threads : thread[u].item = j
          BY <2>c, <3>2, <4>2 DEF OneCallPerRequest
        <5>2. u # t
          BY <2>0, <5>1, ItemsAssumption DEF Idle
        <5> QED BY <2>c, <5>1, <5>2
      <4> QED BY <4>1, <4>2
    <3>3. ASSUME NEW k \in 1..Len(queue')
          PROVE  /\ future'[queue'[k]] \in {"pending", "cancelled"}
                 /\ \A l \in 1..Len(queue') : queue'[k] = queue'[l] => k = l
      <4>1. k + 1 \in 1..Len(queue) /\ queue'[k] = queue[k + 1] /\ k + 1 # 1
        BY <1>a
      <4>2. queue[k + 1] # i /\ queue[k + 1] \in Items
        BY <1>a, <4>1 DEF OneCallPerRequest
      <4>3. ASSUME NEW l \in 1..Len(queue'), queue'[k] = queue'[l] PROVE k = l
        <5>1. l + 1 \in 1..Len(queue) /\ queue'[l] = queue[l + 1]
          BY <1>a
        <5>2. k + 1 = l + 1
          BY <4>1, <4>3, <5>1 DEF OneCallPerRequest
        <5> QED BY <1>a, <5>2
      <4>4. future[queue[k + 1]] \in {"pending", "cancelled"}
        BY <4>1 DEF OneCallPerRequest
      <4> QED BY <2>c, <4>1, <4>2, <4>3, <4>4
    <3> QED BY <3>1, <3>2, <3>3 DEF OneCallPerRequest
  <2>6. AnswerIsTrue'
    <3> SUFFICES ASSUME NEW r \in Requests
                 PROVE  /\ answer[r] = 200 => future'[r] = "ok"
                        /\ answer[r] = 502 => future'[r] = "error"
                        /\ answer[r] \in FormFaults \cup ImageFaults => future'[r] = "pending"
                        /\ answer[r] = 504 => future'[r] # "pending"
                        /\ future'[r] = "cancelled" => answer[r] = 504
      BY <2>0 DEF AnswerIsTrue
    <3>0. r \in Items
      BY DEF Items
    <3>1. CASE r = i
      BY <2>a, <2>c, <3>0, <3>1 DEF AnswerIsTrue, HandlersFit
    <3>2. CASE r # i
      BY <2>c, <3>0, <3>2 DEF AnswerIsTrue
    <3> QED BY <3>1, <3>2
  <2> QED BY <2>1, <2>2, <2>3, <2>4, <2>5, <2>6
<1> QED BY <1>b, <1>c

(* A thread goes on to the next line of _call_bagel.                       *)
LEMMA GotoStep ==
  ASSUME ServiceInvariant, NEW t \in Threads,
         thread[t].at \in {"write", "predict"},
         NEW line \in {"predict", "unlink_ok", "unlink_error"}, Goto(t, line),
         files' \in {files, files \cup {thread[t].item}},
         UNCHANGED <<handler, answer, queue, future, counted>>
  PROVE  ServiceInvariant'
<1> USE DEF ServiceInvariant
<1> DEFINE r == thread[t].item
<1>0. r \in Requests /\ thread[t] # Idle
  BY ItemsAssumption DEF ThreadsFit, Idle
<1>a. /\ thread'[t].item = r /\ thread'[t].at = line /\ thread'[t] # Idle
      /\ \A u \in Threads \ {t} : thread'[u] = thread[u]
      /\ \A u \in Threads : thread'[u].item = thread[u].item
  BY DEF TypeOK, Goto, Idle
<1>1. TypeOK'
  <2>1. thread' \in [Threads -> [item : Items \cup {NoItem},
                       at : {"idle", "write", "predict", "unlink_ok",
                             "unlink_error", "urlopen"}]]
    BY DEF TypeOK, Goto
  <2> QED BY <1>0, <2>1 DEF TypeOK
<1>2. ThreadsFit'
  BY <1>0, <1>a DEF ThreadsFit
<1>3. HandlersFit'
  BY DEF HandlersFit, Queued
<1>4. NoStrayFile'
  <2> SUFFICES ASSUME NEW f \in files'
               PROVE  \/ \E u \in Threads : thread'[u].item = f /\ thread'[u].at # "write"
                      \/ future[f] = "oserror"
    BY DEF NoStrayFile
  <2>1. CASE f = r
    BY <1>a, <2>1
  <2>2. CASE f # r
    BY <1>a, <2>2 DEF NoStrayFile
  <2> QED BY <2>1, <2>2
<1>5. OneCallPerRequest'
  <2>1. ASSUME NEW u \in Threads, thread'[u] # Idle PROVE thread[u] # Idle
    BY <1>0, <1>a, <2>1
  <2> QED BY <1>a, <2>1 DEF OneCallPerRequest
<1>6. AnswerIsTrue'
  BY DEF AnswerIsTrue
<1> QED BY <1>1, <1>2, <1>3, <1>4, <1>5, <1>6

(* A thread is done with its item: it leaves no file but one it could not  *)
(* write.                                                                  *)
LEMMA ReturnStep ==
  ASSUME ServiceInvariant, NEW t \in Threads, thread[t] # Idle,
         NEW result \in {"ok", "error", "oserror"}, Return(t, result),
         files' \subseteq files \cup {thread[t].item}, files' \subseteq Requests,
         thread[t].item \in files' => result = "oserror",
         UNCHANGED <<handler, answer, queue, counted>>
  PROVE  ServiceInvariant'
<1> USE DEF ServiceInvariant
<1> DEFINE i == thread[t].item
<1>0. /\ i \in Items /\ future[i] = "running" /\ i \notin Queued
      /\ \A u \in Threads \ {t} : thread[u].item # i
  BY BusyThread
<1>a. /\ thread'[t] = Idle
      /\ \A u \in Threads \ {t} : thread'[u] = thread[u]
      /\ future'[i] = result
      /\ \A j \in Items \ {i} : future'[j] = future[j]
  BY <1>0 DEF TypeOK, Return
<1>1. TypeOK'
  <2>1. thread' \in [Threads -> [item : Items \cup {NoItem},
                       at : {"idle", "write", "predict", "unlink_ok",
                             "unlink_error", "urlopen"}]]
    BY DEF TypeOK, Return, Idle
  <2>2. future' \in [Items -> {"pending", "running", "cancelled",
                               "ok", "error", "oserror"}]
    BY DEF TypeOK, Return
  <2> QED BY <2>1, <2>2 DEF TypeOK
<1>2. ThreadsFit'
  BY <1>a DEF ThreadsFit
<1>3. HandlersFit'
  <2>1. Queued' = Queued
    BY DEF Queued
  <2> QED BY <1>0, <1>a, <2>1 DEF HandlersFit
<1>4. NoStrayFile'
  <2> SUFFICES ASSUME NEW f \in files'
               PROVE  \/ \E u \in Threads : thread'[u].item = f /\ thread'[u].at # "write"
                      \/ future'[f] = "oserror"
    BY DEF NoStrayFile
  <2>0. f \in Items
    BY DEF Items
  <2>1. CASE f = i
    BY <1>a, <2>1
  <2>2. CASE f # i
    <3>1. f \in files /\ future'[f] = future[f]
      BY <1>a, <2>0, <2>2
    <3>2. ASSUME NEW u \in Threads, thread[u].item = f, thread[u].at # "write"
          PROVE  thread'[u].item = f /\ thread'[u].at # "write"
      BY <1>a, <2>2, <3>2
    <3> QED BY <3>1, <3>2 DEF NoStrayFile
  <2> QED BY <2>1, <2>2
<1>5. OneCallPerRequest'
  <2>1. ASSUME NEW u \in Threads, thread'[u] # Idle
        PROVE  /\ future'[thread'[u].item] = "running"
               /\ \A v \in Threads \ {u} : thread'[v].item # thread'[u].item
    <3>1. u # t /\ thread'[u] = thread[u]
      BY <1>a, <2>1
    <3>2. /\ thread[u].item \in Items /\ thread[u].item # i
          /\ future[thread[u].item] = "running"
          /\ \A v \in Threads \ {u} : thread[v].item # thread[u].item
      BY <1>0, <2>1, <3>1, BusyThread
    <3>3. Idle.item \notin Items
      BY ItemsAssumption DEF Idle
    <3> QED BY <1>a, <3>1, <3>2, <3>3
  <2>2. ASSUME NEW j \in Items, future'[j] = "running"
        PROVE  \E u \in Threads : thread'[u].item = j
    <3>1. j # i
      BY <1>a, <2>2
    <3>2. PICK u \in Threads : thread[u].item = j
      BY <1>a, <2>2, <3>1 DEF OneCallPerRequest
    <3> QED BY <1>a, <3>1, <3>2
  <2>3. ASSUME NEW k \in 1..Len(queue')
        PROVE  /\ future'[queue'[k]] \in {"pending", "cancelled"}
               /\ \A l \in 1..Len(queue') : queue'[k] = queue'[l] => k = l
    <3>1. queue[k] \in Items /\ queue[k] # i
      BY <1>0 DEF TypeOK, Queued
    <3> QED BY <1>a, <3>1 DEF OneCallPerRequest
  <2> QED BY <2>1, <2>2, <2>3 DEF OneCallPerRequest
<1>6. AnswerIsTrue'
  <2> SUFFICES ASSUME NEW r \in Requests
               PROVE  /\ answer[r] = 200 => future'[r] = "ok"
                      /\ answer[r] = 502 => future'[r] = "error"
                      /\ answer[r] \in FormFaults \cup ImageFaults => future'[r] = "pending"
                      /\ answer[r] = 504 => future'[r] # "pending"
                      /\ future'[r] = "cancelled" => answer[r] = 504
    BY DEF AnswerIsTrue
  <2>0. r \in Items
    BY DEF Items
  <2>1. CASE r = i
    BY <1>0, <1>a, <2>0, <2>1 DEF AnswerIsTrue
  <2>2. CASE r # i
    BY <1>a, <2>0, <2>2 DEF AnswerIsTrue
  <2> QED BY <2>1, <2>2
<1> QED BY <1>1, <1>2, <1>3, <1>4, <1>5, <1>6

-----------------------------------------------------------------------------
(* Every step of the service, with any client.                             *)

(* Every step of a thread.                                                 *)
LEMMA ThreadSteps ==
  ASSUME ServiceInvariant, NEW t \in Threads, ThreadStep(t) \/ Predict(t)
  PROVE  ServiceInvariant'
<1>0. /\ thread[t] \in [item : Items \cup {NoItem},
                       at : {"idle", "write", "predict", "unlink_ok",
                             "unlink_error", "urlopen"}]
      /\ files \subseteq Requests
      /\ thread[t] = Idle => thread[t].at = "idle"
      /\ thread[t].at \in {"write", "unlink_ok", "unlink_error"}
           => thread[t].item \in Requests
      /\ thread[t].at = "urlopen" => thread[t].item \notin files
  BY ItemsAssumption DEF ServiceInvariant, TypeOK, ThreadsFit, Idle
<1>1. CASE Take(t)
  BY <1>1, TakeStep
<1>2. CASE WriteImage(t)
  <2>1. CASE Goto(t, "predict") /\ files' = files \cup {thread[t].item} /\ UNCHANGED future
    BY <1>2, <2>1, GotoStep DEF WriteImage
  <2>2. CASE Return(t, "oserror") /\ files' \in {files, files \cup {thread[t].item}}
    BY <1>0, <1>2, <2>2, ReturnStep DEF WriteImage
  <2> QED BY <1>2, <2>1, <2>2 DEF WriteImage
<1>3. CASE Predict(t)
  BY <1>3, GotoStep DEF Predict
<1>4. CASE Unlink(t)
  BY <1>0, <1>4, ReturnStep DEF Unlink
<1>5. CASE OpenUrl(t)
  BY <1>0, <1>5, ReturnStep DEF OpenUrl
<1> QED BY <1>1, <1>2, <1>3, <1>4, <1>5 DEF ThreadStep

(* Every step of POST /multimodal/generate on the loop.                    *)
LEMMA HandlerSteps ==
  ASSUME ServiceInvariant, NEW r \in Requests,
         Receive(r) \/ Submit(r) \/ TimeOut(r) \/ Finish(r)
  PROVE  ServiceInvariant'
<1>0. /\ r \in Items /\ counted \in [Outcomes -> Nat]
      /\ {"success", "upstream_error"} \subseteq Outcomes
  BY DEF ServiceInvariant, TypeOK, Items, Outcomes
<1>1. CASE Receive(r)
  BY <1>0, <1>1, HandlerStep DEF Receive
<1>2. CASE Submit(r)
  BY <1>0, <1>2, HandlerStep, QueueStep DEF Submit
<1>3. CASE TimeOut(r)
  BY <1>3, TimeOutStep
<1>4. CASE Finish(r)
  <2>1. counted' \in [Outcomes -> Nat]
    BY <1>0, <1>4 DEF Finish, Count
  <2>2. /\ handler[r] = "waiting"
        /\ \E status \in {200, 500, 502, 503} :
             /\ Respond(r, status)
             /\ status = 200 => future[r] = "ok"
             /\ status = 502 => future[r] = "error"
        /\ UNCHANGED <<queue, thread, future, files>>
    BY <1>4 DEF Finish
  <2> QED BY <1>0, <2>1, <2>2, HandlerStep
<1> QED BY <1>1, <1>2, <1>3, <1>4

(* Every step of GET /multimodal/health on the loop.                       *)
LEMMA ProbeSteps ==
  ASSUME ServiceInvariant, NEW p \in Probes, StartProbe(p) \/ FinishProbe(p)
  PROVE  ServiceInvariant'
<1>0. p \in Items /\ p \notin Requests /\ counted \in [Outcomes -> Nat]
  BY ItemsAssumption DEF ServiceInvariant, TypeOK, Items
<1>1. CASE StartProbe(p)
  BY <1>0, <1>1, QueueStep DEF StartProbe
<1>2. CASE FinishProbe(p)
  BY <1>0, <1>2, HandlerStep DEF FinishProbe
<1> QED BY <1>1, <1>2

(* Every step of the service and its clients, and every stutter.           *)
LEMMA ServiceStep ==
  ASSUME ServiceInvariant,
         [ServiceNext \/ \E r \in Requests : Receive(r)]_service
  PROVE  ServiceInvariant'
<1>1. CASE ServiceNext \/ \E r \in Requests : Receive(r)
  BY <1>1, HandlerSteps, ProbeSteps, ThreadSteps DEF ServiceNext
<1>2. CASE UNCHANGED service
  BY <1>2 DEF service, ServiceInvariant, TypeOK, ThreadsFit, HandlersFit, Queued,
              NoStrayFile, OneCallPerRequest, AnswerIsTrue
<1> QED BY <1>1, <1>2

(* The invariant of the service, under any client.                         *)
THEOREM ServiceHolds == ServiceSpec => []ServiceInvariant
<1>1. ServiceInit => ServiceInvariant
  BY InitService
<1>2. ServiceInvariant /\ [ServiceNext \/ \E r \in Requests : Receive(r)]_service
        => ServiceInvariant'
  BY ServiceStep
<1> QED BY <1>1, <1>2, PTL DEF ServiceSpec

-----------------------------------------------------------------------------
(* The programs that drive the service.                                    *)

(* A script starts a post.                                                 *)
LEMMA StartStep ==
  ASSUME NEW i, Start(i)
  PROVE  [ServiceNext \/ \E r \in Requests : Receive(r)]_service
<1>1. CASE Receive(Manifest[i])
  <2>1. Manifest[i] \in Requests
    BY ManifestAssumption DEF Start, Index
  <2> QED BY <1>1, <2>1
<1>2. CASE UNCHANGED service
  BY <1>2
<1> QED BY <1>1, <1>2 DEF Start

(* What a script does is no step of the service, or sends a request.       *)
LEMMA ProgramStep ==
  ASSUME [Next]_vars
  PROVE  [ServiceNext \/ \E r \in Requests : Receive(r)]_service
<1>1. CASE ServiceNext /\ UNCHANGED driver
  BY <1>1
<1>2. CASE Main
  <2>1. CASE Post \/ PostRun
    BY <2>1, StartStep DEF Post, PostRun
  <2>2. CASE BeginManifest \/ BeginRuns \/ Drain \/ EndRuns
    BY <2>2 DEF BeginManifest, BeginRuns, Drain, EndRuns
  <2>3. CASE JoinSampler \/ JoinForSeconds
    BY <2>3 DEF JoinSampler, JoinForSeconds, GoToWrite
  <2>4. CASE WriteRecords \/ WriteRuns \/ Summarize \/ WritePeaks
    BY <2>4 DEF WriteRecords, WriteRuns, Summarize, WritePeaks
  <2> QED BY <1>2, <2>1, <2>2, <2>3, <2>4 DEF Main
<1>3. CASE \E i \in Index : Collect(i)
  BY <1>3 DEF Collect
<1>4. CASE CollectRun \/ Sample \/ EndSampler \/ Ended \/ UNCHANGED vars
  BY <1>4 DEF CollectRun, Sample, EndSampler, Ended, vars
<1> QED BY <1>1, <1>2, <1>3, <1>4 DEF Next

(* The manifest run and the understanding benchmark are clients of the     *)
(* service: what they do to it is to send it requests, however their own   *)
(* posts, samples and timeouts interleave.                                 *)
THEOREM ProgramsAreClients == Spec => ServiceSpec
<1>1. Init => ServiceInit
  BY DEF Init
<1>2. [Next]_vars => [ServiceNext \/ \E r \in Requests : Receive(r)]_service
  BY ProgramStep
<1> QED BY <1>1, <1>2, PTL DEF Spec, ServiceSpec

(* The inductive invariant of the service holds while the programs run.    *)
THEOREM ServiceSafe == Spec => []ServiceInvariant
BY ProgramsAreClients, ServiceHolds, PTL

(* service.py's state keeps its type.                                      *)
THEOREM ServiceTypes == Spec => []TypeOK
<1>1. ServiceInvariant => TypeOK
  BY DEF ServiceInvariant
<1> QED BY <1>1, ServiceSafe, PTL

(* _call_bagel leaves no image behind but one whose writing failed,        *)
(* however its request was answered in the meantime.                       *)
THEOREM NoFileIsStray == Spec => []NoStrayFile
<1>1. ServiceInvariant => NoStrayFile
  BY DEF ServiceInvariant
<1> QED BY <1>1, ServiceSafe, PTL

(* A request is in the executor's queue once, or with one thread: no two   *)
(* threads of the pool ever call BAGEL for it.                             *)
THEOREM CalledOnce == Spec => []OneCallPerRequest
<1>1. ServiceInvariant => OneCallPerRequest
  BY DEF ServiceInvariant
<1> QED BY <1>1, ServiceSafe, PTL

(* The status of an answer tells what BAGEL did with the request.          *)
THEOREM AnswersAreTrue == Spec => []AnswerIsTrue
<1>1. ServiceInvariant => AnswerIsTrue
  BY DEF ServiceInvariant
<1> QED BY <1>1, ServiceSafe, PTL

-----------------------------------------------------------------------------
(* The archive of the programs.                                            *)

(* A handler goes on without an answer.                                    *)
Proceeds(r) ==
  /\ \E h \in {"reading", "waiting"} : handler' = [handler EXCEPT ![r] = h]
  /\ UNCHANGED <<answer, counted>>

(* What a request is answered with is counted under its outcome.           *)
CountedAs(s) ==
  /\ s = 200 => Count("success")
  /\ counted' = counted \/ \E o \in Outcomes :
       Count(o) /\ (o = "timeout" => s = 504) /\ (o = "upstream_error" => s = 502)

Statuses == {200, 400, 413, 415, 422, 500, 502, 504}

Moves(r) ==
  /\ handler[r] # "answered"
  /\ Proceeds(r) \/ \E s \in Statuses : Respond(r, s) /\ CountedAs(s)

(* The service moves one request that it has taken, or none.               *)
LEMMA ServiceMoves ==
  ASSUME ServiceInvariant, ServiceNext
  PROVE  \/ \E r \in Requests : handler[r] # "new" /\ Moves(r)
         \/ /\ \A r \in Requests : handler'[r] = handler[r] /\ answer'[r] = answer[r]
            /\ UNCHANGED counted
<1>t. TypeOK
  BY DEF ServiceInvariant
<1>1. ASSUME NEW r \in Requests, Submit(r) \/ TimeOut(r) \/ Finish(r)
      PROVE  handler[r] # "new" /\ Moves(r)
  <2>0. handler[r] \in {"reading", "waiting"}
    BY <1>1 DEF Submit, TimeOut, Finish
  <2> SUFFICES Proceeds(r) \/ \E s \in Statuses : Respond(r, s) /\ CountedAs(s)
    BY <2>0 DEF Moves
  <2>1. CASE Submit(r)
    <3>1. CASE \E status \in ImageFaults : Respond(r, status)
      <4> PICK status \in ImageFaults : Respond(r, status)
        BY <3>1
      <4>1. status \in Statuses /\ status # 200
        BY Faults DEF Statuses
      <4>2. CountedAs(status)
        BY <2>1, <4>1 DEF Submit, CountedAs
      <4> QED BY <4>1, <4>2
    <3>2. CASE handler' = [handler EXCEPT ![r] = "waiting"] /\ UNCHANGED answer
      BY <2>1, <3>2 DEF Submit, Proceeds
    <3> QED BY <2>1, <3>1, <3>2 DEF Submit
  <2>2. CASE TimeOut(r)
    <3>1. CountedAs(504)
      BY <2>2 DEF TimeOut, CountedAs, Outcomes
    <3> QED BY <2>2, <3>1 DEF TimeOut, Statuses
  <2>3. CASE Finish(r)
    <3>1. ASSUME NEW reading \in GpuReadings, Count("success")
          PROVE  CountedAs(IF reading = "text" THEN 500 ELSE 200)
      BY <3>1 DEF CountedAs, Outcomes
    <3>2. Count("upstream_error") => CountedAs(502)
      BY DEF CountedAs, Outcomes
    <3>3. counted' = counted => CountedAs(500)
      BY DEF CountedAs
    <3> QED BY <2>3, <3>1, <3>2, <3>3 DEF Finish, Statuses
  <2> QED BY <1>1, <2>1, <2>2, <2>3
<1>2. ASSUME NEW p \in Probes, StartProbe(p) \/ FinishProbe(p)
      PROVE  /\ \A r \in Requests : handler'[r] = handler[r] /\ answer'[r] = answer[r]
             /\ UNCHANGED counted
  <2>1. \A r \in Requests : r # p /\ r \in Items
    BY ItemsAssumption DEF Items
  <2> QED BY <1>t, <1>2, <2>1 DEF StartProbe, FinishProbe, Respond, TypeOK
<1>3. ASSUME NEW t \in Threads, ThreadStep(t) \/ Predict(t)
      PROVE  UNCHANGED <<handler, answer, counted>>
  BY <1>3 DEF ThreadStep, Take, WriteImage, Unlink, OpenUrl, Predict
<1> QED BY <1>1, <1>2, <1>3 DEF ServiceNext

(* Requests that were answered with 200 are no more than are counted, and  *)
(* a count of failures has a request that was answered with one; answers   *)
(* are final, and only r begins.                                           *)
CountsAfter(r) ==
  /\ \A q \in Requests : answer[q] # 0 => answer'[q] = answer[q]
  /\ Cardinality({q \in Requests : answer'[q] = 200}) <= counted'["success"]
  /\ counted'["timeout"] > 0 => \E q \in Requests : answer'[q] = 504
  /\ counted'["upstream_error"] > 0 => \E q \in Requests : answer'[q] = 502
  /\ \A q \in Requests : handler'[q] # "new" => q = r \/ handler[q] # "new"

(* So it is after a step of one request.                                   *)
LEMMA MoveCounts ==
  ASSUME ServiceInvariant, CountsFit, NEW r \in Requests, Moves(r)
  PROVE  CountsAfter(r)
<1>t. /\ handler \in [Items -> {"new", "reading", "waiting", "answered"}]
      /\ answer \in [Items -> {0, 200, 400, 413, 415, 422, 500, 502, 503, 504}]
      /\ counted \in [Outcomes -> Nat]
  BY DEF ServiceInvariant, TypeOK
<1>r. r \in Items /\ \A q \in Requests : q \in Items
  BY DEF Items
<1>0. answer[r] = 0
  <2>1. handler[r] \in {"new", "reading", "waiting"}
    BY <1>t, <1>r DEF Moves
  <2> QED BY <1>r, <2>1 DEF ServiceInvariant, HandlersFit
<1>1. \A q \in Requests : answer[q] # 0 => answer'[q] = answer[q]
  BY <1>0, <1>t, <1>r DEF Moves, Proceeds, Respond
<1>2. \A q \in Requests : handler'[q] # "new" => q = r \/ handler[q] # "new"
  BY <1>t, <1>r DEF Moves, Proceeds, Respond
<1> DEFINE Good == {q \in Requests : answer[q] = 200}
<1>3. IsFiniteSet(Good) /\ Cardinality(Good) \in Nat /\ Cardinality(Good) <= counted["success"]
  <2>1. IsFiniteSet(Good)
    BY ItemsAssumption, FS_Subset DEF Items
  <2> QED BY <2>1, FS_CardinalityType DEF CountsFit
<1>4. CASE UNCHANGED <<answer, counted>>
  <2>1. {q \in Requests : answer'[q] = 200} = Good
    BY <1>4
  <2>2. Cardinality({q \in Requests : answer'[q] = 200}) <= counted'["success"]
    BY <1>3, <1>4, <2>1
  <2>3. /\ counted'["timeout"] > 0 => \E q \in Requests : answer'[q] = 504
        /\ counted'["upstream_error"] > 0 => \E q \in Requests : answer'[q] = 502
    BY <1>4 DEF CountsFit
  <2> HIDE DEF Good
  <2> QED BY <1>1, <1>2, <2>2, <2>3 DEF CountsAfter
<1>5. ASSUME NEW s \in Statuses, Respond(r, s), CountedAs(s)
      PROVE  /\ Cardinality({q \in Requests : answer'[q] = 200}) <= counted'["success"]
             /\ counted'["timeout"] > 0 => \E q \in Requests : answer'[q] = 504
             /\ counted'["upstream_error"] > 0 => \E q \in Requests : answer'[q] = 502
  <2> USE DEF Respond, CountedAs, Statuses
  <2>1. Cardinality({q \in Requests : answer'[q] = 200}) <= counted'["success"]
    <3>1. CASE s = 200
      <4>1. {q \in Requests : answer'[q] = 200} = Good \cup {r}
        BY <1>5, <3>1, <1>t, <1>r
      <4>2. Cardinality(Good \cup {r}) <= Cardinality(Good) + 1
        BY <1>3, FS_AddElement
      <4>3. counted'["success"] = counted["success"] + 1
        BY <1>5, <3>1, <1>t DEF Count, Outcomes
      <4>4. Cardinality(Good \cup {r}) \in Nat /\ counted["success"] \in Nat
        BY <1>3, <1>t, FS_AddElement, FS_CardinalityType DEF Outcomes
      <4> HIDE DEF Good
      <4> QED BY <1>3, <4>1, <4>2, <4>3, <4>4
    <3>2. CASE s # 200
      <4>1. {q \in Requests : answer'[q] = 200} = Good
        BY <1>5, <3>2, <1>t, <1>r, <1>0
      <4>2. counted'["success"] >= counted["success"] /\ counted["success"] \in Nat
              /\ counted'["success"] \in Nat
        BY <1>5, <1>t DEF Count, Outcomes
      <4> HIDE DEF Good
      <4> QED BY <1>3, <4>1, <4>2
    <3> QED BY <3>1, <3>2
  <2>2. answer'[r] = s
    BY <1>5, <1>t, <1>r
  <2>3. counted'["timeout"] > 0 => s = 504 \/ counted["timeout"] > 0
    BY <1>5, <1>t DEF Count, Outcomes
  <2>4. counted'["upstream_error"] > 0 => s = 502 \/ counted["upstream_error"] > 0
    BY <1>5, <1>t DEF Count, Outcomes
  <2> QED BY <1>1, <2>1, <2>2, <2>3, <2>4 DEF CountsFit
<1> QED BY <1>1, <1>2, <1>4, <1>5 DEF Moves, Proceeds, CountsAfter

(* The parts of the invariant that are about the archive alone.            *)
ArchiveParts == ArchiveFits /\ ArchiveIsComplete /\ PeakIsOfArchive

(* An item with an answer has been answered for good.                      *)
LEMMA Answered ==
  ASSUME ServiceInvariant, NEW r \in Requests
  PROVE  /\ answer[r] # 0 => handler[r] = "answered"
         /\ answer[r] # 0 => handler[r] # "new"
<1>1. r \in Items
  BY DEF Items
<1>2. handler[r] \in {"new", "reading", "waiting", "answered"}
  BY <1>1 DEF ServiceInvariant, TypeOK
<1> QED BY <1>1, <1>2 DEF ServiceInvariant, HandlersFit

(* Cases of the manifest are requests, each of them one.                   *)
LEMMA ManifestFits ==
  /\ Index = 1..Len(Manifest) /\ Len(Manifest) \in Nat
  /\ \A i \in Index : Manifest[i] \in Requests
  /\ \A i, j \in Index : Manifest[i] = Manifest[j] => i = j
BY ManifestAssumption DEF Index

(* The records are a list of results, each of a case of the manifest.      *)
LEMMA RecordsShape ==
  ASSUME WorkloadTypeOK
  PROVE  /\ records \in Seq(Results)
         /\ Len(records) \in Nat /\ DOMAIN records = 1..Len(records)
         /\ \A k \in DOMAIN records :
              /\ records[k] \in Results
              /\ records[k].index \in Index /\ records[k].index \in Nat
              /\ Manifest[records[k].index] \in Requests
         /\ posted \in Nat /\ posted <= Len(Manifest)
<1>1. records \in Seq(Results)
  BY DEF WorkloadTypeOK
<1>2. Len(records) \in Nat /\ DOMAIN records = 1..Len(records)
  BY <1>1
<1>3. \A k \in DOMAIN records : records[k] \in Results
  BY <1>1
<1>4. \A k \in DOMAIN records : records[k].index \in Index
  BY <1>3 DEF Results
<1>5. posted \in 0..Len(Manifest)
  BY DEF WorkloadTypeOK
<1> QED BY <1>1, <1>2, <1>3, <1>4, <1>5, ManifestFits

(* Nothing is a success in the records that BAGEL did not answer.          *)
LEMMA SuccessesAnswered ==
  ASSUME ServiceInvariant, WorkloadTypeOK, RecordsFit, CountsFit
  PROVE  Succeeded(records) \in Nat /\ Succeeded(records) <= counted["success"]
<1> DEFINE K == {k \in DOMAIN records : records[k].success}
           G == {r \in Requests : answer[r] = 200}
           f == [k \in K |-> Manifest[records[k].index]]
<1>1. IsFiniteSet(G) /\ Cardinality(G) \in Nat
  <2>1. IsFiniteSet(G)
    BY ItemsAssumption, FS_Subset DEF Items
  <2> QED BY <2>1, FS_CardinalityType
<1>2. \A k \in K : records[k].index \in Index
  BY RecordsShape
<1>3. f \in [K -> G]
  BY <1>2, ManifestFits DEF RecordsFit
<1>4. \A k, l \in K : f[k] = f[l] => k = l
  BY <1>2, ManifestFits DEF RecordsFit
<1>5. f \in Injection(K, G)
  BY <1>3, <1>4, Fun_IsInj
<1> HIDE DEF K, G, f
<1>6. IsFiniteSet(K) /\ Cardinality(K) <= Cardinality(G)
  BY <1>1, <1>5, FS_Injection
<1>7. Cardinality(K) \in Nat
  BY <1>6, FS_CardinalityType
<1>8. counted["success"] \in Nat
  BY DEF ServiceInvariant, TypeOK, Outcomes
<1>9. Succeeded(records) = Cardinality(K) /\ Cardinality(G) <= counted["success"]
  BY DEF Succeeded, K, G, CountsFit
<1> QED BY <1>1, <1>6, <1>7, <1>8, <1>9

LEMMA InitArchive ==
  ASSUME Init PROVE ArchiveInvariant /\ MetricsCoverRecords
<1> USE DEF Init, NoSnapshot, NoArchive
<1>1. WorkloadTypeOK
  BY ManifestFits, ManifestAssumption DEF WorkloadTypeOK
<1>2. RecordsFit
  BY DEF RecordsFit
<1>3. CountsFit
  <2>1. \A r \in Requests : handler[r] = "new" /\ answer[r] = 0
    BY DEF ServiceInit, Items
  <2>2. {r \in Requests : answer[r] = 200} = {}
    BY <2>1
  <2>3. counted["success"] = 0 /\ counted["timeout"] = 0 /\ counted["upstream_error"] = 0
    BY DEF ServiceInit, Outcomes
  <2>4. Cardinality({r \in Requests : answer[r] = 200}) = 0
    BY <2>2, FS_EmptySet
  <2> QED BY <2>1, <2>3, <2>4 DEF CountsFit
<1>4. ArchiveParts /\ PassIsEarned /\ MetricsCoverRecords
  BY DEF ArchiveParts, ArchiveFits, ArchiveIsComplete, PassIsEarned, PeakIsOfArchive,
         MetricsCoverRecords
<1> QED BY <1>1, <1>2, <1>3, <1>4 DEF ArchiveInvariant, ArchiveParts

(* The service goes on while the scripts wait.                             *)
LEMMA ServiceKeeps ==
  ASSUME ServiceInvariant, ArchiveInvariant, MetricsCoverRecords,
         ServiceNext, UNCHANGED driver
  PROVE  ArchiveInvariant' /\ MetricsCoverRecords'
<1> USE DEF driver
<1>a. /\ WorkloadTypeOK /\ RecordsFit /\ CountsFit /\ ArchiveFits
      /\ ArchiveIsComplete /\ PassIsEarned /\ PeakIsOfArchive
  BY DEF ArchiveInvariant
<1>1. WorkloadTypeOK' /\ ArchiveParts' /\ MetricsCoverRecords'
  BY <1>a DEF WorkloadTypeOK, Results, ArchiveParts, ArchiveFits, ArchiveIsComplete,
              PeakIsOfArchive, MetricsCoverRecords, Succeeded
<1>2. \A k \in DOMAIN records : Manifest[records[k].index] \in Requests
  BY <1>a, RecordsShape
<1>3. CASE /\ \A r \in Requests : handler'[r] = handler[r] /\ answer'[r] = answer[r]
           /\ UNCHANGED counted
  <2>1. RecordsFit'
    BY <1>a, <1>2, <1>3 DEF RecordsFit
  <2>2. CountsFit'
    <3>1. {r \in Requests : answer'[r] = 200} = {r \in Requests : answer[r] = 200}
      BY <1>3
    <3> QED BY <1>a, <1>3, <3>1 DEF CountsFit
  <2>3. PassIsEarned'
    BY <1>a, <1>3, ManifestFits DEF PassIsEarned
  <2> QED BY <1>1, <2>1, <2>2, <2>3 DEF ArchiveParts, ArchiveInvariant
<1>4. ASSUME NEW r \in Requests, handler[r] # "new", Moves(r)
      PROVE  RecordsFit' /\ CountsFit' /\ PassIsEarned'
  <2>1. CountsAfter(r)
    BY <1>a, <1>4, MoveCounts
  <2>2. PICK i \in Index : i <= posted /\ Manifest[i] = r
    BY <1>a, <1>4 DEF CountsFit
  <2>3. posted # 0
    BY <2>2, ManifestFits
  <2>4. RecordsFit'
    BY <1>a, <1>2, <2>1 DEF RecordsFit, CountsAfter
  <2>5. CountsFit'
    BY <1>a, <1>4, <2>1, <2>3 DEF CountsFit, CountsAfter
  <2>6. PassIsEarned'
    <3>1. answer[r] = 0
      BY <1>4, Answered DEF Moves
    <3>2. archive.status # "PASS"
      BY <1>a, <2>2, <3>1 DEF PassIsEarned
    <3> QED BY <3>2 DEF PassIsEarned
  <2> QED BY <2>4, <2>5, <2>6
<1> QED BY <1>a, <1>1, <1>3, <1>4, ServiceMoves DEF ArchiveInvariant, ArchiveParts

(* Appending a result to the records.                                      *)
LEMMA RecordAppends ==
  ASSUME records \in Seq(Results), NEW i \in Index, NEW success \in BOOLEAN,
         Record(i, success)
  PROVE  /\ records' \in Seq(Results)
         /\ Len(records') = Len(records) + 1
         /\ \A k \in 1..Len(records) : records'[k] = records[k]
         /\ records'[Len(records) + 1] = [index |-> i, success |-> success]
<1> DEFINE result == [index |-> i, success |-> success]
<1>1. result \in Results
  BY DEF Results
<1>2. records' = Append(records, result)
  BY DEF Record
<1> HIDE DEF result
<1>3. /\ records' \in Seq(Results)
      /\ Len(records') = Len(records) + 1
      /\ \A k \in 1..Len(records) : records'[k] = records[k]
      /\ records'[Len(records) + 1] = result
  BY <1>1, <1>2, AppendProperties
<1> QED BY <1>3 DEF result

(* A result of a case that has none keeps the records in shape.            *)
LEMMA RecordKeeps ==
  ASSUME WorkloadTypeOK, RecordsFit,
         NEW i \in Index, NEW success \in BOOLEAN, Record(i, success),
         i \notin Recorded,
         posted' \in Nat, posted <= posted', i <= posted',
         success => answer[Manifest[i]] = 200,
         phase' = "run", UNCHANGED <<answer, program>>,
         program = "understanding" => i = Len(records) + 1 /\ posted' = i
  PROVE  records' \in Seq(Results) /\ RecordsFit'
<1> DEFINE n == Len(records)
<1>1. n \in Nat /\ DOMAIN records = 1..n
  BY RecordsShape
<1>2. /\ records' \in Seq(Results) /\ Len(records') = n + 1
      /\ \A k \in 1..n : records'[k] = records[k]
      /\ records'[n + 1].index = i /\ records'[n + 1].success = success
  <2>1. records \in Seq(Results)
    BY DEF WorkloadTypeOK
  <2>2. /\ records' \in Seq(Results)
        /\ Len(records') = Len(records) + 1
        /\ \A k \in 1..Len(records) : records'[k] = records[k]
        /\ records'[Len(records) + 1] = [index |-> i, success |-> success]
    BY <2>1, RecordAppends, Zenon
  <2> QED BY <2>2
<1>3. DOMAIN records' = 1..(n + 1)
  BY <1>2
<1>4. \A k \in 1..n : /\ records[k].index \in Nat /\ records[k].index <= posted
                      /\ records[k].index # i
                      /\ records[k].success => answer[Manifest[records[k].index]] = 200
  BY <1>1, RecordsShape DEF RecordsFit, Recorded
<1>5. \A k, l \in 1..n : records[k].index = records[l].index => k = l
  BY <1>1 DEF RecordsFit
<1>6. \A k \in 1..(n + 1) : k \in 1..n \/ k = n + 1
  BY <1>1
<1>7. posted \in Nat
  BY RecordsShape
<1>u. program = "understanding" => \A k \in 1..n : records[k].index = k
  BY <1>1 DEF RecordsFit
<1> HIDE DEF n
<1>8. \A k, l \in 1..(n + 1) : records'[k].index = records'[l].index => k = l
  BY <1>2, <1>4, <1>5, <1>6
<1>9. \A k \in 1..(n + 1) :
        /\ records'[k].index <= posted'
        /\ records'[k].success => answer'[Manifest[records'[k].index]] = 200
  <2> SUFFICES ASSUME NEW k \in 1..(n + 1)
               PROVE  /\ records'[k].index <= posted'
                      /\ records'[k].success => answer'[Manifest[records'[k].index]] = 200
    OBVIOUS
  <2>1. CASE k \in 1..n
    BY <1>2, <1>4, <1>7, <2>1
  <2>2. CASE k = n + 1
    BY <1>2, <2>2
  <2> QED BY <1>6, <2>1, <2>2
<1>10. program' = "understanding" =>
         posted' <= n + 2 /\ \A k \in 1..(n + 1) : records'[k].index = k
  BY <1>1, <1>2, <1>6, <1>u DEF n
<1>11. Len(records') + 1 = n + 2
  BY <1>1, <1>2
<1> QED BY <1>2, <1>3, <1>8, <1>9, <1>10, <1>11 DEF RecordsFit

(* The next post is started.                                               *)
LEMMA StartKeeps ==
  ASSUME ServiceInvariant, ArchiveInvariant, MetricsCoverRecords,
         Start(posted + 1), program = "understanding" => posted = Len(records)
  PROVE  ArchiveInvariant' /\ MetricsCoverRecords'
<1> DEFINE i == posted + 1
<1>a. /\ WorkloadTypeOK /\ RecordsFit /\ CountsFit /\ ArchiveFits
      /\ ArchiveIsComplete /\ PassIsEarned /\ PeakIsOfArchive
  BY DEF ArchiveInvariant
<1>0. /\ phase = "run" /\ i \in Index /\ posted' = i
      /\ UNCHANGED <<program, phase, sampler, samples, before, after, archive>>
  BY DEF Start
<1>t. posted \in Nat /\ i \in Nat
  BY <1>a, RecordsShape
<1>p. posted <= posted' /\ posted' \in 0..Len(Manifest)
  BY <1>0, <1>t, ManifestFits
<1>s. archive.status # "PASS"
  BY <1>a, <1>0 DEF ArchiveFits
<1>1. ArchiveParts' /\ MetricsCoverRecords' /\ PassIsEarned'
  BY <1>a, <1>0, <1>s DEF ArchiveParts, ArchiveFits, ArchiveIsComplete, PeakIsOfArchive,
                    MetricsCoverRecords, PassIsEarned
<1>2. records' \in Seq(Results) => WorkloadTypeOK'
  <2>1. /\ program \in {"manifest", "understanding"}
        /\ sampler \in {"off", "sampling", "ended"} /\ samples \in 0..MaxSamples
        /\ \A s \in {before, after} : s \in [success : BOOLEAN, count : Nat]
        /\ archive \in [records : Seq(Results), samples : Nat, peakOf : Nat,
                        status : {"none", "PASS", "PARTIAL_OR_FAILED"}]
    BY <1>a DEF WorkloadTypeOK
  <2> QED BY <1>0, <1>p, <2>1 DEF WorkloadTypeOK
<1> HIDE DEF i
<1>3. \A j \in Index : j <= posted => j <= posted'
  BY <1>t, <1>p, ManifestFits
<1>4. CASE Receive(Manifest[i]) /\ UNCHANGED records
  <2> DEFINE r == Manifest[i]
  <2>1. r \in Requests
    BY <1>0, ManifestFits
  <2>2. Moves(r)
    <3>1. CASE handler' = [handler EXCEPT ![r] = "reading"] /\ UNCHANGED answer
      BY <1>4, <3>1 DEF Receive, Moves, Proceeds
    <3>2. CASE \E status \in FormFaults : Respond(r, status)
      <4>1. PICK status \in FormFaults : Respond(r, status)
        BY <3>2
      <4>2. status \in Statuses /\ status # 200
        BY Faults DEF Statuses
      <4>3. CountedAs(status)
        BY <1>4, <4>2 DEF Receive, CountedAs
      <4>4. handler[r] # "answered"
        BY <1>4 DEF Receive
      <4> QED BY <4>1, <4>2, <4>3, <4>4 DEF Moves
    <3> QED BY <1>4, <3>1, <3>2 DEF Receive
  <2>3. CountsAfter(r)
    <3>1. PICK q \in Requests : q = r
      BY <2>1
    <3>2. CountsAfter(q)
      BY <1>a, <2>2, <3>1, MoveCounts
    <3> QED BY <3>1, <3>2
  <2>4. WorkloadTypeOK'
    <3>1. records' \in Seq(Results)
      BY <1>a, <1>4, RecordsShape
    <3> QED BY <1>2, <3>1
  <2>5. RecordsFit'
    <3>1. \A k \in DOMAIN records :
            /\ records[k].index <= posted'
            /\ records[k].success => answer'[Manifest[records[k].index]] = 200
      <4>1. \A k \in DOMAIN records : Manifest[records[k].index] \in Requests
                                      /\ records[k].index \in Index
        BY <1>a, RecordsShape
      <4>2. \A k \in DOMAIN records :
              /\ records[k].index <= posted
              /\ records[k].success => answer[Manifest[records[k].index]] = 200
        BY <1>a DEF RecordsFit
      <4>3. \A k \in DOMAIN records : records[k].index <= posted'
        BY <1>3, <4>1, <4>2
      <4> QED BY <2>3, <4>1, <4>2, <4>3 DEF CountsAfter
    <3>2. program = "understanding" =>
            posted' <= Len(records) + 1 /\ \A k \in DOMAIN records : records[k].index = k
      BY <1>a, <1>0 DEF RecordsFit, i
    <3>3. \A k, l \in DOMAIN records : records[k].index = records[l].index => k = l
      BY <1>a DEF RecordsFit
    <3> QED BY <1>0, <1>4, <3>1, <3>2, <3>3 DEF RecordsFit
  <2>6. CountsFit'
    <3>1. \A q \in Requests : handler'[q] # "new" => \E j \in Index : j <= posted' /\ Manifest[j] = q
      <4> SUFFICES ASSUME NEW q \in Requests, handler'[q] # "new"
                   PROVE  \E j \in Index : j <= posted' /\ Manifest[j] = q
        OBVIOUS
      <4>1. CASE q = r
        <5>1. i <= posted'
          BY <1>0, <1>t
        <5> QED BY <1>0, <4>1, <5>1
      <4>2. CASE handler[q] # "new"
        <5>1. PICK j \in Index : j <= posted /\ Manifest[j] = q
          BY <1>a, <4>2 DEF CountsFit
        <5> QED BY <1>3, <5>1
      <4> QED BY <2>3, <4>1, <4>2 DEF CountsAfter
    <3> QED BY <1>a, <1>0, <2>3, <3>1 DEF CountsFit, CountsAfter
  <2> QED BY <1>1, <2>4, <2>5, <2>6 DEF ArchiveInvariant, ArchiveParts
<1>5. CASE Record(i, FALSE) /\ UNCHANGED service
  <2>1. UNCHANGED <<handler, answer, counted>>
    BY <1>5 DEF service
  <2>2. i \notin Recorded
    <3>1. \A k \in DOMAIN records : records[k].index <= posted /\ records[k].index \in Nat
      BY <1>a, RecordsShape DEF RecordsFit
    <3>2. \A m \in Nat : m <= posted => m # i
      BY <1>t DEF i
    <3> QED BY <3>1, <3>2 DEF Recorded
  <2>3. i <= posted' /\ posted' \in Nat
    BY <1>0, <1>t
  <2>4. program = "understanding" => i = Len(records) + 1 /\ posted' = i
    BY <1>0 DEF i
  <2>5. records' \in Seq(Results) /\ RecordsFit'
    BY <1>a, <1>0, <1>p, <1>5, <2>1, <2>2, <2>3, <2>4, RecordKeeps
  <2>6. CountsFit'
    BY <1>a, <1>0, <1>3, <2>1 DEF CountsFit
  <2> QED BY <1>1, <1>2, <2>5, <2>6 DEF ArchiveInvariant, ArchiveParts
<1> QED BY <1>4, <1>5 DEF Start, i

(* The only answer in the 200s is the one with BAGEL's result.             *)
LEMMA OnlyResultsSucceed ==
  ASSUME ServiceInvariant, NEW r \in Requests, answer[r] \in 200..299
  PROVE  answer[r] = 200
<1>1. r \in Items
  BY DEF Items
<1>2. answer[r] \in {0, 200, 400, 413, 415, 422, 500, 502, 503, 504}
  BY <1>1 DEF ServiceInvariant, TypeOK
<1> QED BY <1>2

(* A post that ended is recorded, by either script.                        *)
Ends(i) ==
  \/ /\ handler[Manifest[i]] = "answered"
     /\ Record(i, answer[Manifest[i]] \in 200..299)
  \/ Record(i, FALSE)

LEMMA CollectKeeps ==
  ASSUME ServiceInvariant, ArchiveInvariant, MetricsCoverRecords,
         NEW i \in Index, i <= posted, i \notin Recorded, phase = "run",
         program = "understanding" => i = posted /\ posted > Len(records),
         Ends(i),
         UNCHANGED <<service, program, phase, posted, sampler, samples,
                     before, after, archive>>
  PROVE  ArchiveInvariant' /\ MetricsCoverRecords'
<1>a. /\ WorkloadTypeOK /\ RecordsFit /\ CountsFit /\ ArchiveFits
      /\ ArchiveIsComplete /\ PassIsEarned /\ PeakIsOfArchive
  BY DEF ArchiveInvariant
<1>1. UNCHANGED <<handler, answer, counted>>
  BY DEF service
<1>2. PICK success \in BOOLEAN : /\ Record(i, success)
                                 /\ success => answer[Manifest[i]] \in 200..299
  <2>1. CASE Record(i, FALSE)
    BY <2>1, Zenon
  <2>2. CASE Record(i, answer[Manifest[i]] \in 200..299)
    <3>1. (answer[Manifest[i]] \in 200..299) \in BOOLEAN
      OBVIOUS
    <3> QED BY <2>2, <3>1, Zenon
  <2> QED BY <2>1, <2>2, Zenon DEF Ends
<1>3. success => answer[Manifest[i]] = 200
  <2>1. Manifest[i] \in Requests
    BY ManifestFits
  <2>2. answer[Manifest[i]] \in 200..299 => answer[Manifest[i]] = 200
    BY <2>1, OnlyResultsSucceed
  <2> QED BY <1>2, <2>2, Zenon
<1>4. posted \in Nat /\ Len(records) \in Nat
  BY <1>a, RecordsShape
<1>5. program = "understanding" => i = Len(records) + 1
  BY <1>a, <1>4 DEF RecordsFit
<1>6. records' \in Seq(Results) /\ RecordsFit'
  BY <1>a, <1>1, <1>2, <1>3, <1>4, <1>5, RecordKeeps
<1>7. WorkloadTypeOK'
  BY <1>a, <1>6 DEF WorkloadTypeOK
<1>8. CountsFit'
  BY <1>a, <1>1 DEF CountsFit
<1>9. ArchiveParts' /\ MetricsCoverRecords' /\ PassIsEarned'
  BY <1>a, <1>1 DEF ArchiveParts, ArchiveFits, ArchiveIsComplete, PeakIsOfArchive,
                    MetricsCoverRecords, PassIsEarned
<1> QED BY <1>6, <1>7, <1>8, <1>9 DEF ArchiveInvariant, ArchiveParts

(* When every case is recorded, sorting them gives one record of each, in  *)
(* manifest order, and each of them is one of those collected.             *)
LEMMA SortedInOrder ==
  ASSUME WorkloadTypeOK, Recorded = Index
  PROVE  /\ Sorted(records) \in Seq(Results) /\ Len(Sorted(records)) = Len(Manifest)
         /\ \A i \in Index : /\ Sorted(records)[i].index = i
                             /\ \E k \in DOMAIN records : Sorted(records)[i] = records[k]
<1> DEFINE sorted == Sorted(records)
<1>1. \A i \in Index : \E r \in {records[k] : k \in DOMAIN records} : r.index = i
  BY DEF Recorded
<1>2. \A i \in Index : /\ sorted[i] \in {records[k] : k \in DOMAIN records}
                       /\ sorted[i].index = i
  <2> SUFFICES ASSUME NEW i \in Index
               PROVE  /\ sorted[i] \in {records[k] : k \in DOMAIN records}
                      /\ sorted[i].index = i
    OBVIOUS
  <2>1. sorted[i] = CHOOSE r \in {records[k] : k \in DOMAIN records} : r.index = i
    BY DEF Sorted
  <2> QED BY <1>1, <2>1
<1>3. \A i \in Index : sorted[i] \in Results
  BY <1>2, RecordsShape
<1>4. DOMAIN sorted = 1..Len(Manifest) /\ sorted = [i \in 1..Len(Manifest) |-> sorted[i]]
  BY ManifestFits DEF Sorted
<1> HIDE DEF sorted
<1>5. sorted \in [1..Len(Manifest) -> Results]
  BY <1>3, <1>4, ManifestFits
<1>6. sorted \in Seq(Results) /\ Len(sorted) = Len(Manifest)
  BY <1>5, ManifestFits, SeqDef
<1> QED BY <1>2, <1>6 DEF sorted

(* The records are complete: the script goes on to write them.             *)
LEMMA DrainKeeps ==
  ASSUME ServiceInvariant, ArchiveInvariant, MetricsCoverRecords, Drain
  PROVE  ArchiveInvariant' /\ MetricsCoverRecords'
<1>a. /\ WorkloadTypeOK /\ RecordsFit /\ CountsFit /\ ArchiveFits
      /\ ArchiveIsComplete /\ PassIsEarned /\ PeakIsOfArchive
  BY DEF ArchiveInvariant
<1>0. /\ program = "manifest" /\ phase = "run" /\ phase' = "join" /\ Recorded = Index
      /\ UNCHANGED <<service, program, posted, sampler, samples, before, after, archive>>
      /\ records' = Sorted(records)
  BY DEF Drain
<1>1. UNCHANGED <<handler, answer, counted>>
  BY <1>0 DEF service
<1>2. /\ records' \in Seq(Results) /\ Len(records') = Len(Manifest)
      /\ \A i \in Index : /\ records'[i].index = i
                          /\ \E k \in DOMAIN records : records'[i] = records[k]
  BY <1>a, <1>0, SortedInOrder
<1>3. DOMAIN records' = Index
  BY <1>2, ManifestFits
<1>4. RecordsFit'
  BY <1>a, <1>0, <1>1, <1>2, <1>3 DEF RecordsFit
<1>5. WorkloadTypeOK'
  BY <1>a, <1>0, <1>2 DEF WorkloadTypeOK
<1>6. CountsFit'
  BY <1>a, <1>0, <1>1 DEF CountsFit
<1>7. ArchiveParts' /\ MetricsCoverRecords' /\ PassIsEarned'
  BY <1>a, <1>0, <1>1 DEF ArchiveParts, ArchiveFits, ArchiveIsComplete, PeakIsOfArchive,
                    MetricsCoverRecords, PassIsEarned
<1> QED BY <1>4, <1>5, <1>6, <1>7 DEF ArchiveInvariant, ArchiveParts

LEMMA EndRunsKeeps ==
  ASSUME ServiceInvariant, ArchiveInvariant, MetricsCoverRecords, EndRuns
  PROVE  ArchiveInvariant' /\ MetricsCoverRecords'
<1>a. /\ WorkloadTypeOK /\ RecordsFit /\ CountsFit /\ ArchiveFits
      /\ ArchiveIsComplete /\ PassIsEarned /\ PeakIsOfArchive
  BY DEF ArchiveInvariant
<1>0. /\ program = "understanding" /\ phase = "run" /\ phase' = "join"
      /\ Len(records) = Len(Manifest)
      /\ UNCHANGED <<service, program, posted, records, sampler, samples, before, after,
                     archive>>
  BY DEF EndRuns
<1>1. UNCHANGED <<handler, answer, counted>>
  BY <1>0 DEF service
<1>2. DOMAIN records = Index
  BY <1>a, <1>0, ManifestFits, RecordsShape
<1>3. RecordsFit'
  BY <1>a, <1>0, <1>1, <1>2 DEF RecordsFit
<1>4. WorkloadTypeOK' /\ CountsFit'
  BY <1>a, <1>0, <1>1 DEF WorkloadTypeOK, CountsFit
<1>5. ArchiveParts' /\ MetricsCoverRecords' /\ PassIsEarned'
  BY <1>a, <1>0, <1>1 DEF ArchiveParts, ArchiveFits, ArchiveIsComplete, PeakIsOfArchive,
                    MetricsCoverRecords, PassIsEarned
<1> QED BY <1>3, <1>4, <1>5 DEF ArchiveInvariant, ArchiveParts

LEMMA SnapshotShape ==
  ASSUME counted["success"] \in Nat
  PROVE  \A s \in Snapshot : s \in [success : BOOLEAN, count : Nat]
<1>1. NoSnapshot \in [success : BOOLEAN, count : Nat]
  BY DEF NoSnapshot
<1>2. [success |-> TRUE, count |-> counted["success"]] \in [success : BOOLEAN, count : Nat]
  OBVIOUS
<1> HIDE DEF NoSnapshot
<1> QED BY <1>1, <1>2 DEF Snapshot

(* The scripts begin: nothing has been posted or counted yet.              *)
LEMMA BeginKeeps ==
  ASSUME ServiceInvariant, ArchiveInvariant, MetricsCoverRecords, BeginManifest \/ BeginRuns
  PROVE  ArchiveInvariant' /\ MetricsCoverRecords'
<1>a. /\ WorkloadTypeOK /\ RecordsFit /\ CountsFit /\ ArchiveFits
      /\ ArchiveIsComplete /\ PassIsEarned /\ PeakIsOfArchive
  BY DEF ArchiveInvariant
<1>0. /\ phase = "start" /\ phase' \in {"aborted", "run"}
      /\ sampler' \in {sampler, "sampling"} /\ before' \in Snapshot \cup {before}
      /\ UNCHANGED <<service, program, posted, records, samples, after, archive>>
  BY DEF BeginManifest, BeginRuns
<1>1. UNCHANGED <<handler, answer, counted>>
  BY <1>0 DEF service
<1>2. /\ before.count = 0 /\ before \in [success : BOOLEAN, count : Nat]
      /\ counted["success"] = 0
  BY <1>a, <1>0 DEF CountsFit, WorkloadTypeOK
<1>3. before'.count = 0 /\ before' \in [success : BOOLEAN, count : Nat]
  <2>1. before'.count = 0
    BY <1>0, <1>2 DEF Snapshot, NoSnapshot
  <2>2. before' \in [success : BOOLEAN, count : Nat]
    BY <1>0, <1>2, SnapshotShape
  <2> QED BY <2>1, <2>2
<1>4. WorkloadTypeOK'
  BY <1>a, <1>0, <1>3 DEF WorkloadTypeOK
<1>5. RecordsFit'
  BY <1>a, <1>0, <1>1 DEF RecordsFit
<1>6. CountsFit'
  BY <1>a, <1>0, <1>1, <1>3 DEF CountsFit
<1>7. ArchiveParts' /\ MetricsCoverRecords' /\ PassIsEarned'
  BY <1>a, <1>0, <1>1 DEF ArchiveParts, ArchiveFits, ArchiveIsComplete, PeakIsOfArchive,
                          MetricsCoverRecords, PassIsEarned
<1> QED BY <1>4, <1>5, <1>6, <1>7 DEF ArchiveInvariant, ArchiveParts

(* The sampler, and the scripts that stop waiting for it.                  *)
LEMMA SamplerKeeps ==
  ASSUME ServiceInvariant, ArchiveInvariant, MetricsCoverRecords,
         JoinSampler \/ JoinForSeconds \/ Sample \/ EndSampler
  PROVE  ArchiveInvariant' /\ MetricsCoverRecords'
<1>a. /\ WorkloadTypeOK /\ RecordsFit /\ CountsFit /\ ArchiveFits
      /\ ArchiveIsComplete /\ PassIsEarned /\ PeakIsOfArchive
  BY DEF ArchiveInvariant
<1>0. UNCHANGED <<service, program, posted, records, before, after, archive>>
  BY DEF JoinSampler, JoinForSeconds, GoToWrite, Sample, EndSampler
<1>1. UNCHANGED <<handler, answer, counted>>
  BY <1>0 DEF service
<1>2. CASE JoinSampler \/ JoinForSeconds
  <2>0. /\ phase = "join" /\ phase' = "write" /\ UNCHANGED <<sampler, samples>>
        /\ program = "manifest" => sampler = "ended"
    BY <1>2 DEF JoinSampler, JoinForSeconds, GoToWrite
  <2>1. WorkloadTypeOK'
    BY <1>a, <1>0, <2>0 DEF WorkloadTypeOK
  <2>2. RecordsFit'
    BY <1>a, <1>0, <1>1, <2>0 DEF RecordsFit
  <2>3. CountsFit'
    BY <1>a, <1>0, <1>1, <2>0 DEF CountsFit
  <2>4. ArchiveParts' /\ MetricsCoverRecords' /\ PassIsEarned'
    BY <1>a, <1>0, <1>1, <2>0 DEF ArchiveParts, ArchiveFits, ArchiveIsComplete,
         PeakIsOfArchive, MetricsCoverRecords, PassIsEarned
  <2> QED BY <2>1, <2>2, <2>3, <2>4 DEF ArchiveInvariant, ArchiveParts
<1>3. CASE Sample \/ EndSampler
  <2>0. /\ UNCHANGED phase /\ sampler = "sampling"
        /\ samples' \in 0..MaxSamples /\ sampler' \in {"sampling", "ended"}
    <3>1. samples \in 0..MaxSamples /\ MaxSamples \in Nat
      BY <1>a, ManifestAssumption DEF WorkloadTypeOK
    <3> QED BY <1>3, <3>1 DEF Sample, EndSampler
  <2>1. WorkloadTypeOK'
    BY <1>a, <1>0, <2>0 DEF WorkloadTypeOK
  <2>2. RecordsFit'
    BY <1>a, <1>0, <1>1, <2>0 DEF RecordsFit
  <2>3. CountsFit'
    BY <1>a, <1>0, <1>1, <2>0 DEF CountsFit
  <2>4. ArchiveParts' /\ MetricsCoverRecords' /\ PassIsEarned'
    BY <1>a, <1>0, <1>1, <2>0 DEF ArchiveParts, ArchiveFits, ArchiveIsComplete,
         PeakIsOfArchive, MetricsCoverRecords, PassIsEarned
  <2> QED BY <2>1, <2>2, <2>3, <2>4 DEF ArchiveInvariant, ArchiveParts
<1> QED BY <1>2, <1>3

(* The records are written; the second snapshot was taken before.          *)
LEMMA WriteKeeps ==
  ASSUME ServiceInvariant, ArchiveInvariant, MetricsCoverRecords, WriteRecords \/ WriteRuns
  PROVE  ArchiveInvariant' /\ MetricsCoverRecords'
<1>a. /\ WorkloadTypeOK /\ RecordsFit /\ CountsFit /\ ArchiveFits
      /\ ArchiveIsComplete /\ PassIsEarned /\ PeakIsOfArchive
  BY DEF ArchiveInvariant
<1>0. /\ phase = "write" /\ phase' = "summarize"
      /\ archive' = [archive EXCEPT !.records = records, !.samples = samples]
      /\ after' \in Snapshot \cup {after}
      /\ program = "manifest" => after' \in Snapshot
      /\ UNCHANGED <<service, program, posted, records, sampler, samples, before>>
  BY DEF WriteRecords, WriteRuns
<1>1. UNCHANGED <<handler, answer, counted>>
  BY <1>0 DEF service
<1>2. Succeeded(records) \in Nat /\ Succeeded(records) <= counted["success"]
  BY <1>a, SuccessesAnswered
<1>3. counted["success"] \in Nat
  BY DEF ServiceInvariant, TypeOK, Outcomes
<1>4. after' \in [success : BOOLEAN, count : Nat]
  <2>1. after \in [success : BOOLEAN, count : Nat]
    BY <1>a DEF WorkloadTypeOK
  <2> QED BY <1>0, <1>3, <2>1, SnapshotShape
<1>5. archive' \in [records : Seq(Results), samples : Nat, peakOf : Nat,
                    status : {"none", "PASS", "PARTIAL_OR_FAILED"}]
  <2>1. records \in Seq(Results) /\ samples \in Nat
    BY <1>a, ManifestAssumption DEF WorkloadTypeOK
  <2>2. archive \in [records : Seq(Results), samples : Nat, peakOf : Nat,
                     status : {"none", "PASS", "PARTIAL_OR_FAILED"}]
    BY <1>a DEF WorkloadTypeOK
  <2> QED BY <1>0, <2>1, <2>2
<1>6. /\ archive'.records = records /\ archive'.samples = samples
      /\ archive'.status = archive.status
  BY <1>a, <1>0 DEF WorkloadTypeOK
<1>7. WorkloadTypeOK'
  BY <1>a, <1>0, <1>4, <1>5 DEF WorkloadTypeOK
<1>8. RecordsFit'
  BY <1>a, <1>0, <1>1 DEF RecordsFit
<1>9. CountsFit'
  BY <1>a, <1>0, <1>1 DEF CountsFit
<1>10. archive.status = "none"
  BY <1>a, <1>0 DEF ArchiveFits
<1>11. ArchiveParts' /\ PassIsEarned'
  BY <1>a, <1>0, <1>6, <1>10 DEF ArchiveParts, ArchiveFits, ArchiveIsComplete, PeakIsOfArchive,
                                 PassIsEarned
<1>12. MetricsCoverRecords'
  <2> SUFFICES ASSUME after'.success PROVE after'.count - before.count >= Succeeded(records)
    BY <1>0 DEF MetricsCoverRecords, Succeeded
  <2>1. before.count = 0
    BY <1>a DEF CountsFit
  <2>2. ~after.success
    BY <1>a, <1>0 DEF CountsFit
  <2>3. after'.count = counted["success"]
    BY <1>0, <2>2 DEF Snapshot, NoSnapshot
  <2> QED BY <1>2, <1>3, <2>1, <2>3
<1> QED BY <1>7, <1>8, <1>9, <1>11, <1>12 DEF ArchiveInvariant, ArchiveParts

(* PASS: as many successes as cases, each of a case of its own, so BAGEL   *)
(* answered every one of them, and nothing else was answered.              *)
LEMMA PassEarned ==
  ASSUME ServiceInvariant, WorkloadTypeOK, RecordsFit, CountsFit,
         Len(records) = Len(Manifest), \A i \in Index : records[i].index = i,
         Succeeded(records) = Len(Manifest)
  PROVE  /\ \A i \in Index : answer[Manifest[i]] = 200
         /\ counted["timeout"] = 0 /\ counted["upstream_error"] = 0
<1> DEFINE K == {k \in Index : records[k].success}
<1>1. DOMAIN records = Index
  BY ManifestFits, RecordsShape
<1>2. IsFiniteSet(Index) /\ Cardinality(Index) = Len(Manifest)
  <2> DEFINE n == Len(Manifest)
  <2>1. n \in Nat /\ 1 \in Int /\ n \in Int
    BY ManifestFits
  <2> HIDE DEF n
  <2>2. IsFiniteSet(1..n) /\ Cardinality(1..n) = IF 1 > n THEN 0 ELSE n - 1 + 1
    BY <2>1, FS_Interval
  <2>3. Cardinality(1..n) = n
    BY <2>1, <2>2
  <2> QED BY <2>2, <2>3, ManifestFits DEF n
<1>3. Cardinality(K) = Cardinality(Index)
  BY <1>1, <1>2 DEF Succeeded
<1>4. K = Index
  BY <1>2, <1>3, FS_Subset
<1>5. \A i \in Index : answer[Manifest[i]] = 200
  <2>1. \A k \in Index : answer[Manifest[records[k].index]] = 200
    BY <1>1, <1>4 DEF RecordsFit
  <2> QED BY <2>1
<1>6. \A r \in Requests : answer[r] # 0 => answer[r] = 200
  BY <1>5, Answered DEF CountsFit
<1>7. counted["timeout"] \in Nat /\ counted["upstream_error"] \in Nat
  BY DEF ServiceInvariant, TypeOK, Outcomes
<1>8. ~(counted["timeout"] > 0) /\ ~(counted["upstream_error"] > 0)
  BY <1>6 DEF CountsFit
<1> QED BY <1>5, <1>7, <1>8

(* The summary or the peaks are written: the script is done.               *)
LEMMA DoneKeeps ==
  ASSUME ServiceInvariant, ArchiveInvariant, MetricsCoverRecords, Summarize \/ WritePeaks
  PROVE  ArchiveInvariant' /\ MetricsCoverRecords'
<1>a. /\ WorkloadTypeOK /\ RecordsFit /\ CountsFit /\ ArchiveFits
      /\ ArchiveIsComplete /\ PassIsEarned /\ PeakIsOfArchive
  BY DEF ArchiveInvariant
<1>0. /\ phase = "summarize" /\ phase' = "done"
      /\ archive' = [archive EXCEPT !.peakOf = samples, !.status = archive'.status]
      /\ archive'.status \in {archive.status, Verdict(records)}
      /\ UNCHANGED <<service, program, posted, records, sampler, samples, before, after>>
  <2>1. archive \in [records : Seq(Results), samples : Nat, peakOf : Nat,
                     status : {"none", "PASS", "PARTIAL_OR_FAILED"}]
    BY <1>a DEF WorkloadTypeOK
  <2>2. CASE Summarize
    BY <2>1, <2>2 DEF Summarize
  <2>3. CASE WritePeaks
    BY <2>1, <2>3 DEF WritePeaks
  <2> QED BY <2>2, <2>3
<1>1. UNCHANGED <<handler, answer, counted>>
  BY <1>0 DEF service
<1>2. archive.status = "none" /\ archive.records = records
  BY <1>a, <1>0 DEF ArchiveFits
<1>3. archive'.status \in {"none", "PASS", "PARTIAL_OR_FAILED"}
  BY <1>0, <1>2 DEF Verdict
<1>4. samples \in Nat
  BY <1>a, ManifestAssumption DEF WorkloadTypeOK
<1>5. /\ archive' \in [records : Seq(Results), samples : Nat, peakOf : Nat,
                       status : {"none", "PASS", "PARTIAL_OR_FAILED"}]
      /\ archive'.records = records /\ archive'.samples = archive.samples
      /\ archive'.peakOf = samples
  <2>1. archive \in [records : Seq(Results), samples : Nat, peakOf : Nat,
                     status : {"none", "PASS", "PARTIAL_OR_FAILED"}]
    BY <1>a DEF WorkloadTypeOK
  <2> QED BY <1>0, <1>2, <1>3, <1>4, <2>1
<1>6. WorkloadTypeOK'
  BY <1>a, <1>0, <1>5 DEF WorkloadTypeOK
<1>7. RecordsFit' /\ CountsFit'
  BY <1>a, <1>0, <1>1 DEF RecordsFit, CountsFit
<1>8. Len(records) = Len(Manifest) /\ \A i \in Index : records[i].index = i
  BY <1>a, <1>0 DEF RecordsFit
<1>9. ArchiveParts' /\ MetricsCoverRecords'
  BY <1>a, <1>0, <1>5, <1>8 DEF ArchiveParts, ArchiveFits, ArchiveIsComplete, PeakIsOfArchive,
                                MetricsCoverRecords, Succeeded
<1>10. PassIsEarned'
  <2> SUFFICES ASSUME archive'.status = "PASS"
               PROVE  /\ \A i \in Index : answer[Manifest[i]] = 200
                      /\ counted["timeout"] = 0 /\ counted["upstream_error"] = 0
    BY <1>1 DEF PassIsEarned
  <2>1. Succeeded(records) = Len(Manifest)
    BY <1>0, <1>2 DEF Verdict
  <2> QED BY <1>a, <1>8, <2>1, PassEarned
<1> QED BY <1>6, <1>7, <1>9, <1>10 DEF ArchiveInvariant, ArchiveParts

(* Nothing changes when the script has ended, or a step stutters.          *)
LEMMA StutterKeeps ==
  ASSUME ArchiveInvariant, MetricsCoverRecords, UNCHANGED vars
  PROVE  ArchiveInvariant' /\ MetricsCoverRecords'
<1>a. /\ WorkloadTypeOK /\ RecordsFit /\ CountsFit /\ ArchiveFits
      /\ ArchiveIsComplete /\ PassIsEarned /\ PeakIsOfArchive
  BY DEF ArchiveInvariant
<1> USE DEF vars, service, driver
<1>1. WorkloadTypeOK' /\ RecordsFit'
  BY <1>a DEF WorkloadTypeOK, RecordsFit
<1>2. CountsFit'
  BY <1>a DEF CountsFit
<1>3. ArchiveParts' /\ PassIsEarned' /\ MetricsCoverRecords'
  BY <1>a DEF ArchiveParts, ArchiveFits, ArchiveIsComplete, PassIsEarned, PeakIsOfArchive,
              MetricsCoverRecords, Succeeded
<1> QED BY <1>1, <1>2, <1>3 DEF ArchiveInvariant, ArchiveParts

LEMMA StepArchive ==
  ASSUME ServiceInvariant, ArchiveInvariant, MetricsCoverRecords, [Next]_vars
  PROVE  ArchiveInvariant' /\ MetricsCoverRecords'
<1>1. CASE ServiceNext /\ UNCHANGED driver
  BY <1>1, ServiceKeeps
<1>2. CASE Main
  <2>1. CASE BeginManifest \/ BeginRuns
    BY <2>1, BeginKeeps
  <2>2. CASE Post
    <3>1. Start(posted + 1) /\ program = "manifest"
      BY <2>2 DEF Post
    <3> QED BY <3>1, StartKeeps
  <2>3. CASE PostRun
    <3>1. Start(posted + 1) /\ posted = Len(records)
      BY <2>3 DEF PostRun
    <3> QED BY <3>1, StartKeeps
  <2>4. CASE Drain
    BY <2>4, DrainKeeps
  <2>5. CASE EndRuns
    BY <2>5, EndRunsKeeps
  <2>6. CASE JoinSampler \/ JoinForSeconds
    BY <2>6, SamplerKeeps
  <2>7. CASE WriteRecords \/ WriteRuns
    BY <2>7, WriteKeeps
  <2>8. CASE Summarize \/ WritePeaks
    BY <2>8, DoneKeeps
  <2> QED BY <1>2, <2>1, <2>2, <2>3, <2>4, <2>5, <2>6, <2>7, <2>8 DEF Main
<1>3. ASSUME NEW i \in Index, Collect(i)
      PROVE  ArchiveInvariant' /\ MetricsCoverRecords'
  <2>1. /\ i <= posted /\ i \notin Recorded /\ phase = "run" /\ program = "manifest"
        /\ UNCHANGED <<service, program, phase, posted, sampler, samples,
                       before, after, archive>>
    BY <1>3, Zenon DEF Collect
  <2>2. Ends(i)
    BY <1>3, Zenon DEF Collect, Ends
  <2> QED BY <2>1, <2>2, CollectKeeps
<1>4. CASE CollectRun
  <2>1. /\ phase = "run" /\ program = "understanding" /\ posted > Len(records)
        /\ UNCHANGED <<service, program, phase, posted, sampler, samples,
                       before, after, archive>>
    BY <1>4, Zenon DEF CollectRun
  <2>2. Ends(posted)
    BY <1>4, Zenon DEF CollectRun, Ends
  <2>3. posted \in Nat /\ posted <= Len(Manifest) /\ Len(records) \in Nat
        /\ DOMAIN records = 1..Len(records)
    BY RecordsShape DEF ArchiveInvariant
  <2>4. posted \in Index /\ posted <= posted
    BY <2>1, <2>3, ManifestFits
  <2>5. posted \notin Recorded
    <3>1. \A k \in DOMAIN records : records[k].index = k
      BY <2>1 DEF ArchiveInvariant, RecordsFit
    <3>2. \A k \in 1..Len(records) : k # posted
      BY <2>1, <2>3
    <3> QED BY <2>3, <3>1, <3>2 DEF Recorded
  <2>6. PICK i \in Index : i = posted
    BY <2>4
  <2>7. /\ i <= posted /\ i \notin Recorded /\ Ends(i)
        /\ program = "understanding" => i = posted /\ posted > Len(records)
    BY <2>1, <2>2, <2>4, <2>5, <2>6
  <2> QED BY <2>1, <2>7, CollectKeeps
<1>5. CASE Sample \/ EndSampler
  BY <1>5, SamplerKeeps
<1>6. CASE Ended \/ UNCHANGED vars
  BY <1>6, StutterKeeps DEF Ended
<1> QED BY <1>1, <1>2, <1>3, <1>4, <1>5, <1>6 DEF Next

(* The archive of run_bagel_workload_manifest.py or                        *)
(* run_understanding_benchmark.py is complete and in manifest order, PASS  *)
(* is earned, and the peak is of the samples that were archived.           *)
THEOREM ArchiveHolds == Spec => []ArchiveInvariant
<1>1. Init => ArchiveInvariant /\ MetricsCoverRecords
  BY InitArchive
<1>2. ServiceInvariant /\ (ArchiveInvariant /\ MetricsCoverRecords) /\ [Next]_vars
        => (ArchiveInvariant /\ MetricsCoverRecords)'
  BY StepArchive
<1> QED BY <1>1, <1>2, ServiceSafe, PTL DEF Spec

(* What the service counted between the scripts' snapshots of its metrics  *)
(* is no less than what their records call a success.                      *)
THEOREM MetricsCover == Spec => []MetricsCoverRecords
<1>1. Init => ArchiveInvariant /\ MetricsCoverRecords
  BY InitArchive
<1>2. ServiceInvariant /\ (ArchiveInvariant /\ MetricsCoverRecords) /\ [Next]_vars
        => (ArchiveInvariant /\ MetricsCoverRecords)'
  BY StepArchive
<1> QED BY <1>1, <1>2, ServiceSafe, PTL DEF Spec

=============================================================================

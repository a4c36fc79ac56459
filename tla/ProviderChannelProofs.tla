------------------------ MODULE ProviderChannelProofs ------------------------
(***************************************************************************)
(* Proofs about ProviderChannel, for every set of consumers, every size of *)
(* the send buffer and every nesting of the lock.                          *)
(***************************************************************************)
EXTENDS ProviderChannel, SequenceTheorems, TLAPS

(***************************************************************************)
(* The inductive invariant.  What a thread reads next depends on what is   *)
(* on its way in both directions: at most one message in the association   *)
(* waits for an answer or is one, and it is the holder's (UpInv, DownInv); *)
(* behind every MEMPUT comes the rest of its stream before the next        *)
(* request (StreamInv); and an object's mapping is before its uses         *)
(* (MappedInv).  None of the parts is inductive alone.  The first two hold *)
(* until a consumer disappears in its fetch, the third until one does in   *)
(* its memput.                                                             *)
(***************************************************************************)

FetchCut == \E t \in Callers : ~alive[t] /\ kind[t] = "fetch"
MemputCut == \E t \in Callers : ~alive[t] /\ kind[t] = "memput"

\* between provider_lock and provider_unlock
Inside(t) == pc[t] \in {"send", "recv", "forward", "stream", "streamEnd", "unlock", "unlockLast"}

HolderInv == \A t \in Threads : Inside(t) => holder = t

\* in which call a thread can be at a label
CallInv ==
  /\ kind[Ping] = "ping"
  /\ \A t \in Threads :
       /\ pc[t] = "recv" => kind[t] \notin {"free", "memput"}
       /\ pc[t] = "forward" => kind[t] = "fetch"
       /\ pc[t] \in {"stream", "streamEnd"} => kind[t] = "memput"

\* only consumers have objects to map
Mappers == \A n \in 1..Len(up) : Maps(up[n]) => up[n].by \in Callers

Notices == {"SHUTDOWN", "REST"}
Awaited == {"ALLOCATE", "EXECUTE", "MAPATPTR", "FETCH", "PING"}

\* the order of the messages of an answer; a notice ends it
Follows(first, second) ==
  \/ first \notin Notices /\ second = "SHUTDOWN"
  \/ first = "FETCHED" /\ second = "START"
  \/ first = "START" /\ second = "END"

\* what a thread can find at the head of the messages to the agent
Expects(t, type) ==
  \/ type = "SHUTDOWN"
  \/ type = "REST" /\ pc[t] # "forward"
  \/ type = Reply(Request(t)) /\ pc[t] = "recv"
  \/ type \in Streamed /\ pc[t] = "forward"

NoticesInv == \A n \in 1..Len(down) : down[n].type \in Notices => prov = "gone"

ReadByHolder ==
  \A n \in 1..Len(down) : down[n].type \notin Notices =>
    holder \in Threads /\ down[n].by = holder /\ pc[holder] \in {"recv", "forward"}

Ordered == \A n \in 1..(Len(down) - 1) : Follows(down[n].type, down[n + 1].type)

Expected == down # <<>> => \A t \in Threads : holder = t => Expects(t, down[1].type)

Dialogue == ReadByHolder /\ Ordered /\ Expected

DownInv == NoticesInv /\ (~FetchCut => Dialogue)

\* the request at n is the holder's, the only one, and its answer is still to come
Pending(n) ==
  /\ up[n].by = holder /\ pc[holder] = "recv" /\ up[n].type = Request(holder)
  /\ down = <<>>
  /\ \A m \in 1..Len(up) : up[m].type \in Awaited => m = n

UpInv ==
  /\ prov = "gone" => up = <<>>
  /\ ~FetchCut => \A n \in 1..Len(up) : up[n].type \in Awaited => Pending(n)

\* A stream is open behind a MEMPUT, and before the first message when the
\* provider is in a stream.
OpenAt(m) == \/ m = 0 /\ prov = "stream"
             \/ m \in 1..Len(up) /\ up[m].type = "MEMPUT"

EndBetween(m, n) == \E k \in 1..Len(up) : m < k /\ k < n /\ up[k].type = "END"

Streams(t) == pc[t] \in {"stream", "streamEnd"}

\* no request comes before the end of the stream that is open behind m, and it
\* ends when no thread sends it any more
Closed(m) ==
  /\ \A n \in 1..Len(up) :
       m < n /\ up[n].type \notin Streamed \union {"MAPPING"} => EndBetween(m, n)
  /\ (\A t \in Callers : ~Streams(t)) => EndBetween(m, Len(up) + 1)

StreamInv == prov # "gone" /\ ~MemputCut => \A m \in 0..Len(up) : OpenAt(m) => Closed(m)

\* the provider knows the object of t when it has served all messages before n
MappedBefore(t, n) ==
  t \in mapped \/ \E k \in 1..Len(up) : k < n /\ up[k].by = t /\ Maps(up[k])

AnsweredMapped == \A n \in 1..Len(down) : down[n].type = "MAPPEDAT" => down[n].by \in mapped

UsesMapped == \A n \in 1..Len(up) : up[n].uses => MappedBefore(up[n].by, n)

HasMapped == \A t \in Callers : has[t] => MappedBefore(t, Len(up) + 1)

MappedInv == AnsweredMapped /\ (prov # "gone" => UsesMapped /\ HasMapped)

IInv == /\ TypeOK /\ HolderInv /\ CallInv /\ Mappers /\ DownInv /\ UpInv /\ StreamInv /\ MappedInv
        /\ MixUpsExplained /\ MappedBeforeUse

-----------------------------------------------------------------------------
(* Sequences of messages, what an answer is, and the labels of a thread *)

\* what is left of a sequence when its first element is taken
LEMMA Taken ==
  ASSUME NEW S, NEW s \in Seq(S), s # <<>>
  PROVE  /\ Len(s) \in Nat \ {0} /\ Head(s) = s[1] /\ Head(s) \in S
         /\ Tail(s) \in Seq(S) /\ Len(Tail(s)) = Len(s) - 1
         /\ \A n \in 1..(Len(s) - 1) : Tail(s)[n] = s[n + 1]
BY HeadTailProperties, EmptySeq

\* and what it is when one is added
LEMMA Sent ==
  ASSUME NEW S, NEW s \in Seq(S), NEW e \in S
  PROVE  /\ Append(s, e) \in Seq(S) /\ Append(s, e) # <<>>
         /\ Len(s) \in Nat /\ Len(Append(s, e)) = Len(s) + 1
         /\ \A n \in 1..Len(s) : Append(s, e)[n] = s[n]
         /\ Append(s, e)[Len(s) + 1] = e
BY AppendProperties, LenProperties

\* the requests that Awaited names have one answer each, the others none
LEMMA Answered ==
  ASSUME NEW m \in UpMsg
  PROVE  /\ Answer(m) \in Seq(DownMsg)
         /\ m.type \notin Awaited => Answer(m) = <<>>
         /\ m.type = "FETCH" => /\ Len(Answer(m)) = 3
                                /\ Answer(m)[1].type = "FETCHED" /\ Answer(m)[1].by = m.by
                                /\ Answer(m)[2].type = "START" /\ Answer(m)[2].by = m.by
                                /\ Answer(m)[3].type = "END" /\ Answer(m)[3].by = m.by
         /\ m.type \in Awaited \ {"FETCH"} =>
              /\ Len(Answer(m)) = 1
              /\ Answer(m)[1].type = Reply(m.type) /\ Answer(m)[1].by = m.by
              /\ Reply(m.type) \in Replies \ {"FETCHED"}
<1> USE DEF Awaited
<1>1. CASE m.type = "FETCH"
  BY <1>1 DEF UpMsg, DownMsg, Answer, Streamed, Replies
<1>2. CASE m.type \in Awaited \ {"FETCH"}
  <2> DEFINE answer == [type |-> Reply(m.type), by |-> m.by]
  <2>1. Reply(m.type) \in Replies \ {"FETCHED"}
    BY <1>2 DEF Reply, Replies
  <2>2. answer \in DownMsg /\ answer.type = Reply(m.type) /\ answer.by = m.by
    BY <2>1 DEF UpMsg, DownMsg
  <2>3. Answer(m) = <<answer>>
    BY <1>2 DEF Answer, Streamed
  <2> HIDE DEF answer
  <2>4. Answer(m) \in Seq(DownMsg) /\ Len(Answer(m)) = 1 /\ Answer(m)[1] = answer
    BY <2>2, <2>3
  <2> QED BY <1>2, <2>1, <2>2, <2>4
<1>3. CASE m.type \notin Awaited
  <2>1. Answer(m) = <<>>
    BY <1>3 DEF UpMsg, Requests, Answer, Streamed
  <2> QED BY <1>3, <2>1
<1> QED BY <1>1, <1>2, <1>3

\* a send keeps the type of the messages to the provider
LEMMA Puts ==
  ASSUME up \in Seq(UpMsg), NEW t \in Threads, NEW type \in Requests \union Streamed \union {"MAPPING"},
         NEW uses \in BOOLEAN, Put(t, type, uses)
  PROVE  up' \in Seq(UpMsg)
<1>1. [type |-> type, by |-> t, uses |-> uses] \in UpMsg
  BY DEF UpMsg
<1> QED BY <1>1, Sent DEF Put

\* the labels and requests of a thread
LEMMA Labels ==
  ASSUME TypeOK, NEW t \in Threads
  PROVE  /\ AfterSend(t) \in {"unlock", "stream", "recv"}
         /\ Request(t) \in Requests
BY DEF TypeOK, AfterSend, Request, Requests, AllKinds

-----------------------------------------------------------------------------
(* What a step does to the messages, and what it leaves alone *)

\* a consumer that is gone in a call stays gone, and in it
LEMMA CutsStay ==
  ASSUME TypeOK, Next
  PROVE  (FetchCut => FetchCut') /\ (MemputCut => MemputCut')
<1> USE ProviderChannelAssumption DEF TypeOK, Threads, lockVars
<1>1. ASSUME NEW t \in Callers, ~alive[t], kind[t] \in {"fetch", "memput"}
      PROVE  ~alive'[t] /\ kind'[t] = kind[t]
  <2>1. ASSUME NEW u \in Callers, CallStep(u) PROVE ~alive'[t] /\ kind'[t] = kind[t]
    <3>1. CASE UnlockProvider(u)
      BY <1>1, <3>1 DEF UnlockProvider
    <3> QED BY <1>1, <2>1, <3>1 DEF CallStep, LockProvider, UseFreed, Send, AllocateSendFails,
               ExecuteSendFails, OtherSendFails, Recv, RecvFails, Forward, ForwardFails,
               StreamOut, RemoteMap, Crash
  <2>2. ASSUME NEW u \in Callers, ConsumerGone(u) PROVE ~alive'[t] /\ kind'[t] = kind[t]
    BY <1>1, <2>2 DEF ConsumerGone
  <2>3. ASSUME NEW u \in Callers, NEW k \in Kinds, Call(u, k)
        PROVE  ~alive'[t] /\ kind'[t] = kind[t]
    BY <1>1, <2>3 DEF Call
  <2>4. CASE PingStep
    BY <1>1, <2>4 DEF PingStep, PingWakes, LockProvider, Send, OtherSendFails, PingRecv,
       PingUnlock,
       PingDestroys
  <2>5. CASE Serve \/ ServeStream \/ ProviderGone
    BY <1>1, <2>5 DEF Serve, ServeStream, ProviderGone, Crash
  <2> QED BY <2>1, <2>2, <2>3, <2>4, <2>5 DEF Next
<1> QED BY <1>1 DEF FetchCut, MemputCut

\* the provider does not come back
LEMMA GoneStays == ASSUME TypeOK, Next PROVE prov = "gone" => prov' = "gone" /\ up' = up
BY ZenonT(60) DEF Next, CallStep, LockProvider, UseFreed, Send, AllocateSendFails, ExecuteSendFails,
   OtherSendFails, Recv, RecvFails, Forward, ForwardFails, StreamOut, UnlockProvider, RemoteMap,
   ConsumerGone, Call, PingStep, PingWakes, PingRecv, PingUnlock, PingDestroys, Serve,
   ServeStream, ProviderGone, Crash

\* only what it serves, and its end, change what the provider is doing
LEMMA ProvMoves ==
  ASSUME TypeOK, Next, prov' # "gone"
  PROVE  /\ prov # "gone"
         /\ ~(Serve \/ ServeStream) => prov' = prov
         /\ up' = up => prov' = prov
<1>1. up # <<>> => Tail(up) # up
  BY Taken DEF TypeOK
<1>2. ASSUME Serve \/ ServeStream, up' = up PROVE prov' = prov
  BY <1>1, <1>2 DEF Serve, ServeStream, Crash
<1>3. ~(Serve \/ ServeStream) => prov' = prov
  BY DEF Next, CallStep, LockProvider, UseFreed, Send, AllocateSendFails, ExecuteSendFails,
       OtherSendFails, Recv, RecvFails, Forward, ForwardFails, StreamOut, UnlockProvider,
       RemoteMap,
       ConsumerGone, Call, PingStep, PingWakes, PingRecv, PingUnlock, PingDestroys,
       ProviderGone, Crash
<1> QED BY <1>2, <1>3, GoneStays

\* what a step does to the messages to the provider
LEMMA UpMoves ==
  ASSUME TypeOK, CallInv, Next
  PROVE  \/ up' = up
         \/ up # <<>> /\ up' = Tail(up) /\ (Serve \/ ServeStream)
         \/ ProviderGone /\ up' = <<>>
         \/ \E t \in Threads :
              /\ Send(t)
              /\ up' = Append(up, [type |-> Request(t), by |-> t, uses |-> t # Ping /\ has[t]])
         \/ \E t \in Callers :
              /\ StreamOut(t) /\ alive[t] /\ prov # "gone"
              /\ up' = Append(up, [type |-> IF pc[t] = "stream" THEN "START" ELSE "END",
                                   by |-> t, uses |-> FALSE])
         \/ \E t \in Callers :
              /\ RemoteMap(t) /\ prov # "gone"
              /\ up' = Append(up, [type |-> "MAPPING", by |-> t, uses |-> FALSE])
<1>1. ASSUME NEW t \in Callers, CallStep(t), up' # up
      PROVE  \/ Send(t)
             \/ StreamOut(t) /\ alive[t] /\ prov # "gone"
             \/ RemoteMap(t) /\ prov # "gone"
  BY <1>1 DEF CallStep, LockProvider, UseFreed, AllocateSendFails, ExecuteSendFails,
     OtherSendFails, Recv, RecvFails, Forward, ForwardFails, StreamOut, UnlockProvider,
     RemoteMap, Crash
<1>2. ASSUME PingStep, up' # up PROVE Send(Ping)
  BY <1>2 DEF PingStep, PingWakes, LockProvider, OtherSendFails, PingRecv, PingUnlock,
     PingDestroys
<1>3. ASSUME NEW t \in Callers, ConsumerGone(t) PROVE up' = up
  BY <1>3 DEF ConsumerGone
<1>4. ASSUME NEW t \in Callers, NEW k \in Kinds, Call(t, k) PROVE up' = up
  BY <1>4 DEF Call
<1>5. ASSUME Serve \/ ServeStream, up' # up PROVE up # <<>> /\ up' = Tail(up)
  BY <1>5 DEF Serve, ServeStream, Crash
<1>6. ASSUME ProviderGone PROVE up' = <<>>
  BY <1>6 DEF ProviderGone
<1>7. ASSUME NEW t \in Threads, Send(t)
      PROVE  up' = Append(up, [type |-> Request(t), by |-> t, uses |-> t # Ping /\ has[t]])
  BY <1>7 DEF Send, Put
<1>8. ASSUME NEW t \in Callers, StreamOut(t), alive[t], prov # "gone"
      PROVE  up' = Append(up, [type |-> IF pc[t] = "stream" THEN "START" ELSE "END",
                               by |-> t, uses |-> FALSE])
  BY <1>8 DEF StreamOut, Put
<1>9. ASSUME NEW t \in Callers, RemoteMap(t), prov # "gone"
      PROVE  up' = Append(up, [type |-> "MAPPING", by |-> t, uses |-> FALSE])
  BY <1>9 DEF RemoteMap, Put
<1> QED BY <1>1, <1>2, <1>3, <1>4, <1>5, <1>6, <1>7, <1>8, <1>9 DEF Next, Threads

\* what a step does to the messages to the agent
LEMMA DownMoves ==
  ASSUME TypeOK, Next
  PROVE  \/ down' = down
         \/ \E t \in Callers : Recv(t) /\ down # <<>> /\ down' = Tail(down)
                               /\ down[1] = [type |-> Reply(Request(t)), by |-> t]
         \/ \E t \in Callers : RecvFails(t) /\ crash' = "none"
         \/ \E t \in Callers : Forward(t) \/ ForwardFails(t)
         \/ PingRecv /\ down # <<>> /\ down' = Tail(down)
         \/ Serve /\ down' = down \o Answer(Head(up))
         \/ ProviderGone
<1>1. ASSUME NEW t \in Callers, Recv(t)
      PROVE  \/ down' = down
             \/ down # <<>> /\ down' = Tail(down) /\ down[1] = [type |-> Reply(Request(t)), by |-> t]
  BY <1>1, Taken DEF Recv, TypeOK, Crash
<1>2. ASSUME NEW t \in Callers, RecvFails(t) PROVE down' = down \/ crash' = "none"
  BY <1>2 DEF RecvFails, Crash, At
<1>3. ASSUME PingRecv PROVE down' = down \/ (down # <<>> /\ down' = Tail(down))
  BY <1>3 DEF PingRecv
<1>4. ASSUME Serve PROVE down' = down \/ down' = down \o Answer(Head(up))
  BY <1>4 DEF Serve, Crash
<1> QED BY <1>1, <1>2, <1>3, <1>4 DEF Next, CallStep, LockProvider, UseFreed, Send,
           AllocateSendFails,
           ExecuteSendFails, OtherSendFails, StreamOut, UnlockProvider, RemoteMap, ConsumerGone,
           Call, PingStep, PingWakes, PingUnlock, PingDestroys, ServeStream, Crash

\* Only by reading does a thread that waits for an answer go on, and while it
\* waits the lock is its own.
LEMMA Waits ==
  ASSUME TypeOK, HolderInv, CallInv, Next, NEW t \in Threads, pc[t] \in {"recv", "forward"},
         down # <<>> \/ prov # "gone"
  PROVE  \/ pc'[t] = pc[t] /\ kind'[t] = kind[t] /\ holder' = holder
         \/ down # <<>> /\ t \in Callers /\ (Recv(t) \/ RecvFails(t) \/ Forward(t) \/ ForwardFails(t))
         \/ down # <<>> /\ t = Ping /\ PingRecv
<1> USE ProviderChannelAssumption DEF TypeOK, Threads, lockVars, At, Goto
<1> DEFINE Same == pc'[t] = pc[t] /\ kind'[t] = kind[t] /\ holder' = holder
<1>0. /\ holder = t /\ None \notin Threads
      /\ \A u \in Threads : EnterLock(u) \/ ExitLock(u) => holder \in {None, u}
  BY DEF HolderInv, Inside, EnterLock, ExitLock, Mutex!Acquire, Mutex!Reenter, Mutex!Leave,
     Mutex!Release
<1>1. ASSUME NEW u \in Callers, CallStep(u), u # t PROVE Same
  <2>1. CASE UnlockProvider(u) \/ LockProvider(u)
    BY <1>0, <1>1, <2>1 DEF UnlockProvider, LockProvider
  <2>2. CASE Recv(u)
    BY <1>0, <1>1, <2>2 DEF Recv, Crash
  <2>3. CASE RecvFails(u)
    BY <1>0, <1>1, <2>3 DEF RecvFails, Crash
  <2>4. CASE UseFreed(u) \/ Send(u) \/ AllocateSendFails(u) \/ ExecuteSendFails(u) \/ OtherSendFails(u)
    BY <1>0, <1>1, <2>4 DEF UseFreed, Send, AllocateSendFails, ExecuteSendFails,
       OtherSendFails, Crash
  <2>5. CASE Forward(u) \/ ForwardFails(u) \/ StreamOut(u) \/ RemoteMap(u)
    BY <1>0, <1>1, <2>5 DEF Forward, ForwardFails, StreamOut, RemoteMap
  <2> QED BY <1>1, <2>1, <2>2, <2>3, <2>4, <2>5 DEF CallStep
<1>2. ASSUME CallStep(t), t \in Callers
      PROVE  down # <<>> /\ (Recv(t) \/ RecvFails(t) \/ Forward(t) \/ ForwardFails(t))
  BY <1>2 DEF CallStep, LockProvider, UseFreed, Send, AllocateSendFails, ExecuteSendFails,
     OtherSendFails, Recv, RecvFails, Forward, ForwardFails, StreamOut, UnlockProvider,
     RemoteMap
<1>3. ASSUME NEW u \in Callers, ConsumerGone(u) PROVE Same
  BY <1>3 DEF ConsumerGone
<1>4. ASSUME NEW u \in Callers, NEW k \in Kinds, Call(u, k) PROVE Same
  BY <1>4 DEF Call
<1>5. ASSUME PingStep, t # Ping PROVE Same
  BY <1>0, <1>5 DEF PingStep, PingWakes, LockProvider, Send, OtherSendFails, PingRecv,
     PingUnlock,
     PingDestroys
<1>6. ASSUME PingStep, t = Ping PROVE PingRecv /\ down # <<>>
  BY <1>6 DEF PingStep, PingWakes, LockProvider, Send, OtherSendFails, PingRecv, PingUnlock,
     PingDestroys
<1>7. ASSUME Serve \/ ServeStream \/ ProviderGone PROVE Same
  BY <1>7 DEF Serve, ServeStream, ProviderGone, Crash
<1> QED BY <1>1, <1>2, <1>3, <1>4, <1>5, <1>6, <1>7 DEF Next

\* while nothing is read, a thread that waits for an answer stays where it is
LEMMA StillWaits ==
  ASSUME TypeOK, HolderInv, CallInv, Next, NEW t \in Threads, pc[t] \in {"recv", "forward"},
         down # <<>> \/ prov # "gone", down' = down
  PROVE  pc'[t] = pc[t] /\ kind'[t] = kind[t] /\ holder' = holder
<1>1. down # <<>> => Tail(down) # down
  BY Taken DEF TypeOK
<1>2. ASSUME t \in Callers, Recv(t), down # <<>>
      PROVE  pc'[t] = pc[t] /\ kind'[t] = kind[t] /\ holder' = holder
  BY <1>1, <1>2 DEF Recv, Crash, lockVars
<1>3. ASSUME t \in Callers, RecvFails(t), down # <<>>
      PROVE  pc'[t] = pc[t] /\ kind'[t] = kind[t] /\ holder' = holder
  <2>1. CASE kind[t] \notin {"allocate", "fetch"}
    BY <1>3, <2>1 DEF RecvFails, Crash, lockVars
  <2>2. CASE kind[t] \in {"allocate", "fetch"}
    <3>1. down = <<[type |-> "REST", by |-> None]>> /\ Head(down).type = "SHUTDOWN"
      BY <1>3, <2>2 DEF RecvFails
    <3>2. Head(<<[type |-> "REST", by |-> None]>>).type = "REST"
      OBVIOUS
    <3> QED BY <3>1, <3>2
  <2> QED BY <2>1, <2>2
<1>4. ~((Forward(t) \/ ForwardFails(t) \/ PingRecv) /\ down # <<>>)
  BY <1>1 DEF Forward, ForwardFails, PingRecv
<1> QED BY Waits, <1>2, <1>3, <1>4

\* What is read leaves an answer in order: behind the answer of a fetch comes its
\* stream, behind any other answer nothing but a notice.
LEMMA Rest ==
  ASSUME TypeOK, Ordered, down # <<>>
  PROVE  /\ LET rest == Tail(down) IN \A n \in 1..(Len(rest) - 1) : Follows(rest[n].type, rest[n + 1].type)
         /\ Tail(down) # <<>> => Follows(down[1].type, Tail(down)[1].type)
         /\ \A n \in 1..Len(Tail(down)) : Tail(down)[n].type \notin Notices =>
              down[1].type \in {"FETCHED", "START"}
<1> USE DEF TypeOK, Ordered
<1> DEFINE rest == Tail(down)
<1>1. /\ Len(down) \in Nat \ {0} /\ rest \in Seq(DownMsg) /\ Len(rest) = Len(down) - 1
      /\ \A n \in 1..(Len(down) - 1) : rest[n] = down[n + 1]
      /\ rest # <<>> => Len(rest) > 0
  BY Taken
<1> HIDE DEF rest
<1>2. \A n \in 1..(Len(rest) - 1) : Follows(rest[n].type, rest[n + 1].type)
  <2> TAKE n \in 1..(Len(rest) - 1)
  <2>1. n + 1 \in 1..(Len(down) - 1) /\ rest[n] = down[n + 1] /\ rest[n + 1] = down[(n + 1) + 1]
    BY <1>1
  <2> QED BY <2>1
<1>3. rest # <<>> => Follows(down[1].type, rest[1].type)
  BY <1>1
<1>4. ASSUME NEW n \in 1..Len(rest), rest[n].type \notin Notices
      PROVE  down[1].type \in {"FETCHED", "START"}
  <2>1. CASE n = 1
    BY <1>3, <1>4, <2>1 DEF Follows, Notices
  <2>2. CASE n # 1
    <3>1. Follows(rest[1].type, rest[2].type)
      BY <1>2, <2>2, <1>1
    <3>2. rest[1].type \notin Notices
      BY <3>1 DEF Follows, Notices
    <3> QED BY <3>2, <1>1, <1>3, <2>2 DEF Follows, Notices
  <2> QED BY <2>1, <2>2
<1> QED BY <1>2, <1>3, <1>4 DEF rest

-----------------------------------------------------------------------------
(* One lemma for each part of the invariant: no step disturbs it *)

LEMMA TypeStep == ASSUME TypeOK, Mappers, Next PROVE TypeOK'
<1> USE ProviderChannelAssumption DEF TypeOK, At, Goto, CallerPcs, PingPcs, Threads, lockVars,
Crash
<1>0. /\ \A t \in Threads : EnterLock(t) \/ ExitLock(t) =>
           holder' \in Threads \union {None} /\ nesting' \in 0..MaxNesting
      /\ \A t \in Threads, label \in CallerPcs \union PingPcs :
           Goto(t, label) => pc' \in [Threads -> CallerPcs \union PingPcs]
      /\ down # <<>> => Tail(down) \in Seq(DownMsg)
      /\ up # <<>> => Head(up) \in UpMsg /\ Tail(up) \in Seq(UpMsg)
      /\ <<>> \in Seq(DownMsg) /\ <<>> \in Seq(UpMsg)
  <2>1. \A t \in Threads : EnterLock(t) \/ ExitLock(t) =>
           holder' \in Threads \union {None} /\ nesting' \in 0..MaxNesting
    BY DEF EnterLock, ExitLock, Mutex!Acquire, Mutex!Reenter, Mutex!Leave, Mutex!Release
  <2>2. down # <<>> => Tail(down) \in Seq(DownMsg)
    BY Taken
  <2>3. up # <<>> => Head(up) \in UpMsg /\ Tail(up) \in Seq(UpMsg)
    BY Taken
  <2> QED BY <2>1, <2>2, <2>3, Z3T(60)
<1>1. ASSUME NEW t \in Callers, CallStep(t) PROVE TypeOK'
  <2>1. CASE LockProvider(t)
    BY <2>1, <1>0 DEF LockProvider
  <2>2. CASE UseFreed(t)
    BY <2>2 DEF UseFreed
  <2>3. CASE Send(t)
    <3>1. up' \in Seq(UpMsg)
      BY <2>3, Puts, Labels DEF Send
    <3> QED BY <2>3, <3>1, <1>0, Labels DEF Send
  <2>4. CASE AllocateSendFails(t)
    BY <2>4, <1>0 DEF AllocateSendFails
  <2>5. CASE ExecuteSendFails(t)
    BY <2>5 DEF ExecuteSendFails
  <2>6. CASE OtherSendFails(t)
    BY <2>6, <1>0 DEF OtherSendFails
  <2>7. CASE Recv(t)
    <3>1. CASE Head(down) # [type |-> Reply(Request(t)), by |-> t]
      BY <2>7, <3>1 DEF Recv
    <3>2. CASE Head(down) = [type |-> Reply(Request(t)), by |-> t]
      <4>1. /\ down' \in Seq(DownMsg)
            /\ pc' \in [Threads -> CallerPcs \union PingPcs]
            /\ has' \in [Callers -> BOOLEAN]
        BY <2>7, <3>2, <1>0 DEF Recv
      <4> QED BY <2>7, <3>2, <4>1 DEF Recv
    <3> QED BY <3>1, <3>2
  <2>8. CASE RecvFails(t)
    <3>1. CASE kind[t] \notin {"allocate", "fetch"}
      BY <2>8, <3>1 DEF RecvFails
    <3>2. CASE kind[t] \in {"allocate", "fetch"}
      <4>1. <<[type |-> "REST", by |-> None]>> \in Seq(DownMsg)
        BY DEF DownMsg
      <4>2. down' \in Seq(DownMsg)
        BY <2>8, <3>2, <4>1, <1>0 DEF RecvFails
      <4> QED BY <2>8, <3>2, <4>2, <1>0 DEF RecvFails
    <3> QED BY <3>1, <3>2
  <2>9. CASE Forward(t)
    <3>1. pc' \in [Threads -> CallerPcs \union PingPcs]
      BY <2>9 DEF Forward
    <3> QED BY <2>9, <3>1, <1>0 DEF Forward
  <2>10. CASE ForwardFails(t)
    BY <2>10, <1>0 DEF ForwardFails
  <2>11. CASE StreamOut(t)
    <3>1. up' \in Seq(UpMsg)
      BY <2>11, Puts DEF StreamOut, Streamed
    <3>2. pc' \in [Threads -> CallerPcs \union PingPcs]
      BY <2>11, ZenonT(60) DEF StreamOut
    <3> QED BY <2>11, <3>1, <3>2 DEF StreamOut
  <2>12. CASE UnlockProvider(t)
    <3>1. /\ pc' \in [Threads -> CallerPcs \union PingPcs]
          /\ kind' \in [Threads -> AllKinds \union {"mapatptr", "ping"}]
      BY <2>12 DEF UnlockProvider
    <3> QED BY <2>12, <3>1, <1>0 DEF UnlockProvider
  <2>13. CASE RemoteMap(t)
    <3>1. up' \in Seq(UpMsg)
      BY <2>13, Puts DEF RemoteMap
    <3> QED BY <2>13, <3>1, <1>0 DEF RemoteMap
  <2> QED BY <1>1, <2>1, <2>2, <2>3, <2>4, <2>5, <2>6, <2>7, <2>8, <2>9, <2>10, <2>11, <2>12,
             <2>13 DEF CallStep
<1>2. ASSUME NEW t \in Callers, ConsumerGone(t) PROVE TypeOK'
  BY <1>2 DEF ConsumerGone
<1>3. ASSUME NEW t \in Callers, NEW k \in Kinds, Call(t, k) PROVE TypeOK'
  BY <1>3 DEF Call
<1>4. ASSUME PingStep PROVE TypeOK'
  <2>1. CASE PingWakes
    BY <2>1, <1>0 DEF PingWakes
  <2>2. CASE LockProvider(Ping)
    BY <2>2, <1>0 DEF LockProvider
  <2>3. CASE Send(Ping)
    <3>1. up' \in Seq(UpMsg)
      BY <2>3, Puts, Labels DEF Send
    <3> QED BY <2>3, <3>1, <1>0, Labels DEF Send
  <2>4. CASE OtherSendFails(Ping)
    BY <2>4, <1>0 DEF OtherSendFails
  <2>5. CASE PingRecv
    <3>1. down' \in Seq(DownMsg)
      BY <2>5, <1>0 DEF PingRecv
    <3> QED BY <2>5, <3>1, <1>0 DEF PingRecv
  <2>6. CASE PingUnlock
    BY <2>6, <1>0 DEF PingUnlock
  <2>7. CASE PingDestroys
    BY <2>7, <1>0 DEF PingDestroys
  <2> QED BY <1>4, <2>1, <2>2, <2>3, <2>4, <2>5, <2>6, <2>7 DEF PingStep
<1>5. ASSUME Serve PROVE TypeOK'
  <2>1. CASE Head(up).uses /\ Head(up).by \notin mapped
    BY <1>5, <2>1 DEF Serve
  <2>2. CASE ~(Head(up).uses /\ Head(up).by \notin mapped)
    <3>1. down \o Answer(Head(up)) \in Seq(DownMsg)
      BY <1>5, <1>0, Answered, ConcatProperties DEF Serve
    <3>2. Maps(Head(up)) => Head(up).by \in Callers
      BY <1>5, Taken DEF Serve, Mappers
    <3> QED BY <1>5, <2>2, <3>1, <3>2, <1>0 DEF Serve
  <2> QED BY <2>1, <2>2
<1>6. ASSUME ServeStream PROVE TypeOK'
  BY <1>6, <1>0 DEF ServeStream
<1>7. ASSUME ProviderGone PROVE TypeOK'
  <2>1. \A n \in 0..Len(down) : SubSeq(down, 1, n) \in Seq(DownMsg)
    BY SubSeqProperties, ElementOfSeq
  <2>2. down' \in Seq(DownMsg)
    BY <1>7, <2>1, Sent DEF ProviderGone, DownMsg
  <2> QED BY <1>7, <2>2, <1>0 DEF ProviderGone
<1> QED BY <1>1, <1>2, <1>3, <1>4, <1>5, <1>6, <1>7 DEF Next

\* one thread at a time is between provider_lock and provider_unlock
LEMMA HolderStep == ASSUME TypeOK, HolderInv, Next PROVE HolderInv'
<1> USE ProviderChannelAssumption DEF TypeOK, HolderInv, Inside, At, Goto, Threads, lockVars,
Crash
<1>0. /\ \A t \in Threads : EnterLock(t) => holder \in {None, t} /\ holder' = t
      /\ \A t \in Threads : ExitLock(t) => holder = t
      /\ None \notin Threads
  BY DEF EnterLock, ExitLock, Mutex!Acquire, Mutex!Reenter, Mutex!Leave, Mutex!Release
<1>1. ASSUME NEW t \in Callers, CallStep(t) PROVE HolderInv'
  <2>1. CASE LockProvider(t)
    BY <2>1, <1>0 DEF LockProvider
  <2>2. CASE UseFreed(t)
    BY <2>2 DEF UseFreed
  <2>3. CASE Send(t)
    BY <2>3 DEF Send
  <2>4. CASE AllocateSendFails(t)
    BY <2>4, <1>0 DEF AllocateSendFails
  <2>5. CASE ExecuteSendFails(t)
    BY <2>5 DEF ExecuteSendFails
  <2>6. CASE OtherSendFails(t)
    BY <2>6, <1>0 DEF OtherSendFails
  <2>7. CASE Recv(t)
    BY <2>7 DEF Recv
  <2>8. CASE RecvFails(t)
    BY <2>8 DEF RecvFails
  <2>9. CASE Forward(t)
    BY <2>9 DEF Forward
  <2>10. CASE ForwardFails(t)
    BY <2>10, <1>0 DEF ForwardFails
  <2>11. CASE StreamOut(t)
    BY <2>11 DEF StreamOut
  <2>12. CASE UnlockProvider(t)
    <3>1. pc'[t] \in {"map", "lock", "idle"}
      BY <2>12 DEF UnlockProvider
    <3>2. \A u \in Threads : u # t => pc'[u] = pc[u]
      BY <2>12 DEF UnlockProvider
    <3>3. holder = t
      BY <2>12, <1>0 DEF UnlockProvider
    <3> QED BY <3>1, <3>2, <3>3
  <2>13. CASE RemoteMap(t)
    BY <2>13, <1>0 DEF RemoteMap
  <2> QED BY <1>1, <2>1, <2>2, <2>3, <2>4, <2>5, <2>6, <2>7, <2>8, <2>9, <2>10, <2>11, <2>12,
             <2>13 DEF CallStep
<1>2. ASSUME NEW t \in Callers, ConsumerGone(t) PROVE HolderInv'
  BY <1>2 DEF ConsumerGone
<1>3. ASSUME NEW t \in Callers, NEW k \in Kinds, Call(t, k) PROVE HolderInv'
  BY <1>3 DEF Call
<1>4. ASSUME PingStep PROVE HolderInv'
  <2>1. CASE PingWakes
    BY <2>1, <1>0 DEF PingWakes
  <2>2. CASE LockProvider(Ping)
    BY <2>2, <1>0 DEF LockProvider
  <2>3. CASE Send(Ping)
    BY <2>3 DEF Send
  <2>4. CASE OtherSendFails(Ping)
    BY <2>4, <1>0 DEF OtherSendFails
  <2>5. CASE PingRecv
    BY <2>5 DEF PingRecv
  <2>6. CASE PingUnlock
    BY <2>6, <1>0 DEF PingUnlock
  <2>7. CASE PingDestroys
    BY <2>7, <1>0 DEF PingDestroys
  <2> QED BY <1>4, <2>1, <2>2, <2>3, <2>4, <2>5, <2>6, <2>7 DEF PingStep
<1>5. ASSUME Serve PROVE HolderInv'
  BY <1>5 DEF Serve
<1>6. ASSUME ServeStream PROVE HolderInv'
  BY <1>6 DEF ServeStream
<1>7. ASSUME ProviderGone PROVE HolderInv'
  BY <1>7 DEF ProviderGone
<1> QED BY <1>1, <1>2, <1>3, <1>4, <1>5, <1>6, <1>7 DEF Next

\* a thread is where its call takes it
LEMMA CallInvStep == ASSUME TypeOK, CallInv, Next PROVE CallInv'
<1> USE ProviderChannelAssumption DEF TypeOK, CallInv, At, Goto, Threads, lockVars, Crash
<1>1. ASSUME NEW t \in Callers, CallStep(t) PROVE CallInv'
  <2> t # Ping
    OBVIOUS
  <2>1. CASE LockProvider(t)
    BY <2>1 DEF LockProvider
  <2>2. CASE UseFreed(t)
    BY <2>2 DEF UseFreed
  <2>3. CASE Send(t)
    BY <2>3 DEF Send, AfterSend
  <2>4. CASE AllocateSendFails(t)
    BY <2>4 DEF AllocateSendFails
  <2>5. CASE ExecuteSendFails(t)
    BY <2>5 DEF ExecuteSendFails
  <2>6. CASE OtherSendFails(t)
    BY <2>6 DEF OtherSendFails
  <2>7. CASE Recv(t)
    BY <2>7 DEF Recv
  <2>8. CASE RecvFails(t)
    BY <2>8 DEF RecvFails
  <2>9. CASE Forward(t)
    BY <2>9 DEF Forward
  <2>10. CASE ForwardFails(t)
    BY <2>10 DEF ForwardFails
  <2>11. CASE StreamOut(t)
    BY <2>11 DEF StreamOut
  <2>12. CASE UnlockProvider(t)
    <3>1. pc'[t] \in {"map", "lock", "idle"}
      BY <2>12 DEF UnlockProvider
    <3>2. \A u \in Threads : u # t => pc'[u] = pc[u] /\ kind'[u] = kind[u]
      BY <2>12 DEF UnlockProvider
    <3> QED BY <3>1, <3>2
  <2>13. CASE RemoteMap(t)
    BY <2>13 DEF RemoteMap
  <2> QED BY <1>1, <2>1, <2>2, <2>3, <2>4, <2>5, <2>6, <2>7, <2>8, <2>9, <2>10, <2>11, <2>12,
             <2>13 DEF CallStep
<1>2. ASSUME NEW t \in Callers, ConsumerGone(t) PROVE CallInv'
  BY <1>2 DEF ConsumerGone
<1>3. ASSUME NEW t \in Callers, NEW k \in Kinds, Call(t, k) PROVE CallInv'
  BY <1>3 DEF Call
<1>4. ASSUME PingStep PROVE CallInv'
  <2>1. CASE PingWakes
    BY <2>1 DEF PingWakes
  <2>2. CASE LockProvider(Ping)
    BY <2>2 DEF LockProvider
  <2>3. CASE Send(Ping)
    BY <2>3 DEF Send, AfterSend
  <2>4. CASE OtherSendFails(Ping)
    BY <2>4 DEF OtherSendFails
  <2>5. CASE PingRecv
    BY <2>5 DEF PingRecv
  <2>6. CASE PingUnlock
    BY <2>6 DEF PingUnlock
  <2>7. CASE PingDestroys
    BY <2>7 DEF PingDestroys
  <2> QED BY <1>4, <2>1, <2>2, <2>3, <2>4, <2>5, <2>6, <2>7 DEF PingStep
<1>5. ASSUME Serve PROVE CallInv'
  BY <1>5 DEF Serve
<1>6. ASSUME ServeStream PROVE CallInv'
  BY <1>6 DEF ServeStream
<1>7. ASSUME ProviderGone PROVE CallInv'
  BY <1>7 DEF ProviderGone
<1> QED BY <1>1, <1>2, <1>3, <1>4, <1>5, <1>6, <1>7 DEF Next

\* the ping thread maps nothing
LEMMA MapperStep == ASSUME TypeOK, CallInv, Mappers, Next PROVE Mappers'
<1> USE DEF Mappers, TypeOK
<1>1. CASE up' = up
  BY <1>1
<1>2. CASE up # <<>> /\ up' = Tail(up)
  BY <1>2, Taken
<1>3. CASE up' = <<>>
  BY <1>3
<1>4. ASSUME NEW m \in UpMsg, up' = Append(up, m), Maps(m) => m.by \in Callers PROVE Mappers'
  BY <1>4, Sent
<1>5. ASSUME NEW t \in Threads
      PROVE  LET m == [type |-> Request(t), by |-> t, uses |-> t # Ping /\ has[t]]
             IN  m \in UpMsg /\ (Maps(m) => m.by \in Callers)
  BY Labels DEF Maps, UpMsg, CallInv, Threads, Request
<1>6. ASSUME NEW t \in Callers, NEW type \in Streamed \union {"MAPPING"}
      PROVE  LET m == [type |-> type, by |-> t, uses |-> FALSE]
             IN  m \in UpMsg /\ m.by \in Callers
  BY DEF Maps, UpMsg, Threads
<1> QED BY <1>1, <1>2, <1>3, <1>4, <1>5, <1>6, UpMoves DEF Streamed

\* the shutdown event comes from a provider that is gone, and nothing else makes one
LEMMA NoticesStep == ASSUME TypeOK, NoticesInv, Next PROVE NoticesInv'
<1> USE DEF NoticesInv, TypeOK
<1>1. CASE down' = down
  BY <1>1, GoneStays
<1>2. CASE down # <<>> /\ down' = Tail(down)
  BY <1>2, GoneStays, Taken
<1>3. ASSUME NEW t \in Callers, RecvFails(t), crash' = "none" PROVE NoticesInv'
  <2>1. down # <<>> /\ Head(down).type = "SHUTDOWN" => prov = "gone"
    BY Taken DEF Notices
  <2>2. kind[t] \in {"allocate", "fetch"}
    BY <1>3 DEF RecvFails, Crash
  <2>3. prov' = prov /\ (down' = <<>> \/ prov = "gone")
    BY <1>3, <2>1, <2>2 DEF RecvFails
  <2> QED BY <2>3
<1>4. ASSUME NEW t \in Callers, Forward(t) \/ ForwardFails(t) PROVE NoticesInv'
  BY <1>2, <1>4, GoneStays DEF Forward, ForwardFails
<1>5. ASSUME Serve, down' = down \o Answer(Head(up)) PROVE NoticesInv'
  <2>1. PICK m \in UpMsg : m = Head(up)
    BY <1>5, Taken DEF Serve
  <2> DEFINE answer == Answer(m)
  <2>2. /\ answer \in Seq(DownMsg)
        /\ \/ answer = <<>>
           \/ Len(answer) = 1 /\ answer[1].type \in Replies
           \/ /\ Len(answer) = 3
              /\ \A n \in 1..3 : answer[n].type \in {"FETCHED", "START", "END"}
    <3>0. answer = Answer(m)
      OBVIOUS
    <3> HIDE DEF answer
    <3>1. CASE m.type = "FETCH"
      <4>1. /\ answer \in Seq(DownMsg) /\ Len(answer) = 3
            /\ answer[1].type = "FETCHED" /\ answer[2].type = "START" /\ answer[3].type = "END"
        BY <3>0, <3>1, Answered
      <4> QED BY <4>1
    <3>2. CASE m.type \in Awaited \ {"FETCH"}
      BY <3>0, <3>2, Answered
    <3>3. CASE m.type \notin Awaited
      BY <3>0, <3>3, Answered
    <3> QED BY <3>1, <3>2, <3>3
  <2>3. down' = down \o answer
    BY <1>5, <2>1
  <2> HIDE DEF answer
  <2>4. \A n \in 1..Len(answer) : answer[n].type \notin Notices
    BY <2>2 DEF Replies, Notices
  <2> QED BY <2>2, <2>3, <2>4, ConcatProperties, LenProperties, GoneStays
<1>6. ASSUME ProviderGone PROVE NoticesInv'
  BY <1>6 DEF ProviderGone
<1> QED BY <1>1, <1>2, <1>3, <1>4, <1>5, <1>6, DownMoves

\* a step that does not touch the messages to the agent
LEMMA DialogueStays ==
  ASSUME TypeOK, HolderInv, CallInv, NoticesInv, Dialogue, Next, down' = down
  PROVE  Dialogue'
<1> USE DEF TypeOK
<1>1. ASSUME NEW n \in 1..Len(down), down[n].type \notin Notices
      PROVE  /\ down[n].by = holder /\ holder' = holder /\ holder \in Threads
             /\ pc[holder] \in {"recv", "forward"}
             /\ pc'[holder] = pc[holder] /\ kind'[holder] = kind[holder]
  <2>1. down # <<>> /\ holder \in Threads /\ down[n].by = holder /\ pc[holder] \in {"recv", "forward"}
    BY <1>1, EmptySeq DEF Dialogue, ReadByHolder
  <2> QED BY <2>1, StillWaits
<1>2. ReadByHolder'
  BY <1>1 DEF ReadByHolder
<1>3. Ordered'
  BY DEF Dialogue, Ordered
<1>4. ASSUME down # <<>>, NEW t \in Threads, holder' = t PROVE Expects(t, down[1].type)'
  <2>0. 1 \in 1..Len(down)
    BY <1>4, Taken
  <2>1. CASE down[1].type \notin Notices
    <3>1. holder = t /\ pc'[t] = pc[t] /\ kind'[t] = kind[t]
      BY <1>1, <1>4, <2>0, <2>1
    <3>2. Expects(t, down[1].type)
      BY <1>4, <3>1 DEF Dialogue, Expected
    <3> QED BY <3>1, <3>2 DEF Expects, Reply, Request
  <2>2. CASE down[1].type \in Notices
    <3>1. CASE pc'[t] = "forward" /\ down[1].type = "REST"
      <4>1. pc[t] = "forward"
        <5>1. pc[t] # "recv"
          BY <1>4, <3>1, StillWaits
        <5>2. ASSUME NEW u \in Callers, CallStep(u), pc[t] # "forward" PROVE FALSE
          BY <3>1, <5>1, <5>2, Labels DEF CallStep, LockProvider, UseFreed, Send, AllocateSendFails,
             ExecuteSendFails, OtherSendFails, Recv, RecvFails, Forward, ForwardFails, StreamOut,
             UnlockProvider, RemoteMap, Crash, At, Goto
        <5>3. ASSUME PingStep, pc[t] # "forward" PROVE FALSE
          BY <3>1, <5>1, <5>3, Labels DEF PingStep, PingWakes, LockProvider, Send, OtherSendFails,
             PingRecv, PingUnlock, PingDestroys, Goto
        <5> QED BY <3>1, <5>2, <5>3 DEF Next, Call, ConsumerGone, Serve, ServeStream, ProviderGone,
               Crash, Goto
      <4>2. holder = t
        BY <4>1 DEF HolderInv, Inside
      <4> QED BY <3>1, <4>1, <4>2, <1>4 DEF Dialogue, Expected, Expects, Streamed
    <3> QED BY <2>2, <3>1 DEF Expects, Notices, Streamed
  <2> QED BY <2>1, <2>2
<1>5. Expected'
  BY <1>4 DEF Expected
<1> QED BY <1>2, <1>3, <1>5 DEF Dialogue

\* a thread reads the head: its own answer, the next piece of its stream, or a notice
LEMMA DialogueRead ==
  ASSUME TypeOK, HolderInv, CallInv, NoticesInv, Dialogue, ~FetchCut, Next
  PROVE  /\ \A t \in Callers : Recv(t) /\ down # <<>> /\ down' = Tail(down)
              /\ down[1] = [type |-> Reply(Request(t)), by |-> t] => Dialogue'
         /\ \A t \in Callers : Forward(t) => Dialogue'
         /\ PingRecv /\ down # <<>> /\ down' = Tail(down) => Dialogue'
<1> USE DEF TypeOK
<1> DEFINE rest == Tail(down)
<1>0. ASSUME down # <<>>, down' = rest, NEW t \in Threads, pc[t] \in {"recv", "forward"},
             holder' = holder, \A u \in Threads : u # t => pc'[u] = pc[u],
             down[1].type \in {"FETCHED", "START"} => pc'[t] = "forward",
             pc'[t] # "recv",
             pc'[t] = "forward" => down[1].type \in {"FETCHED", "START"}
      PROVE  Dialogue'
  <2>1. holder = t
    BY <1>0 DEF HolderInv, Inside
  <2>2. /\ Len(rest) = Len(down) - 1 /\ Len(down) \in Nat
        /\ \A n \in 1..(Len(down) - 1) : rest[n] = down[n + 1]
        /\ rest \in Seq(DownMsg)
    BY <1>0, Taken
  <2>3. /\ \A n \in 1..(Len(rest) - 1) : Follows(rest[n].type, rest[n + 1].type)
        /\ rest # <<>> => Follows(down[1].type, rest[1].type)
        /\ \A n \in 1..Len(rest) : rest[n].type \notin Notices => down[1].type \in {"FETCHED", "START"}
    BY <1>0, Rest DEF Dialogue
  <2> HIDE DEF rest
  <2>4. ReadByHolder'
    <3> SUFFICES ASSUME NEW n \in 1..Len(rest), rest[n].type \notin Notices
                 PROVE  rest[n].by = t /\ pc'[t] = "forward"
      BY <1>0, <2>1 DEF ReadByHolder
    <3>1. n + 1 \in 1..Len(down) /\ rest[n] = down[n + 1]
      BY <2>2
    <3>2. rest[n].by = t
      BY <3>1, <2>1 DEF Dialogue, ReadByHolder
    <3> QED BY <3>2, <2>3, <1>0
  <2>5. Ordered'
    BY <1>0, <2>3 DEF Ordered
  <2>6. Expected'
    <3> SUFFICES ASSUME rest # <<>>, NEW u \in Threads, holder = u, NEW type, type = rest[1].type
                 PROVE  Expects(u, type)'
      BY <1>0 DEF Expected
    <3>1. u = t /\ Follows(down[1].type, type)
      BY <2>1, <2>3
    <3>2. CASE pc'[t] = "forward"
      BY <3>1, <3>2, <1>0 DEF Expects, Follows, Streamed
    <3>3. CASE pc'[t] # "forward"
      BY <3>1, <3>3, <1>0 DEF Expects, Follows, Notices
    <3> QED BY <3>2, <3>3
  <2> QED BY <2>4, <2>5, <2>6 DEF Dialogue
<1>1. ASSUME NEW t \in Callers, Recv(t), down # <<>>, down' = rest,
             down[1] = [type |-> Reply(Request(t)), by |-> t]
      PROVE  Dialogue'
  <2>1. Head(down) = down[1] /\ rest # down
    BY <1>1, Taken
  <2>2. /\ pc[t] = "recv" /\ holder' = holder
        /\ pc' = [pc EXCEPT ![t] = IF kind[t] = "fetch" THEN "forward" ELSE "unlock"]
    BY <1>1, <2>1 DEF Recv, At, Goto, Crash, lockVars
  <2>3. t \in Threads /\ down[1].type = Reply(Request(t))
    BY <1>1 DEF Threads
  <2>4. Reply(Request(t)) # "START" /\ (Reply(Request(t)) = "FETCHED" <=> kind[t] = "fetch")
    BY <2>2, <2>3 DEF CallInv, Request, Reply, AllKinds
  <2> HIDE DEF rest
  <2>5. /\ pc'[t] = IF kind[t] = "fetch" THEN "forward" ELSE "unlock"
        /\ \A u \in Threads : u # t => pc'[u] = pc[u]
    BY <2>2, <2>3
  <2> QED BY <1>0, <1>1, <2>2, <2>3, <2>4, <2>5
<1>2. ASSUME NEW t \in Callers, Forward(t) PROVE Dialogue'
  <2>1. /\ down # <<>> /\ down' = rest /\ pc[t] = "forward" /\ holder' = holder
        /\ Head(down) = down[1] /\ down[1].type \in Streamed /\ t \in Threads
        /\ pc' = [pc EXCEPT ![t] = IF down[1].type = "END" \/ ~alive[t] THEN "unlock" ELSE "forward"]
    BY <1>2, Taken, ZenonT(60) DEF Forward, At, Goto, lockVars, Threads
  <2>2. alive[t]
    BY <2>1 DEF CallInv, FetchCut
  <2> HIDE DEF rest
  <2> QED BY <1>0, <2>1, <2>2 DEF Streamed
<1>3. ASSUME PingRecv, down # <<>>, down' = rest PROVE Dialogue'
  <2>1. /\ pc[Ping] = "recv" /\ holder' = holder /\ pc'[Ping] \in {"unlock", "unlockLast"}
        /\ \A u \in Threads : u # Ping => pc'[u] = pc[u]
        /\ Ping \in Threads
    BY <1>3 DEF PingRecv, At, Goto, lockVars, Threads
  <2>2. holder = Ping
    BY <2>1 DEF HolderInv, Inside
  <2>3. down[1].type \in {"PONG"} \union Notices
    BY <1>3, <2>1, <2>2 DEF Dialogue, Expected, Expects, CallInv, Request, Reply, Notices
  <2> HIDE DEF rest
  <2> QED BY <1>0, <1>3, <2>1, <2>3 DEF Notices
<1> QED BY <1>1, <1>2, <1>3

\* the provider disappears, or a thread finds that it did
LEMMA DialogueLost ==
  ASSUME TypeOK, HolderInv, CallInv, NoticesInv, Dialogue, Next
  PROVE  /\ \A t \in Callers : (RecvFails(t) /\ crash' = "none") \/ ForwardFails(t) => Dialogue'
         /\ ProviderGone => Dialogue'
<1> USE DEF TypeOK
<1>1. ASSUME NEW t \in Callers, RecvFails(t), crash' = "none" PROVE Dialogue'
  <2>1. /\ holder = t /\ holder' = t /\ pc'[t] = "unlock" /\ t \in Threads
        /\ down' \in {<<>>, <<[type |-> "REST", by |-> None]>>}
    <3>1. kind[t] \in {"allocate", "fetch"}
      BY <1>1 DEF RecvFails, Crash
    <3>2. holder = t
      BY <1>1 DEF RecvFails, At, HolderInv, Inside, Threads
    <3> QED BY <1>1, <3>1, <3>2 DEF RecvFails, Goto, Threads, lockVars
  <2>2. CASE down' = <<>>
    BY <2>2 DEF Dialogue, ReadByHolder, Ordered, Expected
  <2>3. CASE down' = <<[type |-> "REST", by |-> None]>>
    <3>1. Len(down') = 1 /\ down'[1].type = "REST"
      BY <2>3
    <3> QED BY <2>1, <3>1 DEF Dialogue, ReadByHolder, Ordered, Expected, Expects, Notices
  <2> QED BY <2>1, <2>2, <2>3
<1>2. ASSUME NEW t \in Callers, ForwardFails(t) PROVE Dialogue'
  BY <1>2 DEF ForwardFails, Dialogue, ReadByHolder, Ordered, Expected
<1>3. ASSUME ProviderGone PROVE Dialogue'
  <2>0. prov # "gone" /\ UNCHANGED <<lockVars, pc, kind>>
    BY <1>3 DEF ProviderGone
  <2> DEFINE notice == [type |-> "SHUTDOWN", by |-> None]
  <2>1. PICK n \in 0..Len(down) : down' = Append(SubSeq(down, 1, n), notice)
    BY <1>3 DEF ProviderGone
  <2> DEFINE kept == SubSeq(down, 1, n)
  <2>2. kept \in Seq(DownMsg) /\ Len(kept) = n /\ \A i \in 1..n : kept[i] = down[i]
    BY SubSeqProperties, ElementOfSeq
  <2>3. notice \in DownMsg /\ notice.type = "SHUTDOWN"
    BY DEF DownMsg
  <2> HIDE DEF notice, kept
  <2>4. /\ Len(down') = n + 1 /\ down'[n + 1] = notice
        /\ \A i \in 1..n : down'[i] = down[i]
    BY <2>1, <2>2, <2>3, Sent DEF kept
  <2>5. \A i \in 1..n : down[i].type \notin Notices
    BY <2>0 DEF NoticesInv
  <2>6. ReadByHolder'
    <3> SUFFICES ASSUME NEW i \in 1..Len(down'), down'[i].type \notin Notices
                 PROVE  /\ holder \in Threads /\ down'[i].by = holder
                        /\ pc[holder] \in {"recv", "forward"}
      BY <2>0 DEF ReadByHolder, lockVars
    <3>1. i \in 1..n
      BY <2>3, <2>4 DEF Notices
    <3>2. i \in 1..Len(down) /\ down'[i] = down[i]
      BY <2>4, <3>1
    <3> QED BY <3>2 DEF Dialogue, ReadByHolder
  <2>7. Ordered'
    <3> SUFFICES ASSUME NEW i \in 1..n PROVE Follows(down'[i].type, down'[i + 1].type)
      BY <2>4 DEF Ordered
    <3>1. CASE i = n
      BY <2>3, <2>4, <2>5, <3>1 DEF Follows
    <3>2. CASE i # n
      <4>1. i \in 1..(Len(down) - 1) /\ down'[i] = down[i] /\ down'[i + 1] = down[i + 1]
        BY <2>4, <3>2
      <4> QED BY <4>1 DEF Ordered, Dialogue
    <3> QED BY <3>1, <3>2
  <2>8. Expected'
    <3>1. CASE n = 0
      BY <2>3, <2>4, <3>1 DEF Expected, Expects
    <3>2. CASE n # 0
      <4>1. down'[1] = down[1] /\ down # <<>>
        BY <2>4, <3>2
      <4> QED BY <2>0, <4>1 DEF Expected, Dialogue, Expects, Request, Reply, lockVars
    <3> QED BY <3>1, <3>2
  <2> QED BY <2>6, <2>7, <2>8 DEF Dialogue
<1> QED BY <1>1, <1>2, <1>3

\* the provider serves a message: a request that waits for an answer was the only one
LEMMA DialogueAnswered ==
  ASSUME TypeOK, HolderInv, CallInv, NoticesInv, UpInv, Dialogue, ~FetchCut, Next,
         Serve, down' = down \o Answer(Head(up))
  PROVE  Dialogue'
<1> USE DEF TypeOK
<1>1. PICK m \in UpMsg : m = Head(up) /\ m = up[1] /\ 1 \in 1..Len(up)
  BY Taken DEF Serve
<1> DEFINE answer == Answer(m)
<1>2. answer \in Seq(DownMsg)
  BY Answered
<1>3. CASE m.type \notin Awaited
  <2>1. answer = <<>>
    BY <1>3, Answered
  <2> HIDE DEF answer
  <2>2. down' = down
    BY <1>1, <2>1, ConcatEmptySeq DEF answer
  <2> QED BY <2>2, DialogueStays
<1>4. CASE m.type \in Awaited
  <2>1. /\ m.by = holder /\ pc[m.by] = "recv" /\ m.type = Request(m.by) /\ down = <<>>
    BY <1>1, <1>4 DEF UpInv, Pending
  <2>2. holder \in Threads
    BY <2>1 DEF UpMsg
  <2> HIDE DEF answer
  <2>3. down' = answer
    BY <1>1, <1>2, <2>1, ConcatEmptySeq DEF answer
  <2>4. UNCHANGED <<pc, kind, holder>>
    BY DEF Serve, lockVars, Crash
  <2>5. /\ \/ Len(answer) = 1
           \/ Len(answer) = 3 /\ answer[1].type = "FETCHED" /\ answer[2].type = "START" /\ answer[3].type = "END"
        /\ answer[1].type = Reply(Request(holder))
        /\ \A n \in 1..Len(answer) : answer[n].by = holder
    <3>1. CASE m.type = "FETCH"
      <4>1. /\ Len(answer) = 3 /\ answer[1].type = "FETCHED" /\ answer[2].type = "START"
            /\ answer[3].type = "END"
            /\ answer[1].by = holder /\ answer[2].by = holder /\ answer[3].by = holder
        BY <2>1, <3>1, Answered DEF answer
      <4> QED BY <2>1, <3>1, <4>1 DEF Reply
    <3>2. CASE m.type \in Awaited \ {"FETCH"}
      BY <2>1, <3>2, Answered DEF answer
    <3> QED BY <1>4, <3>1, <3>2
  <2>6. ReadByHolder'
    BY <2>1, <2>2, <2>3, <2>4, <2>5 DEF ReadByHolder
  <2>7. Ordered'
    <3> SUFFICES ASSUME NEW n \in 1..(Len(answer) - 1)
                 PROVE  Follows(answer[n].type, answer[n + 1].type)
      BY <2>3 DEF Ordered
    <3>1. (n = 1 \/ n = 2) /\ Len(answer) = 3
      <4>1. Len(answer) = 1 \/ Len(answer) = 3
        BY <2>5
      <4>2. CASE Len(answer) = 1
        BY <4>2
      <4>3. CASE Len(answer) = 3
        BY <4>3
      <4> QED BY <4>1, <4>2, <4>3
    <3> QED BY <2>5, <3>1 DEF Follows
  <2>8. Expected'
    BY <2>1, <2>3, <2>4, <2>5 DEF Expected, Expects, Request, Reply
  <2> QED BY <2>6, <2>7, <2>8 DEF Dialogue
<1> QED BY <1>3, <1>4

\* what is on its way to the agent belongs to the holder, in order
LEMMA DownStep == ASSUME TypeOK, HolderInv, CallInv, UpInv, DownInv, Next PROVE DownInv'
<1>1. NoticesInv'
  BY NoticesStep DEF DownInv
<1>2. ASSUME ~FetchCut' PROVE Dialogue'
  <2>1. ~FetchCut /\ Dialogue /\ NoticesInv
    BY <1>2, CutsStay DEF DownInv, Dialogue
  <2> QED BY <2>1, DownMoves, DialogueStays, DialogueRead, DialogueLost, DialogueAnswered
<1> QED BY <1>1, <1>2 DEF DownInv, Dialogue

\* at most one request on its way to the provider waits for an answer, and it is the holder's
LEMMA UpStep == ASSUME TypeOK, HolderInv, CallInv, DownInv, UpInv, Next PROVE UpInv'
<1> USE DEF TypeOK
<1>1. prov' = "gone" => up' = <<>>
  <2>1. CASE prov = "gone"
    BY <2>1, GoneStays DEF UpInv
  <2>2. CASE prov # "gone"
    BY <2>2 DEF Next, CallStep, LockProvider, UseFreed, Send, AllocateSendFails,
       ExecuteSendFails,
       OtherSendFails, Recv, RecvFails, Forward, ForwardFails, StreamOut, UnlockProvider,
       RemoteMap,
       ConsumerGone, Call, PingStep, PingWakes, PingRecv, PingUnlock, PingDestroys, Serve,
       ServeStream, ProviderGone, Crash
  <2> QED BY <2>1, <2>2
<1>2. ASSUME ~FetchCut' PROVE \A n \in 1..Len(up') : up'[n].type \in Awaited => Pending(n)'
  <2>0. ~FetchCut /\ ReadByHolder /\ NoticesInv
    BY <1>2, CutsStay DEF DownInv, Dialogue
  <2>1. ASSUME NEW n \in 1..Len(up), up[n].type \in Awaited
        PROVE  /\ Pending(n) /\ prov # "gone" /\ holder \in Threads
               /\ (Pending(n)' \/ down' # down \/ up' # up)
    <3>1. Pending(n) /\ prov # "gone"
      BY <2>0, <2>1 DEF UpInv
    <3>2. holder \in Threads
      <4>1. up[n] \in UpMsg
        BY ElementOfSeq
      <4> QED BY <3>1, <4>1 DEF Pending, UpMsg
    <3>3. down' = down => pc'[holder] = "recv" /\ kind'[holder] = kind[holder] /\ holder' = holder
      BY <3>1, <3>2, StillWaits DEF Pending
    <3> QED BY <3>1, <3>2, <3>3 DEF Pending, Request
  <2>2. ASSUME NEW n \in 1..Len(up), up[n].type \in Awaited
        PROVE  down' = down \/ (Serve /\ up' = Tail(up)) \/ ProviderGone
    <3>1. down = <<>> /\ prov # "gone"
      BY <2>1, <2>2 DEF Pending
    <3> QED BY <3>1, DownMoves DEF RecvFails, Forward, ForwardFails, Serve, Crash
  <2>3. CASE up' = up
    <3> SUFFICES ASSUME NEW n \in 1..Len(up), up[n].type \in Awaited PROVE Pending(n)'
      BY <2>3
    <3>1. up # <<>> /\ Tail(up) # up
      BY Taken
    <3>2. down' = down
      BY <2>2, <2>3, <3>1 DEF ProviderGone
    <3> QED BY <2>1, <2>3, <3>2
  <2>4. CASE up # <<>> /\ up' = Tail(up) /\ (Serve \/ ServeStream)
    <3> SUFFICES ASSUME NEW n \in 1..Len(up'), up'[n].type \in Awaited PROVE Pending(n)'
      OBVIOUS
    <3>1. /\ Len(up) \in Nat /\ Len(up') = Len(up) - 1 /\ Head(up) = up[1] /\ Head(up) \in UpMsg
          /\ \A k \in 1..(Len(up) - 1) : up'[k] = up[k + 1]
      BY <2>4, Taken
    <3>2. /\ n + 1 \in 1..Len(up) /\ up[n + 1].type \in Awaited /\ up'[n] = up[n + 1]
          /\ 1 \in 1..Len(up) /\ n + 1 # 1
      BY <3>1
    <3>3. Pending(n + 1) /\ prov # "gone" /\ holder \in Threads
      BY <2>1, <3>2
    <3>4. Head(up).type \notin Awaited
      BY <3>1, <3>2, <3>3 DEF Pending
    <3>5. down' = down /\ UNCHANGED <<holder, pc, kind>>
      <4>1. Answer(Head(up)) = <<>> /\ down \o <<>> = down
        BY <3>1, <3>4, Answered, ConcatEmptySeq
      <4> QED BY <2>4, <4>1 DEF Serve, ServeStream, Crash, lockVars
    <3>6. \A m \in 1..Len(up') : up'[m].type \in Awaited => m = n
      <4> TAKE m \in 1..Len(up')
      <4>1. m + 1 \in 1..Len(up) /\ up'[m] = up[m + 1]
        BY <3>1
      <4>2. up[m + 1].type \in Awaited => m + 1 = n + 1
        BY <3>3, <4>1 DEF Pending
      <4> QED BY <4>1, <4>2
    <3> QED BY <3>2, <3>3, <3>5, <3>6 DEF Pending, Request
  <2>5. CASE up' = <<>>
    BY <2>5
  <2>6. ASSUME NEW t \in Threads, Send(t), NEW m \in UpMsg, up' = Append(up, m),
               m.type = Request(t), m.by = t
        PROVE  \A n \in 1..Len(up') : up'[n].type \in Awaited => Pending(n)'
    <3>1. pc[t] = "send" /\ prov # "gone" /\ UNCHANGED <<holder, kind, down>>
          /\ pc' = [pc EXCEPT ![t] = AfterSend(t)]
      BY <2>6 DEF Send, At, Goto, lockVars
    <3>2. holder = t
      BY <3>1 DEF HolderInv, Inside
    <3>3. down = <<>>
      BY <2>0, <3>1, <3>2, Taken DEF ReadByHolder, NoticesInv
    <3>4. \A n \in 1..Len(up) : up[n].type \notin Awaited
      BY <2>1, <3>1, <3>2 DEF Pending
    <3>5. /\ Len(up') = Len(up) + 1 /\ Len(up) \in Nat /\ up'[Len(up) + 1] = m
          /\ \A n \in 1..Len(up) : up'[n] = up[n]
      BY <2>6, Sent
    <3>6. Request(t) \in Awaited => AfterSend(t) = "recv"
      BY DEF Request, AfterSend, Awaited, AllKinds
    <3>7. Request(holder)' = Request(t)
      BY <3>1, <3>2 DEF Request
    <3> SUFFICES ASSUME NEW n \in 1..Len(up'), up'[n].type \in Awaited PROVE Pending(n)'
      OBVIOUS
    <3>8. n = Len(up) + 1 /\ up'[n] = m
      BY <3>4, <3>5
    <3>9. pc'[holder'] = "recv"
      BY <2>6, <3>1, <3>2, <3>6, <3>8
    <3>10. \A k \in 1..Len(up') : up'[k].type \in Awaited => k = n
      BY <3>4, <3>5, <3>8
    <3> QED BY <2>6, <3>1, <3>2, <3>3, <3>7, <3>8, <3>9, <3>10 DEF Pending
  <2>7. ASSUME NEW t \in Callers, StreamOut(t) \/ RemoteMap(t), NEW m \in UpMsg, up' = Append(up, m),
               m.type \notin Awaited
        PROVE  \A n \in 1..Len(up') : up'[n].type \in Awaited => Pending(n)'
    <3>1. /\ UNCHANGED <<holder, kind, down>>
          /\ pc[t] \in {"stream", "streamEnd", "map"}
          /\ \A u \in Threads : u # t => pc'[u] = pc[u]
      BY <2>7 DEF StreamOut, RemoteMap, Goto, At, lockVars
    <3>5. /\ Len(up') = Len(up) + 1 /\ Len(up) \in Nat /\ up'[Len(up) + 1] = m
          /\ \A n \in 1..Len(up) : up'[n] = up[n]
      BY <2>7, Sent
    <3> SUFFICES ASSUME NEW n \in 1..Len(up'), up'[n].type \in Awaited PROVE Pending(n)'
      OBVIOUS
    <3>6. n \in 1..Len(up) /\ up'[n] = up[n]
      BY <2>7, <3>5
    <3>7. Pending(n) /\ holder \in Threads
      BY <2>1, <3>6
    <3>8. pc'[holder] = "recv"
      BY <3>1, <3>7 DEF Pending
    <3>9. \A k \in 1..Len(up') : up'[k].type \in Awaited => k = n
      BY <2>7, <3>5, <3>7 DEF Pending
    <3> QED BY <3>1, <3>6, <3>7, <3>8, <3>9 DEF Pending, Request
  <2>8. ASSUME NEW t \in Threads
        PROVE  LET m == [type |-> Request(t), by |-> t, uses |-> t # Ping /\ has[t]]
               IN  m \in UpMsg /\ m.type = Request(t) /\ m.by = t
    BY Labels DEF UpMsg, Threads
  <2>9. ASSUME NEW t \in Callers, NEW type \in {"START", "END", "MAPPING"}
        PROVE  LET m == [type |-> type, by |-> t, uses |-> FALSE]
               IN  m \in UpMsg /\ m.type \notin Awaited
    BY DEF UpMsg, Threads, Streamed, Awaited
  <2> QED BY UpMoves, <2>3, <2>4, <2>5, <2>6, <2>7, <2>8, <2>9, ZenonT(60)
<1> QED BY <1>1, <1>2 DEF UpInv

\* a thread in a stream sends the rest of it, unless one of the two ends is gone
LEMMA StreamsOn ==
  ASSUME TypeOK, CallInv, Next, prov' # "gone", ~MemputCut, NEW t \in Callers, Streams(t)
  PROVE  Streams(t)' \/ (StreamOut(t) /\ pc[t] = "streamEnd" /\ alive[t] /\ prov # "gone")
<1> USE ProviderChannelAssumption DEF TypeOK, Streams, At, Goto, Threads
<1>1. alive[t] /\ prov # "gone"
  BY GoneStays DEF MemputCut, CallInv
<1>2. ASSUME NEW u \in Callers, CallStep(u), u # t PROVE pc'[t] = pc[t]
  BY <1>2 DEF CallStep, LockProvider, UseFreed, Send, AllocateSendFails, ExecuteSendFails,
     OtherSendFails, Recv, RecvFails, Forward, ForwardFails, StreamOut, UnlockProvider,
     RemoteMap, Crash
<1>3. ASSUME CallStep(t) PROVE StreamOut(t)
  BY <1>3 DEF CallStep, LockProvider, UseFreed, Send, AllocateSendFails, ExecuteSendFails,
     OtherSendFails, Recv, RecvFails, Forward, ForwardFails, UnlockProvider, RemoteMap
<1>4. ASSUME StreamOut(t), pc[t] = "stream" PROVE pc'[t] = "streamEnd"
  BY <1>1, <1>4 DEF StreamOut
<1>5. ASSUME NEW u \in Callers, NEW k \in Kinds, Call(u, k) PROVE pc'[t] = pc[t]
  BY <1>5 DEF Call
<1>6. ASSUME PingStep PROVE pc'[t] = pc[t]
  BY <1>6 DEF PingStep, PingWakes, LockProvider, Send, OtherSendFails, PingRecv, PingUnlock,
     PingDestroys
<1>7. ASSUME NEW u \in Callers, ConsumerGone(u) PROVE pc'[t] = pc[t]
  BY <1>7 DEF ConsumerGone
<1>8. ASSUME Serve \/ ServeStream \/ ProviderGone PROVE pc'[t] = pc[t]
  BY <1>8 DEF Serve, ServeStream, ProviderGone, Crash
<1> QED BY <1>1, <1>2, <1>3, <1>4, <1>5, <1>6, <1>7, <1>8 DEF Next

\* behind every MEMPUT comes the rest of its stream before the next request
LEMMA StreamStep == ASSUME TypeOK, HolderInv, CallInv, StreamInv, Next PROVE StreamInv'
<1> USE DEF TypeOK
<1> SUFFICES ASSUME prov' # "gone", ~MemputCut', NEW m \in 0..Len(up'), OpenAt(m)' PROVE Closed(m)'
  BY DEF StreamInv
<1>1. prov # "gone" /\ ~MemputCut
  BY ProvMoves, CutsStay
<1>2. ASSUME NEW i \in 0..Len(up), OpenAt(i) PROVE Closed(i)
  BY <1>1, <1>2 DEF StreamInv
<1>3. CASE up' = up
  <2>1. OpenAt(m) /\ m \in 0..Len(up)
    BY <1>3, ProvMoves DEF OpenAt
  <2>2. Closed(m)
    BY <1>2, <2>1
  <2>3. (\A t \in Callers : ~Streams(t)') => \A t \in Callers : ~Streams(t)
    <3>1. ASSUME NEW t \in Callers, StreamOut(t), alive[t] PROVE FALSE
      <4>1. PICK e \in UpMsg : up' = Append(up, e)
        BY <3>1, <1>1 DEF StreamOut, Put, UpMsg, Threads, Streamed
      <4> QED BY <1>3, <4>1, Sent
    <3> QED BY <3>1, StreamsOn, <1>1
  <2> QED BY <1>3, <2>2, <2>3 DEF Closed, EndBetween
<1>4. ASSUME NEW e \in UpMsg, up' = Append(up, e), prov' = prov,
             \* what comes behind an open stream
             e.type \in Streamed \union {"MAPPING"} \/ \A t \in Callers : ~Streams(t),
             e.type = "MEMPUT" => \E t \in Callers : Streams(t)',
             e.type = "END" \/ ((\A t \in Callers : ~Streams(t)') => \A t \in Callers : ~Streams(t))
      PROVE  Closed(m)'
  <2>1. /\ Len(up') = Len(up) + 1 /\ Len(up) \in Nat /\ up'[Len(up) + 1] = e
        /\ \A n \in 1..Len(up) : up'[n] = up[n]
    BY <1>4, Sent
  <2>2. CASE m = Len(up) + 1
    <3>1. e.type = "MEMPUT"
      BY <2>1, <2>2 DEF OpenAt
    <3> QED BY <1>4, <2>1, <2>2, <3>1 DEF Closed
  <2>3. CASE m # Len(up) + 1
    <3>1. m \in 0..Len(up) /\ OpenAt(m)
      BY <1>4, <2>1, <2>3 DEF OpenAt
    <3>2. Closed(m)
      BY <1>2, <3>1
    <3>3. ASSUME NEW n \in Nat, EndBetween(m, n) PROVE EndBetween(m, n)'
      BY <2>1, <3>3 DEF EndBetween
    <3>4. ASSUME NEW n \in 1..Len(up'), m < n, up'[n].type \notin Streamed \union {"MAPPING"}
          PROVE  EndBetween(m, n)'
      <4>1. CASE n \in 1..Len(up)
        BY <2>1, <3>2, <3>3, <3>4, <4>1 DEF Closed
      <4>2. CASE n = Len(up) + 1
        BY <1>4, <2>1, <3>2, <3>3, <3>4, <4>2 DEF Closed
      <4> QED BY <2>1, <4>1, <4>2
    <3>5. ASSUME \A t \in Callers : ~Streams(t)', NEW n \in Nat, n = Len(up') + 1
          PROVE  EndBetween(m, n)'
      <4>1. CASE e.type = "END"
        BY <2>1, <3>1, <3>5, <4>1 DEF EndBetween
      <4>2. CASE e.type # "END"
        <5>1. EndBetween(m, Len(up) + 1)
          BY <1>4, <3>2, <3>5, <4>2 DEF Closed
        <5> QED BY <5>1, <2>1, <3>5 DEF EndBetween
      <4> QED BY <4>1, <4>2
    <3>6. Len(up') + 1 \in Nat
      BY <2>1
    <3> QED BY <3>4, <3>5, <3>6 DEF Closed
  <2> QED BY <2>2, <2>3
<1>5. CASE up # <<>> /\ up' = Tail(up) /\ (Serve \/ ServeStream)
  <2>1. /\ Len(up) \in Nat /\ Len(up') = Len(up) - 1 /\ Head(up) = up[1]
        /\ \A k \in 1..(Len(up) - 1) : up'[k] = up[k + 1]
    BY <1>5, Taken
  <2>2. UNCHANGED pc /\ \A t \in Callers : Streams(t)' <=> Streams(t)
    BY <1>5 DEF Serve, ServeStream, Crash, Streams
  <2>3. PICK i \in 0..Len(up) : OpenAt(i) /\ (i = m + 1 \/ (i = m /\ i = 0 /\ up[1].type # "END"))
    <3>0. up' # up
      BY <2>1
    <3>1. CASE m # 0
      <4>1. m \in 1..Len(up') /\ up'[m].type = "MEMPUT"
        BY <3>1 DEF OpenAt
      <4>2. m + 1 \in 1..Len(up) /\ up[m + 1].type = "MEMPUT"
        BY <2>1, <4>1
      <4> QED BY <4>2 DEF OpenAt
    <3>2. CASE m = 0 /\ Serve
      <4>1. up[1].type = "MEMPUT"
        BY <1>5, <2>1, <3>2 DEF OpenAt, Serve, Crash
      <4> QED BY <2>1, <3>2, <4>1, <1>5 DEF OpenAt
    <3>3. CASE m = 0 /\ ServeStream
      <4>1. prov = "stream" /\ up[1].type # "END"
        <5>1. prov' = "stream"
          BY <3>3 DEF OpenAt
        <5> QED BY <2>1, <3>0, <3>3, <5>1 DEF ServeStream, Crash
      <4> QED BY <2>1, <3>3, <4>1 DEF OpenAt
    <3> QED BY <1>5, <3>1, <3>2, <3>3
  <2>4. Closed(i)
    BY <1>2, <2>3
  <2>5. ASSUME NEW n \in Nat, EndBetween(i, n + 1) PROVE EndBetween(m, n)'
    <3>1. PICK k \in 1..Len(up) : i < k /\ k < n + 1 /\ up[k].type = "END"
      BY <2>5 DEF EndBetween
    <3>2. k - 1 \in 1..Len(up') /\ m < k - 1 /\ k - 1 < n /\ up'[k - 1] = up[k]
      BY <2>1, <2>3, <3>1
    <3> QED BY <3>1, <3>2 DEF EndBetween
  <2>6. ASSUME NEW n \in 1..Len(up'), m < n, up'[n].type \notin Streamed \union {"MAPPING"}
        PROVE  EndBetween(m, n)'
    <3>1. n + 1 \in 1..Len(up) /\ i < n + 1 /\ up'[n] = up[n + 1]
      BY <2>1, <2>3, <2>6
    <3> QED BY <2>4, <2>5, <2>6, <3>1 DEF Closed
  <2>7. ASSUME \A t \in Callers : ~Streams(t)', NEW n \in Nat, n = Len(up') + 1
        PROVE  EndBetween(m, n)'
    BY <2>1, <2>2, <2>4, <2>5, <2>7 DEF Closed
  <2>8. Len(up') + 1 \in Nat
    BY <2>1
  <2> QED BY <2>6, <2>7, <2>8 DEF Closed
<1>6. ASSUME NEW t \in Threads, Send(t), NEW e \in UpMsg, up' = Append(up, e), e.type = Request(t)
      PROVE  Closed(m)'
  <2>1. pc[t] = "send" /\ pc' = [pc EXCEPT ![t] = AfterSend(t)] /\ prov' = prov
    BY <1>6 DEF Send, At, Goto
  <2>2. \A u \in Callers : ~Streams(u)
    BY <2>1 DEF HolderInv, Inside, Streams, Threads
  <2>3. e.type = "MEMPUT" => t \in Callers /\ Streams(t)'
    BY <1>6, <2>1 DEF Request, AfterSend, CallInv, Threads, Streams, AllKinds
  <2> QED BY <1>4, <1>6, <2>1, <2>2, <2>3
<1>7. ASSUME NEW t \in Callers, StreamOut(t), alive[t], prov # "gone", NEW e \in UpMsg, up' = Append(up, e),
             e.type = IF pc[t] = "stream" THEN "START" ELSE "END"
      PROVE  Closed(m)'
  <2>1. prov' = prov /\ pc[t] \in {"stream", "streamEnd"}
    BY <1>7 DEF StreamOut
  <2>2. e.type = "END" \/ Streams(t)'
    BY <1>7 DEF StreamOut, Goto, Streams, Threads
  <2> QED BY <1>4, <1>7, <2>1, <2>2 DEF Streamed
<1>8. ASSUME NEW t \in Callers, RemoteMap(t), NEW e \in UpMsg, up' = Append(up, e), e.type = "MAPPING"
      PROVE  Closed(m)'
  <2>1. prov' = prov /\ pc[t] = "map" /\ \A u \in Callers : u # t => pc'[u] = pc[u]
    BY <1>8 DEF RemoteMap, At, Goto
  <2> QED BY <1>4, <1>8, <2>1 DEF Streams
<1>9. ASSUME NEW t \in Threads
      PROVE  LET e == [type |-> Request(t), by |-> t, uses |-> t # Ping /\ has[t]]
             IN  e \in UpMsg /\ e.type = Request(t)
  BY Labels DEF UpMsg, Threads
<1>10. ASSUME NEW t \in Callers, NEW type \in {"START", "END", "MAPPING"}
       PROVE  LET e == [type |-> type, by |-> t, uses |-> FALSE]
              IN  e \in UpMsg /\ e.type = type
  BY DEF UpMsg, Threads, Streamed
<1>11. ~ProviderGone
  BY DEF ProviderGone
<1> QED BY UpMoves, <1>3, <1>5, <1>6, <1>7, <1>8, <1>9, <1>10, <1>11

\* provider->id_map only grows, and only by what the provider serves
LEMMA MappedGrows ==
  ASSUME TypeOK, Mappers, Next
  PROVE  /\ mapped \subseteq mapped'
         /\ up # <<>> /\ up' = Tail(up) /\ Serve /\ Maps(up[1]) => up[1].by \in mapped'
<1>1. ASSUME Serve PROVE mapped \subseteq mapped'
  BY <1>1 DEF Serve, Crash
<1>2. ASSUME up # <<>>, up' = Tail(up), Serve, Maps(up[1]) PROVE up[1].by \in mapped'
  BY <1>2, Taken DEF Serve, Crash, TypeOK
<1> QED BY <1>1, <1>2 DEF Next, CallStep, LockProvider, UseFreed, Send, AllocateSendFails,
           ExecuteSendFails,
       OtherSendFails, Recv, RecvFails, Forward, ForwardFails, StreamOut, UnlockProvider,
       RemoteMap,
       ConsumerGone, Call, PingStep, PingWakes, PingRecv, PingUnlock, PingDestroys, ServeStream,
       ProviderGone, Crash

\* a MAPPEDAT says that the provider has the mapping
LEMMA AnsweredMappedStep ==
  ASSUME TypeOK, Mappers, AnsweredMapped, Next
  PROVE  AnsweredMapped'
<1> USE DEF TypeOK
<1>0. mapped \subseteq mapped'
  BY MappedGrows
<1> USE DEF AnsweredMapped
<1>1. CASE down' = down
  BY <1>0, <1>1
<1>2. CASE down # <<>> /\ down' = Tail(down)
  BY <1>0, <1>2, Taken
<1>3. ASSUME NEW t \in Callers, RecvFails(t), crash' = "none" PROVE AnsweredMapped'
  <2>1. down' \in {<<>>, <<[type |-> "REST", by |-> None]>>}
    BY <1>3 DEF RecvFails, Crash
  <2>2. CASE down' = <<>>
    BY <2>2
  <2>3. CASE down' = <<[type |-> "REST", by |-> None]>>
    <3>1. Len(down') = 1 /\ down'[1].type = "REST"
      BY <2>3
    <3> QED BY <3>1
  <2> QED BY <2>1, <2>2, <2>3
<1>4. ASSUME NEW t \in Callers, Forward(t) \/ ForwardFails(t) PROVE AnsweredMapped'
  BY <1>2, <1>4 DEF Forward, ForwardFails
<1>5. ASSUME Serve, down' = down \o Answer(Head(up)), down' # down PROVE AnsweredMapped'
  <2>1. PICK m \in UpMsg : m = Head(up) /\ m = up[1] /\ up # <<>>
    BY <1>5, Taken DEF Serve
  <2> DEFINE answer == Answer(m)
  <2>2. answer \in Seq(DownMsg) /\ down' = down \o answer
    BY <1>5, <2>1, Answered
  <2>3. up' = Tail(up)
    BY <1>5 DEF Serve, Crash
  <2>4. \A n \in 1..Len(answer) : answer[n].type = "MAPPEDAT" => answer[n].by \in mapped'
    <3>0. answer = Answer(m)
      OBVIOUS
    <3> HIDE DEF answer
    <3>1. CASE m.type = "FETCH"
      <4>1. /\ Len(answer) = 3
            /\ answer[1].type = "FETCHED" /\ answer[2].type = "START" /\ answer[3].type = "END"
        BY <3>0, <3>1, Answered
      <4> QED BY <4>1
    <3>2. CASE m.type \in Awaited \ {"FETCH"}
      <4>1. Len(answer) = 1 /\ answer[1].type = Reply(m.type) /\ answer[1].by = m.by
        BY <3>0, <3>2, Answered
      <4>2. Reply(m.type) = "MAPPEDAT" => m.type = "MAPATPTR"
        BY <3>2 DEF Reply, Awaited
      <4>3. Maps(m) => m.by \in mapped'
        BY <2>1, <2>3, <1>5, MappedGrows
      <4> QED BY <4>1, <4>2, <4>3 DEF Maps
    <3>3. CASE m.type \notin Awaited
      BY <3>0, <3>3, Answered
    <3> QED BY <3>1, <3>2, <3>3
  <2> HIDE DEF answer
  <2>5. /\ Len(down') = Len(down) + Len(answer) /\ Len(down) \in Nat /\ Len(answer) \in Nat
        /\ \A n \in 1..(Len(down) + Len(answer)) :
             down'[n] = IF n <= Len(down) THEN down[n] ELSE answer[n - Len(down)]
    BY <2>2, ConcatProperties, LenProperties
  <2> SUFFICES ASSUME NEW n \in 1..Len(down'), down'[n].type = "MAPPEDAT" PROVE down'[n].by \in mapped'
    OBVIOUS
  <2>6. CASE n <= Len(down)
    BY <1>0, <2>5, <2>6
  <2>7. CASE n > Len(down)
    <3>1. n - Len(down) \in 1..Len(answer) /\ down'[n] = answer[n - Len(down)]
      BY <2>5, <2>7
    <3> QED BY <2>4, <3>1
  <2> QED BY <2>5, <2>6, <2>7
<1>6. ASSUME ProviderGone PROVE AnsweredMapped'
  <2> DEFINE notice == [type |-> "SHUTDOWN", by |-> None]
  <2>1. PICK n \in 0..Len(down) : down' = Append(SubSeq(down, 1, n), notice)
    BY <1>6 DEF ProviderGone
  <2> DEFINE kept == SubSeq(down, 1, n)
  <2>2. kept \in Seq(DownMsg) /\ Len(kept) = n /\ \A i \in 1..n : kept[i] = down[i]
    BY SubSeqProperties, ElementOfSeq
  <2>3. notice \in DownMsg /\ notice.type = "SHUTDOWN"
    BY DEF DownMsg
  <2> HIDE DEF notice, kept
  <2>4. /\ Len(down') = n + 1 /\ down'[n + 1] = notice
        /\ \A i \in 1..n : down'[i] = down[i]
    BY <2>1, <2>2, <2>3, Sent DEF kept
  <2> QED BY <1>0, <2>3, <2>4
<1> QED BY <1>1, <1>2, <1>3, <1>4, <1>5, <1>6, DownMoves

\* an object has its mapping, or it is before everything sent from now on
LEMMA HasMoves ==
  ASSUME TypeOK, CallInv, AnsweredMapped, Next, NEW t \in Callers, has'[t]
  PROVE  has[t] \/ t \in mapped \/ RemoteMap(t)
<1> USE DEF TypeOK
<1>1. ASSUME NEW u \in Callers, Recv(u) PROVE has[t] \/ t \in mapped
  <2>1. CASE has' = has
    BY <2>1
  <2>2. CASE has' # has
    <3>1. /\ down # <<>> /\ Head(down) = [type |-> Reply(Request(u)), by |-> u]
          /\ has' = [has EXCEPT ![u] = @ \/ kind[u] = "mapatptr"]
      BY <1>1, <2>2 DEF Recv, Crash
    <3>2. kind[u] = "mapatptr" => u \in mapped
      <4>1. Head(down) = down[1] /\ 1 \in 1..Len(down)
        BY <3>1, Taken
      <4>2. Head(down).type = Reply(Request(u)) /\ Head(down).by = u
        BY <3>1
      <4> QED BY <4>1, <4>2 DEF AnsweredMapped, Reply, Request
    <3> QED BY <3>1, <3>2
  <2> QED BY <2>1, <2>2
<1>2. ASSUME NEW u \in Callers, RemoteMap(u) PROVE has[t] \/ RemoteMap(t)
  BY <1>2 DEF RemoteMap
<1> QED BY <1>1, <1>2 DEF Next, CallStep, LockProvider, UseFreed, Send, AllocateSendFails,
           ExecuteSendFails,
       OtherSendFails, RecvFails, Forward, ForwardFails, StreamOut, UnlockProvider,
       ConsumerGone, Call, PingStep, PingWakes, PingRecv, PingUnlock, PingDestroys, Serve,
       ServeStream,
       ProviderGone, Crash

\* a mapping is before the uses of its object, and what is served leaves the order alone
LEMMA MappedStep ==
  ASSUME TypeOK, CallInv, Mappers, AnsweredMapped, UsesMapped, HasMapped, Next, prov' # "gone"
  PROVE  UsesMapped' /\ HasMapped'
<1> USE DEF TypeOK
<1>0. mapped \subseteq mapped' /\ ~ProviderGone
  BY MappedGrows DEF ProviderGone
<1>1. \A t \in Callers : RemoteMap(t) =>
        pc[t] = "map" /\ pc'[t] = "idle" /\ \A u \in Threads : u # t => pc'[u] = pc[u]
  BY DEF RemoteMap, At, Goto, Threads
<1>2. ASSUME NEW t \in Callers, has'[t] PROVE MappedBefore(t, Len(up) + 1) \/ RemoteMap(t)
  BY <1>2, HasMoves DEF HasMapped, MappedBefore
<1>3. CASE up' = up
  <2>1. ASSUME NEW t, NEW n, MappedBefore(t, n) PROVE MappedBefore(t, n)'
    BY <1>0, <1>3, <2>1 DEF MappedBefore
  <2>2. ASSUME NEW t \in Callers, RemoteMap(t) PROVE FALSE
    <3>1. PICK m \in UpMsg : up' = Append(up, m)
      BY <2>2, ProvMoves DEF RemoteMap, Put, UpMsg, Threads
    <3> QED BY <1>3, <3>1, Sent
  <2>3. UsesMapped'
    BY <1>3, <2>1 DEF UsesMapped
  <2>4. HasMapped'
    BY <1>2, <1>3, <2>1, <2>2 DEF HasMapped
  <2> QED BY <2>3, <2>4
<1>4. CASE up # <<>> /\ up' = Tail(up) /\ (Serve \/ ServeStream)
  <2>1. /\ Len(up) \in Nat /\ Len(up') = Len(up) - 1 /\ Head(up) = up[1]
        /\ \A k \in 1..(Len(up) - 1) : up'[k] = up[k + 1]
        /\ up' # up
    BY <1>4, Taken
  <2>2. Maps(up[1]) => up[1].by \in mapped'
    <3>1. CASE Serve
      BY <1>4, <3>1, MappedGrows
    <3>2. CASE ServeStream
      BY <2>1, <3>2 DEF ServeStream, Crash, Maps, Streamed
    <3> QED BY <1>4, <3>1, <3>2
  <2>3. ASSUME NEW t, NEW n \in Nat, MappedBefore(t, n + 1) PROVE MappedBefore(t, n)'
    <3>1. CASE t \in mapped
      BY <1>0, <3>1 DEF MappedBefore
    <3>2. CASE t \notin mapped
      <4>1. PICK k \in 1..Len(up) : k < n + 1 /\ up[k].by = t /\ Maps(up[k])
        BY <2>3, <3>2 DEF MappedBefore
      <4>2. CASE k = 1
        BY <2>2, <4>1, <4>2 DEF MappedBefore
      <4>3. CASE k # 1
        <5>1. k - 1 \in 1..Len(up') /\ k - 1 < n /\ up'[k - 1] = up[k]
          BY <2>1, <4>1, <4>3
        <5> QED BY <4>1, <5>1 DEF MappedBefore
      <4> QED BY <4>2, <4>3
    <3> QED BY <3>1, <3>2
  <2>4. UsesMapped'
    <3> SUFFICES ASSUME NEW n \in 1..Len(up'), up'[n].uses, NEW t, t = up'[n].by
                 PROVE  MappedBefore(t, n)'
      BY DEF UsesMapped
    <3>1. n + 1 \in 1..Len(up) /\ up'[n] = up[n + 1]
      BY <2>1
    <3> QED BY <2>3, <3>1, SMTT(60) DEF UsesMapped
  <2>5. HasMapped'
    <3> SUFFICES ASSUME NEW t \in Callers, has'[t], NEW n, n = Len(up') + 1 PROVE MappedBefore(t, n)'
      BY DEF HasMapped
    <3>1. ~RemoteMap(t)
      BY <1>4, <1>1 DEF Serve, ServeStream, Crash
    <3>2. n \in Nat /\ n + 1 = Len(up) + 1
      BY <2>1
    <3> QED BY <1>2, <2>3, <3>1, <3>2
  <2> QED BY <2>4, <2>5
<1>5. ASSUME NEW m \in UpMsg, up' = Append(up, m), m.uses => m.by \in Callers /\ has[m.by],
             \A t \in Callers : RemoteMap(t) => Maps(m) /\ m.by = t
      PROVE  UsesMapped' /\ HasMapped'
  <2>1. /\ Len(up') = Len(up) + 1 /\ Len(up) \in Nat /\ up'[Len(up) + 1] = m
        /\ \A n \in 1..Len(up) : up'[n] = up[n]
    BY <1>5, Sent
  <2>2. ASSUME NEW t, NEW n \in Nat, NEW k \in Nat, MappedBefore(t, n), n <= k PROVE MappedBefore(t, k)'
    BY <1>0, <2>1, <2>2 DEF MappedBefore
  <2>3. UsesMapped'
    <3> SUFFICES ASSUME NEW n \in 1..Len(up'), up'[n].uses, NEW t, t = up'[n].by
                 PROVE  MappedBefore(t, n)'
      BY DEF UsesMapped
    <3>1. CASE n \in 1..Len(up)
      BY <2>1, <2>2, <3>1 DEF UsesMapped
    <3>2. CASE n = Len(up) + 1
      BY <1>5, <2>1, <2>2, <3>2 DEF HasMapped
    <3> QED BY <2>1, <3>1, <3>2
  <2>4. HasMapped'
    <3> SUFFICES ASSUME NEW t \in Callers, has'[t], NEW n, n = Len(up') + 1 PROVE MappedBefore(t, n)'
      BY DEF HasMapped
    <3>1. CASE RemoteMap(t)
      BY <1>5, <2>1, <3>1 DEF MappedBefore
    <3>2. CASE ~RemoteMap(t)
      BY <1>2, <2>1, <2>2, <3>2
    <3> QED BY <3>1, <3>2
  <2> QED BY <2>3, <2>4
<1>6. ASSUME NEW t \in Threads, Send(t)
      PROVE  LET m == [type |-> Request(t), by |-> t, uses |-> t # Ping /\ has[t]]
             IN  /\ m \in UpMsg /\ (m.uses => m.by \in Callers /\ has[m.by])
                 /\ \A u \in Callers : ~RemoteMap(u)
  <2> DEFINE m == [type |-> Request(t), by |-> t, uses |-> t # Ping /\ has[t]]
  <2>1. m \in UpMsg /\ (m.uses => m.by \in Callers /\ has[m.by])
    BY Labels DEF UpMsg, Threads
  <2>2. \A u \in Callers : ~RemoteMap(u)
    <3>1. pc[t] = "send" /\ pc'[t] # "send"
      BY <1>6, Labels DEF Send, At, Goto
    <3> QED BY <3>1, <1>1
  <2> QED BY <2>1, <2>2
<1>7. ASSUME NEW t \in Callers, NEW type \in {"START", "END"}, StreamOut(t)
      PROVE  LET m == [type |-> type, by |-> t, uses |-> FALSE]
             IN  m \in UpMsg /\ m.uses = FALSE /\ \A u \in Callers : ~RemoteMap(u)
  <2>1. \A u \in Callers : ~RemoteMap(u)
    <3>1. pc[t] \in {"stream", "streamEnd"} /\ pc'[t] # pc[t] /\ t \in Threads
      BY <1>7 DEF StreamOut, Goto, Threads
    <3> QED BY <3>1, <1>1
  <2> QED BY <2>1 DEF UpMsg, Threads, Streamed
<1>8. ASSUME NEW t \in Callers, RemoteMap(t)
      PROVE  LET m == [type |-> "MAPPING", by |-> t, uses |-> FALSE]
             IN  m \in UpMsg /\ m.uses = FALSE /\ Maps(m) /\ \A u \in Callers : RemoteMap(u) => m.by = u
  <2>1. \A u \in Callers : RemoteMap(u) => u = t
    BY <1>8, <1>1 DEF Threads
  <2> QED BY <2>1 DEF UpMsg, Threads, Maps
<1> QED BY <1>0, <1>3, <1>4, <1>5, <1>6, <1>7, <1>8, UpMoves

LEMMA CrashStep ==
  ASSUME TypeOK, HolderInv, CallInv, DownInv, StreamInv, MappedInv, MixUpsExplained, MappedBeforeUse, Next
  PROVE  MixUpsExplained' /\ MappedBeforeUse'
<1> USE DEF TypeOK
<1>0. crash = "none"
  BY DEF Next, CallStep, LockProvider, UseFreed, Send, AllocateSendFails, ExecuteSendFails,
     OtherSendFails, Recv, RecvFails, Forward, ForwardFails, StreamOut, UnlockProvider,
     RemoteMap,
     ConsumerGone, Call, PingStep, PingWakes, PingRecv, PingUnlock, PingDestroys, Serve,
     ServeStream, ProviderGone, At
<1>1. ASSUME crash' \notin {"none", "execute", "freed"}
      PROVE  \/ \E t \in Callers : Recv(t) /\ Crash("crosstalk")
             \/ Serve /\ Crash("idmap")
             \/ ServeStream /\ Crash("torn")
  BY <1>0, <1>1, ZenonT(60) DEF Next, CallStep, LockProvider, UseFreed, Send, AllocateSendFails,
     ExecuteSendFails,
     OtherSendFails, Recv, RecvFails, Forward, ForwardFails, StreamOut, UnlockProvider,
     RemoteMap,
     ConsumerGone, Call, PingStep, PingWakes, PingRecv, PingUnlock, PingDestroys, Serve,
     ServeStream, ProviderGone, Crash
<1>2. ASSUME NEW t \in Callers, Recv(t), Crash("crosstalk") PROVE FetchCut
  <2>1. /\ down # <<>> /\ pc[t] = "recv" /\ Head(down) # [type |-> Reply(Request(t)), by |-> t]
        /\ Head(down).type \notin Notices /\ Head(down) = down[1] /\ 1 \in 1..Len(down)
        /\ down[1] \in DownMsg
    BY <1>0, <1>2, Taken DEF Recv, Crash, At, Notices
  <2>2. SUFFICES ASSUME ~FetchCut PROVE FALSE
    OBVIOUS
  <2>3. holder = t /\ t \in Threads
    BY <2>1 DEF HolderInv, Inside, Threads
  <2>4. down[1].by = t /\ down[1].type = Reply(Request(t))
    BY <2>1, <2>2, <2>3 DEF DownInv, Dialogue, ReadByHolder, Expected, Expects, Notices
  <2> QED BY <2>1, <2>4 DEF DownMsg
<1>3. ASSUME ServeStream, Crash("torn") PROVE Head(up).type = "MAPPING" \/ MemputCut
  <2>1. /\ up # <<>> /\ prov = "stream" /\ Head(up).type \notin Streamed
        /\ Head(up) = up[1] /\ 1 \in 1..Len(up)
    BY <1>0, <1>3, Taken DEF ServeStream, Crash
  <2>2. ~EndBetween(0, 1)
    BY DEF EndBetween
  <2> QED BY <2>1, <2>2 DEF StreamInv, OpenAt, Closed
<1>4. ASSUME Serve, Crash("idmap") PROVE FALSE
  <2>1. up # <<>> /\ Head(up).uses /\ Head(up).by \notin mapped /\ prov = "serve"
        /\ Head(up) = up[1] /\ 1 \in 1..Len(up)
    BY <1>0, <1>4, Taken DEF Serve, Crash
  <2> QED BY <2>1 DEF MappedInv, UsesMapped, MappedBefore
<1> QED BY <1>1, <1>2, <1>3, <1>4, CutsStay DEF MixUpsExplained, MappedBeforeUse, FetchCut,
           MemputCut, Crash

-----------------------------------------------------------------------------
(* The theorems *)

LEMMA InitIInv == Init => IInv
<1> SUFFICES ASSUME Init PROVE IInv
  OBVIOUS
<1> USE ProviderChannelAssumption DEF Init
<1>0. \A t \in Threads :
        /\ pc[t] = (IF t = Ping THEN "sleep" ELSE "idle")
        /\ kind[t] = (IF t = Ping THEN "ping" ELSE "execute")
  OBVIOUS
<1>1. TypeOK
  <2>1. <<>> \in Seq(UpMsg) /\ <<>> \in Seq(DownMsg)
    BY EmptySeq
  <2>2. /\ pc \in [Threads -> CallerPcs \union PingPcs]
        /\ kind \in [Threads -> AllKinds \union {"mapatptr", "ping"}]
    BY DEF CallerPcs, PingPcs, AllKinds
  <2>3. 0 \in 0..MaxNesting
    OBVIOUS
  <2>4. has \in [Callers -> BOOLEAN] /\ alive \in [Callers -> BOOLEAN] /\ mapped \subseteq Callers
    OBVIOUS
  <2> QED BY <2>1, <2>2, <2>3, <2>4 DEF TypeOK
<1>2. HolderInv /\ CallInv /\ Mappers
  <2>1. HolderInv
    BY <1>0 DEF HolderInv, Inside
  <2>2. CallInv
    BY <1>0 DEF CallInv, Threads
  <2> QED BY <2>1, <2>2 DEF Mappers
<1>3. DownInv /\ UpInv
  BY DEF DownInv, Dialogue, NoticesInv, ReadByHolder, Ordered, Expected, UpInv
<1>4. StreamInv /\ MappedInv
  BY DEF StreamInv, OpenAt, MappedInv, AnsweredMapped, UsesMapped, HasMapped
<1>5. MixUpsExplained /\ MappedBeforeUse
  BY DEF MixUpsExplained, MappedBeforeUse
<1> QED BY <1>1, <1>2, <1>3, <1>4, <1>5 DEF IInv

LEMMA StepIInv == IInv /\ [Next]_vars => IInv'
<1> SUFFICES ASSUME IInv, [Next]_vars PROVE IInv'
  OBVIOUS
<1>1. CASE Next
  <2>1. TypeOK' /\ HolderInv' /\ CallInv' /\ Mappers'
    BY <1>1, TypeStep, HolderStep, CallInvStep, MapperStep DEF IInv
  <2>2. DownInv' /\ UpInv'
    BY <1>1, DownStep, UpStep DEF IInv
  <2>3. StreamInv'
    BY <1>1, StreamStep DEF IInv
  <2>4. MappedInv'
    BY <1>1, AnsweredMappedStep, MappedStep, GoneStays DEF IInv, MappedInv
  <2>5. MixUpsExplained' /\ MappedBeforeUse'
    BY <1>1, CrashStep DEF IInv
  <2> QED BY <2>1, <2>2, <2>3, <2>4, <2>5 DEF IInv
<1>2. CASE UNCHANGED vars
  <2> USE <1>2 DEF vars, lockVars
  <2>1. TypeOK' /\ HolderInv' /\ CallInv' /\ Mappers'
    BY DEF IInv, TypeOK, HolderInv, Inside, CallInv, Mappers
  <2>2. DownInv' /\ UpInv'
    <3>1. Request(holder)' = Request(holder) /\ \A t : Request(t)' = Request(t)
      BY DEF Request
    <3>2. \A t, type : Expects(t, type)' <=> Expects(t, type)
      BY <3>1 DEF Expects
    <3>3. FetchCut' <=> FetchCut
      BY DEF FetchCut
    <3>4. DownInv'
      BY <3>2, <3>3 DEF IInv, DownInv, Dialogue, NoticesInv, ReadByHolder, Ordered, Expected
    <3>5. \A n : Pending(n)' <=> Pending(n)
      BY <3>1 DEF Pending
    <3>6. UpInv'
      BY <3>3, <3>5 DEF IInv, UpInv
    <3> QED BY <3>4, <3>6
  <2>3. StreamInv' /\ MappedInv'
    BY DEF IInv, StreamInv, MemputCut, OpenAt, Closed, EndBetween, Streams, MappedInv,
       AnsweredMapped,
       UsesMapped, HasMapped, MappedBefore
  <2>4. MixUpsExplained' /\ MappedBeforeUse'
    BY DEF IInv, MixUpsExplained, MappedBeforeUse
  <2> QED BY <2>1, <2>2, <2>3, <2>4 DEF IInv
<1> QED BY <1>1, <1>2

\* The inductive invariant: whose messages are on their way in both directions,
\* in which order, and where the streams and the mappings among them are.
THEOREM Invariant == Spec => []IInv
BY InitIInv, StepIInv, PTL DEF Spec

\* The variables keep their types: only consumers are mapped, and the lock of the
\* provider is nested within its bound (TypeOK).
THEOREM TypeCorrect == Spec => []TypeOK
<1>1. IInv => TypeOK
  BY DEF IInv
<1> QED BY <1>1, Invariant, PTL

\* With everyone alive the association is one thread's at a time: between
\* provider_lock and provider_unlock of remote.c and forward.c no answer and no
\* awaited request on the way is another thread's (OneDialogue).
THEOREM OneDialogueHolds == Spec => []OneDialogue
<1>1. IInv => OneDialogue
  <2> SUFFICES ASSUME IInv, prov # "gone", \A t \in Callers : alive[t]
               PROVE  /\ \A n \in 1..Len(down) : down[n].by = holder
                      /\ \A n \in 1..Len(up) :
                           up[n].type \in Requests \ {"FREE", "MEMPUT"} => up[n].by = holder
    BY DEF OneDialogue
  <2>1. ~FetchCut
    BY DEF FetchCut
  <2>2. \A n \in 1..Len(down) : down[n].by = holder
    BY <2>1 DEF IInv, DownInv, Dialogue, NoticesInv, ReadByHolder
  <2>3. \A n \in 1..Len(up) : up[n].type \in Awaited => up[n].by = holder
    BY <2>1 DEF IInv, UpInv, Pending
  <2> QED BY <2>2, <2>3 DEF Requests, Awaited
<1> QED BY <1>1, Invariant, PTL

\* No thread reads another thread's answer unless a consumer disappeared while its
\* memory was fetched, and no stream is broken but by a MAPPING, which
\* agent_remote_map sends outside the lock, or by a consumer that disappeared in
\* its memput (MixUpsExplained).
THEOREM MixUpsOnlyAsListed == Spec => []MixUpsExplained
<1>1. IInv => MixUpsExplained
  BY DEF IInv
<1> QED BY <1>1, Invariant, PTL

\* The provider never resolves an object whose MAPPING it has not served: the
\* assertion of provider_id_map holds (MappedBeforeUse).
THEOREM MappedFirst == Spec => []MappedBeforeUse
<1>1. IInv => MappedBeforeUse
  BY DEF IInv
<1> QED BY <1>1, Invariant, PTL
=============================================================================

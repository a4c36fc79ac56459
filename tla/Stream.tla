------------------------------- MODULE Stream -------------------------------
(***************************************************************************)
(* A stream of data on its way from one client through the agent to the    *)
(* other: stream_send and block_send at one end, stream_forward and        *)
(* block_forward in the agent, stream_recv and block_recv at the far end   *)
(* (stream.c, block.c, forward.c, and the fetch of rpc_client.c and        *)
(* rpc_server.c).  A memput goes from a consumer to a provider, a fetch    *)
(* from a provider to a consumer.                                          *)
(*                                                                         *)
(* A byte is <<transfer, position>>.  A compressed block is a block of     *)
(* another length whose bytes say which part of what they are.  Junk is a  *)
(* byte nobody sent: of a notification, which clara_recv does not tell     *)
(* from data, or of another message.                                       *)
(*                                                                         *)
(* Sizes are in units that keep the order the code depends on: the buffer  *)
(* for the parameters of a block (10 bytes) < the shutdown event (12) <    *)
(* a ping (18) and the largest piece (1024).                               *)
(***************************************************************************)
EXTENDS Naturals, Sequences

CONSTANTS Kinds,       \* subset of {"memput", "fetch"}
          Lens,        \* the lengths of the data
          RawMax,      \* longer data is compressed (STREAM_FORMAT)
          BlkSz,       \* STREAM_BLOCKSIZE
          Piece,       \* BLOCKSIZE
          Room,        \* the buffer of a message of block_params
          EventSize,   \* a shutdown event
          Window,      \* messages on their way before a send blocks
          MaxStreams,  \* bound: how many streams are started
          Dies,        \* which of the parties may disappear
          None

Parties == {"sender", "agent", "receiver"}

ASSUME StreamAssumption ==
  /\ Kinds \subseteq {"memput", "fetch"} /\ Dies \subseteq Parties
  /\ Lens \subseteq Nat /\ None \notin Lens /\ RawMax \in Nat
  /\ Room \in Nat \ {0} /\ EventSize \in Nat /\ Piece \in Nat /\ BlkSz \in Nat \ {0}
  /\ Room < EventSize /\ EventSize < Piece
  /\ Window \in Nat \ {0} /\ MaxStreams \in Nat \ {0}

VARIABLES kind,       \* memput or fetch
          alive,
          request,    \* the fetch the provider has been asked for: its length, or none
          pong,       \* an answer to a ping is on its way
          toAgent, toReceiver,
          s,          \* the sender: stream_send
          f,          \* the agent: stream_forward
          r,          \* the receiver: stream_recv
          crash

vars == <<kind, alive, request, pong, toAgent, toReceiver, s, f, r, crash>>

Junk == <<0, 0>>

Min2(a, b) == IF a < b THEN a ELSE b

-----------------------------------------------------------------------------
(* Messages: n is the length of the data or of a block, or the block size   *)
(* of a stream; code holds the bytes of a piece of a block.                 *)

Message(type, n, code) == [type |-> type, n |-> n, code |-> code]
Plain(type) == Message(type, 0, <<>>)

Starts == {"RAW", "LZO", "JUNK"}   \* STREAM_START by its format
Shutdown == Message("SHUTDOWN", EventSize, <<>>)

\* byte i of the size bytes that stand for the raw bytes behind position from
Part(k, from, raw, i, size) == [k |-> k, from |-> from, raw |-> raw, i |-> i, size |-> size]
JunkPart == Part(0, 0, 0, 0, 0)

\* the room a message takes
Size(m) == CASE m.type = "DATA" -> Len(m.code)
             [] m.type \in {"SHUTDOWN", "REST"} -> m.n
             [] m.type \in {"BLOCK", "END"} -> Room
             [] OTHER -> Piece

\* clara_recv takes whatever comes for data
AsData(m) == IF m.type = "DATA" THEN m.code ELSE [i \in 1..Size(m) |-> JunkPart]

\* a receive into a buffer that is too small leaves the rest in the socket
Rest(m, room) == IF m.type = "DATA"
                 THEN Message("DATA", 0, SubSeq(m.code, room + 1, Len(m.code)))
                 ELSE Message("REST", Size(m) - room, <<>>)

\* STREAM_FORMAT
Format(n) == IF n > RawMax THEN "LZO" ELSE "RAW"

\* what block_send gets: raw bytes behind position from of transfer k
Stored(k, from, raw) == [i \in 1..raw |-> Part(k, from + i - 1, 1, 1, 1)]
Compressed(k, from, raw, size) == [i \in 1..size |-> Part(k, from, raw, i, size)]

\* and what it stands for
Whole(code) == \A i \in 1..Len(code) :
                 code[i] = Part(code[1].k, code[1].from, code[1].raw, i, Len(code))
Plainly(code) == [i \in 1..Len(code) |-> IF code[i] = JunkPart THEN Junk
                                         ELSE <<code[i].k, code[i].from + 1>>]
Decompressed(code) == [i \in 1..code[1].raw |-> <<code[1].k, code[1].from + i>>]

-----------------------------------------------------------------------------

TypeOK ==
  /\ kind \in Kinds
  /\ alive \in [Parties -> BOOLEAN]
  /\ request \in Lens \union {None} /\ pong \in BOOLEAN
  /\ \A ch \in {toAgent, toReceiver} : \A i \in 1..Len(ch) :
       /\ ch[i].type \in Starts \union {"HEAD", "BLOCK", "DATA", "END", "PING", "SHUTDOWN", "REST"}
       /\ ch[i].type = "DATA" => Len(ch[i].code) \in 1..Piece
  /\ s.pc \in {"idle", "start", "block", "data", "end"}
  /\ s.k \in 0..MaxStreams /\ s.pos <= s.len /\ s.raw <= BlkSz
  /\ s.pc = "data" => s.code # <<>> /\ s.pos + s.raw <= s.len
  /\ f.pc \in {"idle", "head", "start", "next", "data", "pong"}
  /\ f.left \in Nat /\ (f.pc = "data" => f.left > 0)
  /\ r.pc \in {"idle", "head", "start", "next", "data"}
  /\ r.k \in 0..MaxStreams /\ r.fmt \in Starts
  /\ Len(r.out) + r.left = r.len
  /\ r.pc = "data" => r.need > 0
  /\ crash \in {"none", "sender", "forward", "payload", "receiver", "lzo"}

Init ==
  /\ kind \in Kinds
  /\ alive = [p \in Parties |-> TRUE]
  /\ request = None /\ pong = FALSE
  /\ toAgent = <<>> /\ toReceiver = <<>>
  /\ s = [pc |-> "idle", k |-> 0, len |-> 0, pos |-> 0, raw |-> 0, code |-> <<>>]
  /\ f = [pc |-> "idle", left |-> 0]
  /\ r = [pc |-> "idle", k |-> 0, len |-> 0, left |-> 0, fmt |-> "RAW", raw |-> 0,
          need |-> 0, code |-> <<>>, out |-> <<>>]
  /\ crash = "none"

Crash(why) ==
  /\ crash' = why
  /\ UNCHANGED <<kind, alive, request, pong, toAgent, toReceiver, s, f, r>>

Put(ch, m) == Append(ch, m)
HasRoom(ch) == Len(ch) < Window

Running(p) == crash = "none" /\ alive[p]

-----------------------------------------------------------------------------
(* The sender *)

SenderOnly == UNCHANGED <<kind, alive, pong, toReceiver, f, r, crash>>

\* mutant: a block even when nothing is left
AfterBlockAnother(pos, len) == "block"

\* the pc of the sender behind a block
AfterBlock(pos, len) == IF pos = len THEN "end" ELSE "block"

\* consumer_memcpy, or clara_send_fetch_response: the message before the stream
Announce(n) ==
  /\ Running("sender") /\ alive["agent"]
  /\ s.pc = "idle" /\ s.k < MaxStreams /\ HasRoom(toAgent)
  /\ IF kind = "memput" THEN n \in Lens /\ UNCHANGED request
     ELSE n = request /\ request' = None
  /\ toAgent' = Put(toAgent, Message("HEAD", n, <<>>))
  /\ s' = [s EXCEPT !.pc = "start", !.k = @ + 1, !.len = n, !.pos = 0, !.raw = 0]
  /\ SenderOnly

SendStart ==
  /\ Running("sender") /\ alive["agent"]
  /\ s.pc = "start" /\ HasRoom(toAgent)
  /\ toAgent' = Put(toAgent, Message(Format(s.len), BlkSz, <<>>))
  /\ s' = [s EXCEPT !.pc = AfterBlock(0, s.len)]
  /\ UNCHANGED request /\ SenderOnly

\* mutant: the last block has the size of the others
SendBlockUnclipped ==
  /\ Running("sender") /\ alive["agent"]
  /\ s.pc = "block" /\ HasRoom(toAgent)
  /\ LET raw == BlkSz IN
     \E code \in IF Format(s.len) = "RAW" THEN {Stored(s.k, s.pos, raw)}
                 ELSE {Compressed(s.k, s.pos, raw, size) : size \in 1..(raw + 1)} :
       /\ toAgent' = Put(toAgent, Message("BLOCK", Len(code), <<>>))
       /\ s' = [s EXCEPT !.pc = "data", !.raw = Min2(raw, s.len - s.pos), !.code = code]
  /\ UNCHANGED request /\ SenderOnly

\* the next block, compressed to any size, and block_send's first message
SendBlock ==
  /\ Running("sender") /\ alive["agent"]
  /\ s.pc = "block" /\ HasRoom(toAgent)
  /\ LET raw == Min2(BlkSz, s.len - s.pos) IN
     \E code \in IF Format(s.len) = "RAW" THEN {Stored(s.k, s.pos, raw)}
                 ELSE {Compressed(s.k, s.pos, raw, size) : size \in 1..(raw + 1)} :
       /\ toAgent' = Put(toAgent, Message("BLOCK", Len(code), <<>>))
       /\ s' = [s EXCEPT !.pc = "data", !.raw = raw, !.code = code]
  /\ UNCHANGED request /\ SenderOnly

\* mutant: the pointer to the data stays where it is
SendPieceStuck ==
  /\ Running("sender") /\ alive["agent"]
  /\ s.pc = "data" /\ HasRoom(toAgent)
  /\ LET size == Min2(Piece, Len(s.code))
         rest == SubSeq(s.code, 1, Len(s.code) - size) IN
     /\ toAgent' = Put(toAgent, Message("DATA", 0, SubSeq(s.code, 1, size)))
     /\ s' = IF rest # <<>> THEN [s EXCEPT !.code = rest]
             ELSE [s EXCEPT !.code = <<>>, !.pos = @ + s.raw, !.raw = 0,
                            !.pc = AfterBlock(s.pos + s.raw, s.len)]
  /\ UNCHANGED request /\ SenderOnly

\* block_send: the next piece of the block
SendPiece ==
  /\ Running("sender") /\ alive["agent"]
  /\ s.pc = "data" /\ HasRoom(toAgent)
  /\ LET size == Min2(Piece, Len(s.code))
         rest == SubSeq(s.code, size + 1, Len(s.code)) IN
     /\ toAgent' = Put(toAgent, Message("DATA", 0, SubSeq(s.code, 1, size)))
     /\ s' = IF rest # <<>> THEN [s EXCEPT !.code = rest]
             ELSE [s EXCEPT !.code = <<>>, !.pos = @ + s.raw, !.raw = 0,
                            !.pc = AfterBlock(s.pos + s.raw, s.len)]
  /\ UNCHANGED request /\ SenderOnly

\* mutant: no END behind empty data
SendEndOfData ==
  /\ Running("sender") /\ alive["agent"]
  /\ s.pc = "end" /\ HasRoom(toAgent)
  /\ toAgent' = IF s.len = 0 THEN toAgent ELSE Put(toAgent, Plain("END"))
  /\ s' = [s EXCEPT !.pc = "idle"]
  /\ UNCHANGED request /\ SenderOnly

SendEnd ==
  /\ Running("sender") /\ alive["agent"]
  /\ s.pc = "end" /\ HasRoom(toAgent)
  /\ toAgent' = Put(toAgent, Plain("END"))
  /\ s' = [s EXCEPT !.pc = "idle"]
  /\ UNCHANGED request /\ SenderOnly

\* The agent is gone.  A failed START or END is only logged; a block that does
\* not get through fails the assertion of what block_send returns.
SendFails ==
  /\ Running("sender") /\ ~alive["agent"]
  /\ s.pc # "idle"
  /\ IF s.pc \in {"block", "data"} THEN Crash("sender")
     ELSE s' = [s EXCEPT !.pc = "idle"] /\ UNCHANGED <<request, toAgent>> /\ SenderOnly

-----------------------------------------------------------------------------
(* The agent.  Each action receives one message and sends what follows from *)
(* it: nothing else of the agent's runs between the two.                    *)

AgentOnly == UNCHANGED <<kind, alive, request, pong, s, r, crash>>

\* is there a message for the thread in this place, and room for the next?
AgentAt(label) == /\ Running("agent")
                  /\ f.pc = label
                  /\ HasRoom(toReceiver)

Took == toAgent' = Tail(toAgent)
Left(m, room) == toAgent' = <<Rest(m, room)>> \o Tail(toAgent)

Goto(label) == f' = [f EXCEPT !.pc = label]

\* a send to a receiver that is gone fails
Sends(m) == toReceiver' = IF alive["receiver"] THEN Put(toReceiver, m) ELSE toReceiver

\* agent_forward_memput does not go on to the stream when its own send fails,
\* agent_forward_fetch does, and passes on whatever it received
ForwardHead ==
  /\ AgentAt(IF kind = "memput" THEN "idle" ELSE "head")
  /\ toAgent # <<>>
  /\ IF kind = "memput" THEN Head(toAgent).type = "HEAD" ELSE TRUE
  /\ IF Head(toAgent).type = "SHUTDOWN" THEN Left(Head(toAgent), Room) ELSE Took
  /\ Sends(Message("HEAD", Head(toAgent).n, <<>>))
  /\ Goto(IF kind = "memput" /\ ~alive["receiver"] THEN "idle" ELSE "start")
  /\ AgentOnly

\* The buffer of the stream's parameters takes a shutdown event as well.
ForwardStart ==
  /\ AgentAt("start")
  /\ toAgent # <<>>
  /\ Took
  /\ Sends(IF Head(toAgent).type \in Starts THEN Head(toAgent) ELSE Plain("JUNK"))
  /\ Goto(IF alive["receiver"] THEN "next" ELSE "idle")
  /\ AgentOnly

ForwardEnd ==
  /\ AgentAt("next")
  /\ toAgent # <<>> /\ Head(toAgent).type = "END"
  /\ Took /\ Sends(Plain("END"))
  /\ Goto("idle")
  /\ AgentOnly

\* When block_forward cannot send the block's length it returns and leaves the
\* data in the socket, for stream_forward to read as a message.
ForwardBlock ==
  /\ AgentAt("next")
  /\ toAgent # <<>> /\ Head(toAgent).type = "BLOCK"
  /\ Took /\ Sends(Head(toAgent))
  /\ f' = IF alive["receiver"] THEN [f EXCEPT !.pc = "data", !.left = Head(toAgent).n] ELSE f
  /\ AgentOnly

\* Neither a block nor the end: what does not fit ends the stream, what fits
\* meets an assertion, in stream_forward or in clara_recvmsg.
ForwardMisfit ==
  /\ AgentAt("next")
  /\ toAgent # <<>> /\ Head(toAgent).type \notin {"BLOCK", "END"}
  /\ IF Size(Head(toAgent)) <= Room THEN Crash("forward")
     ELSE Left(Head(toAgent), Room) /\ Goto("idle") /\ UNCHANGED toReceiver /\ AgentOnly

\* A piece of the block, or whatever comes instead of it.  When it does not fit
\* or cannot be sent, block_forward returns and stream_forward goes on.
ForwardPiece ==
  /\ AgentAt("data")
  /\ toAgent # <<>>
  /\ LET m == Head(toAgent)
         room == Min2(Piece, f.left) IN
     IF Size(m) > room
     THEN Left(m, room) /\ Goto("next") /\ UNCHANGED toReceiver
     ELSE /\ Took /\ Sends(Message("DATA", 0, AsData(m)))
          /\ f' = [f EXCEPT !.left = IF alive["receiver"] THEN @ - Size(m) ELSE 0,
                            !.pc = IF alive["receiver"] /\ f.left > Size(m) THEN "data" ELSE "next"]
  /\ AgentOnly

\* nothing will come from a sender that is gone: block_forward returns, and then
\* stream_forward
ForwardFails ==
  /\ Running("agent") /\ ~alive["sender"]
  /\ f.pc \in {"start", "next", "data"} /\ toAgent = <<>>
  /\ Goto(IF f.pc = "data" THEN "next" ELSE "idle")
  /\ UNCHANGED <<toAgent, toReceiver>> /\ AgentOnly

\* What a broken stream has left is read as the consumer's next messages, and
\* so are its data.
Stray ==
  /\ AgentAt("idle") /\ kind = "memput"
  /\ toAgent # <<>> /\ Head(toAgent).type # "HEAD"
  /\ IF Head(toAgent).type = "DATA" THEN Crash("payload")
     ELSE Took /\ UNCHANGED <<f, toReceiver>> /\ AgentOnly

\* the provider's thread in the agent waits for a PONG with the provider's lock
AgentPings ==
  /\ AgentAt("idle") /\ kind = "memput" /\ alive["receiver"]
  /\ \A i \in 1..Len(toReceiver) : toReceiver[i].type # "PING"
  /\ toReceiver' = Put(toReceiver, Plain("PING"))
  /\ Goto("pong")
  /\ UNCHANGED toAgent /\ AgentOnly

AgentPonged ==
  /\ Running("agent") /\ f.pc = "pong"
  /\ pong \/ ~alive["receiver"]
  /\ pong' = FALSE
  /\ Goto("idle")
  /\ UNCHANGED <<kind, alive, request, toAgent, toReceiver, s, r, crash>>

-----------------------------------------------------------------------------
(* The receiver *)

ReceiverOnly == UNCHANGED <<kind, alive, toAgent, s, f, crash>>

ReceiverAt(label) == Running("receiver") /\ r.pc = label

Got == toReceiver' = Tail(toReceiver)

\* consumer_fetch: the provider is asked through the agent, which holds the
\* provider's lock from here to the end
Ask(n) ==
  /\ ReceiverAt("idle") /\ kind = "fetch"
  /\ Running("agent") /\ f.pc = "idle"
  /\ alive["sender"] /\ s.k < MaxStreams /\ s.pc = "idle"
  /\ request' = n
  /\ r' = [r EXCEPT !.pc = "head", !.k = @ + 1, !.len = n, !.left = n, !.out = <<>>]
  /\ f' = [f EXCEPT !.pc = "head"]
  /\ UNCHANGED <<kind, alive, pong, toAgent, toReceiver, s, crash>>

\* The message before the stream; between streams a provider answers pings and
\* drops what it does not know.  A failed receive ends a consumer's fetch.
RecvHead ==
  /\ ReceiverAt(IF kind = "memput" THEN "idle" ELSE "head")
  /\ toReceiver # <<>>
  /\ LET m == Head(toReceiver) IN
     /\ Got
     /\ r' = CASE m.type = "HEAD" /\ kind = "memput" ->
                    [r EXCEPT !.pc = "start", !.k = @ + 1, !.len = m.n, !.left = m.n, !.out = <<>>]
               [] m.type = "SHUTDOWN" /\ kind = "fetch" -> [r EXCEPT !.pc = "idle"]
               [] m.type # "SHUTDOWN" /\ kind = "fetch" -> [r EXCEPT !.pc = "start"]
               [] OTHER -> r
     /\ pong' = (pong \/ m.type = "PING")
  /\ UNCHANGED request /\ ReceiverOnly

RecvStart ==
  /\ ReceiverAt("start")
  /\ toReceiver # <<>>
  /\ LET m == Head(toReceiver) IN
     r' = [r EXCEPT !.pc = "next", !.raw = m.n,
                    !.fmt = IF m.type \in Starts THEN m.type ELSE "JUNK"]
  /\ Got
  /\ UNCHANGED <<request, pong>> /\ ReceiverOnly

\* The block's length; RAW data must fit what is left of the buffer (block_recv).
RecvBlock ==
  /\ ReceiverAt("next")
  /\ toReceiver # <<>> /\ Head(toReceiver).type = "BLOCK"
  /\ LET n == Head(toReceiver).n
         raw == Min2(r.raw, r.left) IN
     IF r.fmt # "LZO" /\ n > raw THEN Crash("receiver")
     ELSE /\ r' = [r EXCEPT !.pc = "data", !.raw = raw, !.need = n, !.code = <<>>]
          /\ Got
          /\ UNCHANGED <<request, pong>> /\ ReceiverOnly

\* mutant: the count of block_recv is not looked at
BlockDoneUncounted(code) ==
  IF r.fmt = "LZO" /\ (code = <<>> \/ ~Whole(code)) THEN Crash("lzo")
  ELSE LET raw == IF r.fmt = "LZO" THEN Decompressed(code)
                  ELSE Plainly(code) \o [i \in 1..(r.raw - Len(code)) |-> <<0, 1>>] IN
       /\ r' = [r EXCEPT !.pc = "next", !.raw = Len(raw), !.left = @ - Len(raw),
                         !.need = 0, !.code = <<>>, !.out = @ \o raw]
       /\ Got
       /\ UNCHANGED <<request, pong>> /\ ReceiverOnly

\* block_recv has returned with these bytes: what stream_recv makes of them.
\* What the decompressor makes of an incomplete block is undefined.
BlockDone(code) ==
  CASE r.fmt = "LZO" /\ (code = <<>> \/ ~Whole(code)) -> Crash("lzo")
    [] r.fmt # "LZO" /\ Len(code) # r.raw -> Crash("receiver")
    [] OTHER ->
         LET raw == IF r.fmt = "LZO" THEN Decompressed(code) ELSE Plainly(code) IN
         /\ r' = [r EXCEPT !.pc = "next", !.raw = Len(raw), !.left = @ - Len(raw),
                           !.need = 0, !.code = <<>>, !.out = @ \o raw]
         /\ Got
         /\ UNCHANGED <<request, pong>> /\ ReceiverOnly

RecvPiece ==
  /\ ReceiverAt("data")
  /\ toReceiver # <<>>
  /\ LET m == Head(toReceiver)
         code == r.code \o AsData(m) IN
     CASE Size(m) > r.need -> BlockDone(r.code)
       [] Size(m) = r.need -> BlockDone(code)
       [] OTHER -> /\ r' = [r EXCEPT !.need = @ - Size(m), !.code = code]
                   /\ Got
                   /\ UNCHANGED <<request, pong>> /\ ReceiverOnly

\* The end, or a message that does not fit the buffer of a block's parameters:
\* either way stream_recv returns with what it has.
RecvEnd ==
  /\ ReceiverAt("next")
  /\ toReceiver # <<>> /\ Head(toReceiver).type # "BLOCK"
  /\ IF Head(toReceiver).type # "END" /\ Size(Head(toReceiver)) <= Room THEN Crash("receiver")
     ELSE /\ r' = [r EXCEPT !.pc = "idle"]
          /\ Got
          /\ UNCHANGED <<request, pong>> /\ ReceiverOnly

\* nothing will come from an agent that is gone
RecvFails ==
  /\ Running("receiver") /\ ~alive["agent"]
  /\ r.pc # "idle" /\ toReceiver = <<>>
  /\ IF r.pc = "data" THEN Crash(IF r.fmt = "LZO" THEN "lzo" ELSE "receiver")
     ELSE /\ r' = [r EXCEPT !.pc = "idle"]
          /\ UNCHANGED <<request, pong, toReceiver>> /\ ReceiverOnly

-----------------------------------------------------------------------------
(* Disappearances: what a party has sent arrives up to some point, then the *)
(* shutdown event                                                           *)

Vanish(p) == /\ Running(p) /\ p \in Dies
             /\ alive' = [alive EXCEPT ![p] = FALSE]

CutOff(ch) == {Append(SubSeq(ch, 1, n), Shutdown) : n \in 0..Len(ch)}

SenderGone == /\ Vanish("sender")
              /\ toAgent' \in CutOff(toAgent)
              /\ request' = None
              /\ UNCHANGED <<kind, pong, toReceiver, s, f, r, crash>>

AgentGone == /\ Vanish("agent")
             /\ toAgent' = <<>>
             /\ toReceiver' \in CutOff(toReceiver)
             /\ UNCHANGED <<kind, request, pong, s, f, r, crash>>

ReceiverGone == /\ Vanish("receiver")
                /\ toReceiver' = <<>>
                /\ UNCHANGED <<kind, request, pong, toAgent, s, f, r, crash>>

-----------------------------------------------------------------------------

SenderStep == \/ SendStart \/ SendBlock \/ SendPiece \/ SendEnd \/ SendFails
              \/ kind = "fetch" /\ request # None /\ Announce(request)

AgentStep == \/ ForwardHead \/ ForwardStart \/ ForwardEnd \/ ForwardBlock \/ ForwardMisfit
             \/ ForwardPiece \/ ForwardFails \/ Stray \/ AgentPonged

ReceiverStep == RecvHead \/ RecvStart \/ RecvBlock \/ RecvPiece \/ RecvEnd \/ RecvFails

Next == \/ SenderStep \/ AgentStep \/ ReceiverStep
        \/ \E n \in Lens : Ask(n) \/ (kind = "memput" /\ Announce(n))
        \/ AgentPings
        \/ SenderGone \/ AgentGone \/ ReceiverGone

Spec == Init /\ [][Next]_vars

\* All three run; an application starts a stream, and the agent sends a ping,
\* when they like.  The pings, three seconds apart, do not keep the consumer's
\* handler from provider->lock for ever.
FairSpec == /\ Spec
            /\ WF_vars(SenderStep) /\ WF_vars(AgentStep) /\ WF_vars(ReceiverStep)
            /\ SF_vars(ForwardHead) /\ SF_vars(Stray)

-----------------------------------------------------------------------------
(* Properties *)

Gone(p) == ~alive[p]
Loss == \E p \in Parties : Gone(p)

\* The receiver of a stream gets the bytes of the sender, each once, in order,
\* none of another stream, however they are cut into blocks and pieces and
\* whether they are compressed; and it returns when it has all of them.
Transfers == INSTANCE Transfer WITH serial <- r.k, size <- r.len, buffer <- r.out,
                                    open <- r.pc # "idle", lost <- Loss
IsTransfer == Transfers!TransferSpec

\* Every assertion of the stream code, and every byte of data taken for a
\* message, needs the loss of the right party: a sender's needs the agent gone,
\* the agent's needs a client gone in the middle of a block, and the receiver's
\* needs somebody before it gone.
FailsOnlyByLoss ==
  /\ crash = "sender" => Gone("agent")
  /\ crash = "forward" => Gone("sender") \/ Gone("receiver")
  /\ crash = "payload" => Gone("receiver")
  /\ crash \in {"receiver", "lzo"} => Gone("sender") \/ Gone("agent")

\* Whatever disappears, and whenever: a stream that stream_recv reports as
\* received completely (consumer_end_fetch compares the counts) has the bytes
\* that were sent, but where a notification was taken for the end of a block.
CompleteMeansSent ==
  r.pc = "idle" /\ r.left = 0 /\ r.k > 0 /\ crash = "none" =>
    \/ r.out = [i \in 1..r.len |-> <<r.k, i>>]
    \/ Loss /\ \E i \in 1..r.len : r.out[i] = Junk

\* Streams and pings come to an end, in all three, as long as nobody disappears.
AtRest == s.pc = "idle" /\ f.pc = "idle" /\ r.pc = "idle" /\ toAgent = <<>> /\ toReceiver = <<>>
StreamsEnd == (~AtRest) ~> (AtRest \/ Loss)
=============================================================================

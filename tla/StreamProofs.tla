----------------------------- MODULE StreamProofs -----------------------------
(***************************************************************************)
(* Proofs about Stream, for all lengths, sizes and numbers of streams.     *)
(***************************************************************************)
EXTENDS Stream, SequenceTheorems, TLAPS

(***************************************************************************)
(* The inductive invariant.  Every message of a stream is one that the     *)
(* sender sent on its way from one state to the next, so that what is in a *)
(* channel is described by states the sender went through: a trail, one    *)
(* state longer than the channel, in which message i takes the sender from *)
(* state i to the next.  The receiver is where the first state of its      *)
(* trail is (Follows), the agent where the last of that one and the first  *)
(* of its own is (Between), and the sender at the end (Linked).            *)
(* When the sender is gone, its channel ends with an event that the agent  *)
(* takes for something else: it is derailed then, and what it adds to the  *)
(* receiver's channel is junk.  So is the event that the agent leaves when *)
(* it is gone itself.  The receiver follows a trail up to the junk         *)
(* (Trailed), and what it keeps is right by itself, or has junk in it      *)
(* (Own).                                                                  *)
(***************************************************************************)

Parts == [k : Nat, from : Nat, raw : Nat, i : Nat, size : Nat]

Types == Starts \union {"HEAD", "BLOCK", "DATA", "END", "PING", "SHUTDOWN", "REST"}

Msg == {m \in [type : Types, n : Nat, code : Seq(Parts)] :
          /\ m.type = "DATA" => Len(m.code) \in 1..Piece
          /\ m.type \in {"BLOCK", "REST"} => m.n > 0
          /\ m.type = "SHUTDOWN" => m.n > Room}

\* a state of the sender
Sender == {a \in [pc : {"idle", "start", "block", "data", "end"}, k : 0..MaxStreams,
                  len : Nat, pos : Nat, raw : Nat, code : Seq(Parts)] :
             /\ a.pos <= a.len /\ a.raw <= BlkSz
             /\ a.pc = "start" => a.pos = 0
             /\ a.pc = "block" => a.pos < a.len
             /\ a.pc = "data" => /\ a.code # <<>> /\ a.pos < a.len
                                 /\ a.raw = Min2(BlkSz, a.len - a.pos)
             /\ a.pc = "end" => a.pos = a.len}

Agent == {a \in [pc : {"idle", "head", "start", "next", "data", "pong"}, left : Nat] :
            a.pc = "data" => a.left > 0}

Receiver == {a \in [pc : {"idle", "head", "start", "next", "data"}, k : 0..MaxStreams,
                    len : Nat, left : Nat, fmt : Starts, raw : Nat, need : Nat,
                    code : Seq(Parts), out : Seq(Nat \X Nat)] :
               /\ Len(a.out) + a.left = a.len
               /\ a.pc = "data" => a.need > 0}

Typed ==
  /\ kind \in Kinds
  /\ alive \in [Parties -> BOOLEAN]
  /\ request \in Lens \union {None} /\ pong \in BOOLEAN
  /\ toAgent \in Seq(Msg) /\ toReceiver \in Seq(Msg)
  /\ s \in Sender /\ f \in Agent /\ r \in Receiver
  /\ crash \in {"none", "sender", "forward", "payload", "receiver", "lzo"}

\* byte i of the size bytes that stand for the raw bytes behind from
BlockPart(fmt, k, from, raw, size, i) ==
  IF fmt = "RAW" THEN Part(k, from + i - 1, 1, 1, 1) ELSE Part(k, from, raw, i, size)

\* the sender sends m in state a and is in state b then
Emits(a, m, b) ==
  \/ /\ a.pc = "idle" /\ m.type = "HEAD"
     /\ b.pc = "start" /\ b.k = a.k + 1 /\ b.len = m.n /\ b.pos = 0
  \/ /\ a.pc = "start" /\ m.type = Format(a.len) /\ m.n = BlkSz
     /\ b.pc = AfterBlock(0, a.len) /\ b.k = a.k /\ b.len = a.len /\ b.pos = 0
  \/ /\ a.pc = "block" /\ m.type = "BLOCK" /\ m.n = Len(b.code)
     /\ b.pc = "data" /\ b.k = a.k /\ b.len = a.len /\ b.pos = a.pos
     /\ Format(a.len) = "RAW" => Len(b.code) = b.raw
     /\ \A i \in 1..Len(b.code) :
          b.code[i] = BlockPart(Format(a.len), a.k, a.pos, b.raw, Len(b.code), i)
  \/ /\ a.pc = "data" /\ m.type = "DATA" /\ Len(m.code) = Min2(Piece, Len(a.code))
     /\ \A i \in 1..Len(m.code) : m.code[i] = a.code[i]
     /\ b.k = a.k /\ b.len = a.len
     /\ \/ /\ Len(m.code) < Len(a.code)
           /\ b.pc = "data" /\ b.pos = a.pos /\ b.raw = a.raw
           /\ Len(b.code) = Len(a.code) - Len(m.code)
           /\ \A i \in 1..Len(b.code) : b.code[i] = a.code[Len(m.code) + i]
        \/ /\ Len(m.code) = Len(a.code)
           /\ b.pc = AfterBlock(a.pos + a.raw, a.len) /\ b.pos = a.pos + a.raw
  \/ /\ a.pc = "end" /\ m.type = "END"
     /\ b.pc = "idle" /\ b.k = a.k /\ b.len = a.len

\* on the way to the receiver there are pings between the streams, too
Passes(a, m, b) ==
  Emits(a, m, b) \/ (kind = "memput" /\ m.type = "PING" /\ a.pc = "idle" /\ b = a)

\* the agent has read what takes the sender to a
Between(a) ==
  /\ f.pc \in {"idle", "head", "pong"} => a.pc = "idle"
  /\ f.pc = "start" => a.pc = "start"
  /\ f.pc = "next" => a.pc \in {"block", "end"}
  /\ f.pc = "data" => a.pc = "data" /\ f.left = Len(a.code)

\* byte i of the block that the receiver is in
HasPart(i) == BlockPart(r.fmt, r.k, Len(r.out), r.raw, Len(r.code) + r.need, i)

\* so has the receiver
Follows(a) ==
  /\ r.pc = "idle" => a.pc = "idle" /\ a.k = r.k
  /\ r.pc = "head" => a.pc = "idle" /\ a.k + 1 = r.k
  /\ r.pc \in {"start", "next", "data"} => a.k = r.k /\ a.len = r.len
  /\ r.pc = "start" => a.pc = "start"
  /\ r.pc \in {"next", "data"} => a.pos = Len(r.out) /\ r.fmt = Format(r.len)
  /\ r.pc = "next" => a.pc \in {"block", "end"} /\ (r.raw = BlkSz \/ r.left = 0)
  /\ r.pc = "data" =>
       /\ a.pc = "data" /\ a.raw = r.raw /\ Len(a.code) = r.need
       /\ \A i \in 1..Len(r.code) : r.code[i] = HasPart(i)
       /\ \A i \in 1..Len(a.code) : a.code[i] = HasPart(Len(r.code) + i)

\* the receiver by itself
Right == \A i \in 1..Len(r.out) : r.out[i] = <<r.k, i>>

OwnBlock ==
  /\ r.fmt \in {"RAW", "LZO"} /\ r.raw \in 1..r.left
  /\ r.fmt = "RAW" => Len(r.code) + r.need = r.raw
  /\ \/ \A i \in 1..Len(r.code) : r.code[i] = HasPart(i)
     \/ Loss /\ \E i \in 1..Len(r.code) : r.code[i] = JunkPart

Own ==
  /\ r.pc = "head" => kind = "fetch"
  /\ r.pc \in {"head", "start"} => r.out = <<>>
  /\ Right \/ (Loss /\ \E i \in 1..Len(r.out) : r.out[i] = Junk)
  /\ r.pc = "data" => OwnBlock

\* a fetch sends what the receiver has asked for
Fetching ==
  kind = "fetch" =>
    /\ s.k <= r.k
    /\ alive["agent"] /\ request # None =>
         alive["sender"] /\ r.pc = "head" /\ r.len = request /\ s.k + 1 = r.k
    /\ alive["agent"] /\ request = None /\ alive["sender"] => s.k = r.k

\* the sender has been there; the last fetch asked for has the length asked for
Been(a) == a.k <= s.k /\ (kind = "fetch" /\ a.k = r.k => a.len = r.len)

\* what nobody sent, or sent for something else
IsJunk(m) ==
  \/ m.type \in {"JUNK", "PING", "SHUTDOWN", "REST"}
  \/ m.type = "DATA" /\ \A i \in 1..Len(m.code) : m.code[i] = JunkPart
  \/ m.type = "HEAD" /\ kind = "fetch"

Trail(h) == h \in Seq(Sender) /\ h # <<>> /\ \A i \in 1..Len(h) : Been(h[i])

Trailed(h) ==
  /\ Trail(h) /\ Len(h) <= Len(toReceiver) + 1
  /\ \A i \in 1..(Len(h) - 1) : Passes(h[i], toReceiver[i], h[i + 1])
  /\ \A i \in Len(h)..Len(toReceiver) : IsJunk(toReceiver[i])
  /\ Len(h) > 1 => Follows(h[1])

\* the agent's channel, at the end of which an event may be
Ahead(h) ==
  /\ Trail(h) /\ Len(h) <= Len(toAgent) + 1
  /\ \A i \in 1..(Len(h) - 1) : Emits(h[i], toAgent[i], h[i + 1])
  /\ alive["sender"] => Len(h) = Len(toAgent) + 1 /\ h[Len(h)] = s
  /\ ~alive["sender"] =>
       \A i \in Len(h)..Len(toAgent) : toAgent[i].type \in {"SHUTDOWN", "REST"}

Linked(h, g) ==
  /\ Trailed(h) /\ Len(h) = Len(toReceiver) + 1 /\ Follows(h[1])
  /\ Ahead(g) /\ h[Len(h)] = g[1] /\ Between(g[1])

Derailed ==
  /\ ~alive["sender"]
  /\ \A i \in 1..Len(toAgent) : toAgent[i].type \in {"SHUTDOWN", "REST"}

TrailInv ==
  alive["receiver"] =>
    IF alive["agent"] THEN (\E h, g : Linked(h, g)) \/ (Derailed /\ \E h : Trailed(h))
    ELSE \E h : Trailed(h)

IInv == Typed /\ Own /\ Fetching /\ TrailInv /\ FailsOnlyByLoss

-----------------------------------------------------------------------------
(* Messages and pieces *)

LEMMA Min2Facts ==
  ASSUME NEW a \in Nat, NEW b \in Nat
  PROVE  Min2(a, b) \in Nat /\ Min2(a, b) <= a /\ Min2(a, b) <= b /\ Min2(a, b) \in {a, b}
BY DEF Min2

LEMMA Sizes ==
  /\ Room \in Nat \ {0} /\ EventSize \in Nat /\ Piece \in Nat \ {0} /\ BlkSz \in Nat \ {0}
  /\ Room < EventSize /\ EventSize < Piece
BY StreamAssumption

\* the fields of a message
LEMMA Fields ==
  ASSUME NEW type, NEW n, NEW code
  PROVE  /\ Message(type, n, code).type = type
         /\ Message(type, n, code).n = n
         /\ Message(type, n, code).code = code
         /\ Plain(type) = Message(type, 0, <<>>)
BY DEF Message, Plain

LEMMA MsgFields ==
  ASSUME NEW m \in Msg
  PROVE  /\ m.type \in Types /\ m.n \in Nat /\ m.code \in Seq(Parts)
         /\ m.type = "DATA" => Len(m.code) \in 1..Piece
         /\ m.type \in {"BLOCK", "REST"} => m.n > 0
         /\ m.type = "SHUTDOWN" => m.n > Room
BY DEF Msg

LEMMA IsMsg ==
  ASSUME NEW type \in Types, NEW n \in Nat, NEW code \in Seq(Parts),
         type = "DATA" => Len(code) \in 1..Piece,
         type \in {"BLOCK", "REST"} => n > 0,
         type = "SHUTDOWN" => n > Room
  PROVE  Message(type, n, code) \in Msg
BY DEF Msg, Message

LEMMA PlainMsg ==
  ASSUME NEW type \in {"HEAD", "END", "JUNK", "PING"}, NEW n \in Nat,
         NEW m, m = Message(type, n, <<>>)
  PROVE  m \in Msg /\ m.type = type /\ m.n = n
<1>1. type \in Types /\ <<>> \in Seq(Parts)
  BY DEF Types, Starts
<1>2. m \in Msg
  BY <1>1, IsMsg
<1> QED BY <1>2, Fields

LEMMA JunkPartType == JunkPart \in Parts
BY DEF JunkPart, Part, Parts

\* no message is without a size
LEMMA SizeType ==
  ASSUME NEW m \in Msg
  PROVE  Size(m) \in Nat \ {0}
<1>1. /\ m.type \in Types /\ m.n \in Nat /\ m.code \in Seq(Parts)
      /\ m.type = "DATA" => Len(m.code) \in 1..Piece
      /\ m.type \in {"BLOCK", "REST"} => m.n > 0
      /\ m.type = "SHUTDOWN" => m.n > Room
  BY MsgFields
<1>2. CASE m.type = "DATA"
  BY <1>1, <1>2, Sizes DEF Size
<1>3. CASE m.type \in {"SHUTDOWN", "REST"}
  BY <1>1, <1>3, Sizes DEF Size
<1>4. CASE m.type \in {"BLOCK", "END"}
  BY <1>1, <1>4, Sizes DEF Size
<1>5. CASE m.type \notin {"DATA", "SHUTDOWN", "REST", "BLOCK", "END"}
  BY <1>1, <1>5, Sizes DEF Size
<1> QED BY <1>2, <1>3, <1>4, <1>5

\* what a message is taken for when data is expected
LEMMA AsDataType ==
  ASSUME NEW m \in Msg
  PROVE  /\ AsData(m) \in Seq(Parts) /\ Len(AsData(m)) = Size(m)
         /\ m.type = "DATA" => AsData(m) = m.code
         /\ m.type # "DATA" => \A i \in 1..Len(AsData(m)) : AsData(m)[i] = JunkPart
<1>1. m.type \in Types /\ m.n \in Nat /\ m.code \in Seq(Parts)
  BY MsgFields
<1>2. Size(m) \in Nat \ {0}
  BY SizeType
<1>3. CASE m.type = "DATA"
  BY <1>1, <1>3 DEF Size, AsData
<1>4. CASE m.type # "DATA"
  <2>1. AsData(m) = [i \in 1..Size(m) |-> JunkPart]
    BY <1>4 DEF AsData
  <2>2. AsData(m) \in Seq(Parts) /\ Len(AsData(m)) = Size(m)
    BY <1>2, <2>1, JunkPartType
  <2>3. \A i \in 1..Size(m) : AsData(m)[i] = JunkPart
    BY <2>1
  <2> QED BY <1>4, <2>2, <2>3
<1> QED BY <1>3, <1>4

\* what is left of a message in the socket
LEMMA RestType ==
  ASSUME NEW m \in Msg, NEW room \in Nat \ {0}, Size(m) > room
  PROVE  /\ Rest(m, room) \in Msg
         /\ m.type # "DATA" => Rest(m, room).type = "REST"
<1>1. m.type \in Types /\ m.n \in Nat /\ m.code \in Seq(Parts) /\ Size(m) \in Nat
  BY MsgFields, SizeType
<1>2. CASE m.type = "DATA"
  <2>1. Rest(m, room) = Message("DATA", 0, SubSeq(m.code, room + 1, Len(m.code)))
    BY <1>2 DEF Rest
  <2>2. Size(m) = Len(m.code) /\ Len(m.code) \in 1..Piece
    BY <1>2, MsgFields DEF Size
  <2>3. /\ SubSeq(m.code, room + 1, Len(m.code)) \in Seq(Parts)
        /\ Len(SubSeq(m.code, room + 1, Len(m.code))) = Len(m.code) - room
    <3>1. \A i \in (room + 1)..Len(m.code) : m.code[i] \in Parts
      BY <1>1, ElementOfSeq
    <3>2. room + 1 \in Int /\ Len(m.code) \in Int /\ room + 1 <= Len(m.code)
      BY <2>2, <1>1
    <3> QED BY <3>1, <3>2, SubSeqProperties, Z3
  <2>4. Len(m.code) - room \in 1..Piece
    BY <2>2, <1>1, Sizes
  <2>5. "DATA" \in Types
    BY DEF Types
  <2> QED BY <1>2, <2>1, <2>3, <2>4, <2>5, IsMsg
<1>3. CASE m.type # "DATA"
  <2>1. Rest(m, room) = Message("REST", Size(m) - room, <<>>)
    BY <1>3 DEF Rest
  <2>2. "REST" \in Types /\ <<>> \in Seq(Parts)
    BY DEF Types
  <2>3. Size(m) - room \in Nat /\ Size(m) - room > 0
    BY <1>1
  <2>4. Message("REST", Size(m) - room, <<>>) \in Msg
    BY <2>2, <2>3, IsMsg
  <2> QED BY <1>3, <2>1, <2>4, Fields
<1> QED BY <1>2, <1>3

-----------------------------------------------------------------------------
(* Channels and trails *)

\* the first of a queue, and the others
LEMMA Taken ==
  ASSUME NEW S, NEW q \in Seq(S), q # <<>>
  PROVE  /\ Head(q) = q[1] /\ Head(q) \in S
         /\ Tail(q) \in Seq(S) /\ Len(q) \in Nat \ {0} /\ Len(Tail(q)) = Len(q) - 1
         /\ \A i \in 1..Len(Tail(q)) : Tail(q)[i] = q[i + 1]
<1>1. Len(q) \in Nat \ {0}
  BY EmptySeq
<1>2. Head(q) = q[1]
  OBVIOUS
<1> QED BY <1>1, <1>2, HeadTailProperties

\* another one behind them
LEMMA Sent ==
  ASSUME NEW S, NEW q \in Seq(S), NEW m \in S
  PROVE  /\ Append(q, m) \in Seq(S) /\ Append(q, m) # <<>>
         /\ Len(q) \in Nat /\ Len(Append(q, m)) = Len(q) + 1
         /\ \A i \in 1..Len(q) : Append(q, m)[i] = q[i]
         /\ Append(q, m)[Len(q) + 1] = m
BY AppendProperties, LenProperties

\* the first n of them
LEMMA Kept ==
  ASSUME NEW S, NEW q \in Seq(S), NEW n \in 0..Len(q)
  PROVE  /\ SubSeq(q, 1, n) \in Seq(S) /\ Len(SubSeq(q, 1, n)) = n
         /\ \A i \in 1..n : SubSeq(q, 1, n)[i] = q[i]
<1>1. Len(q) \in Nat
  BY LenProperties
<1>2. \A i \in 1..n : q[i] \in S
  BY <1>1, ElementOfSeq
<1>3. 1 \in Int /\ n \in Int /\ n - 1 + 1 = n
  BY <1>1
<1>4. /\ SubSeq(q, 1, n) \in Seq(S)
      /\ Len(SubSeq(q, 1, n)) = IF 1 <= n THEN n - 1 + 1 ELSE 0
      /\ \A i \in 1..(n - 1 + 1) : SubSeq(q, 1, n)[i] = q[1 + i - 1]
  BY <1>2, <1>3, SubSeqProperties
<1>5. Len(SubSeq(q, 1, n)) = n
  BY <1>1, <1>4
<1>6. \A i \in 1..n : SubSeq(q, 1, n)[i] = q[i]
  BY <1>1, <1>4
<1> QED BY <1>4, <1>5, <1>6

LEMMA SenderFields ==
  ASSUME NEW a \in Sender
  PROVE  /\ a.pc \in {"idle", "start", "block", "data", "end"}
         /\ a.k \in 0..MaxStreams /\ a.len \in Nat /\ a.pos \in Nat /\ a.raw \in Nat
         /\ a.code \in Seq(Parts)
         /\ a.pos <= a.len /\ a.raw <= BlkSz
         /\ a.pc = "start" => a.pos = 0
         /\ a.pc = "block" => a.pos < a.len
         /\ a.pc = "data" => /\ a.code # <<>> /\ a.pos < a.len
                             /\ a.raw = Min2(BlkSz, a.len - a.pos)
         /\ a.pc = "end" => a.pos = a.len
BY DEF Sender

\* a trail begins with a sender's state, and so do its rests
LEMMA TrailParts ==
  ASSUME NEW h, Trail(h)
  PROVE  /\ h \in Seq(Sender) /\ Len(h) \in Nat \ {0}
         /\ \A i \in 1..Len(h) : h[i] \in Sender /\ Been(h[i])
<1>1. h \in Seq(Sender) /\ h # <<>>
  BY DEF Trail
<1>2. Len(h) \in Nat \ {0}
  BY <1>1, EmptySeq
<1>3. \A i \in 1..Len(h) : h[i] \in Sender
  BY <1>1, ElementOfSeq
<1> QED BY <1>1, <1>2, <1>3 DEF Trail

\* what holds of a trail however the state changes around it
LEMMA TrailStays ==
  ASSUME NEW h, Trail(h), \A a \in Sender : Been(a) => Been(a)'
  PROVE  Trail(h)'
<1>1. h \in Seq(Sender) /\ h # <<>>
  BY DEF Trail
<1>2. \A i \in 1..Len(h) : h[i] \in Sender /\ Been(h[i])
  BY TrailParts
<1> QED BY <1>1, <1>2 DEF Trail

LEMMA TrailTail ==
  ASSUME NEW h, Trail(h), Len(h) > 1
  PROVE  Trail(Tail(h)) /\ Len(Tail(h)) = Len(h) - 1
         /\ \A i \in 1..Len(Tail(h)) : Tail(h)[i] = h[i + 1]
<1>1. h \in Seq(Sender) /\ h # <<>> /\ Len(h) \in Nat \ {0}
      /\ \A i \in 1..Len(h) : Been(h[i])
  BY TrailParts DEF Trail
<1>2. /\ Tail(h) \in Seq(Sender) /\ Len(Tail(h)) = Len(h) - 1
      /\ \A i \in 1..Len(Tail(h)) : Tail(h)[i] = h[i + 1]
  BY <1>1, Taken
<1>3. \A i \in 1..Len(Tail(h)) : Been(Tail(h)[i])
  BY <1>1, <1>2
<1>4. Tail(h) # <<>>
  <2>1. Len(Tail(h)) > 0
    BY <1>1, <1>2
  <2>2. ASSUME Tail(h) = <<>> PROVE FALSE
    <3>1. Len(<<>>) = 0
      OBVIOUS
    <3>2. Len(<<>>) > 0
      BY <2>1, <2>2, Zenon
    <3> QED BY <3>1, <3>2
  <2> QED BY <2>2
<1> QED BY <1>2, <1>3, <1>4 DEF Trail

LEMMA TrailAppend ==
  ASSUME NEW h, Trail(h), NEW b \in Sender,
         \A a \in Sender : Been(a) => Been(a)', Been(b)'
  PROVE  Trail(Append(h, b))' /\ Len(Append(h, b)) = Len(h) + 1
         /\ \A i \in 1..Len(h) : Append(h, b)[i] = h[i]
         /\ Append(h, b)[Len(h) + 1] = b
<1>1. h \in Seq(Sender) /\ Len(h) \in Nat \ {0}
  BY TrailParts
<1>2. \A i \in 1..Len(h) : Been(h[i])'
  BY TrailParts
<1>3. /\ Append(h, b) \in Seq(Sender) /\ Append(h, b) # <<>> /\ Len(Append(h, b)) = Len(h) + 1
      /\ \A i \in 1..Len(h) : Append(h, b)[i] = h[i]
      /\ Append(h, b)[Len(h) + 1] = b
  BY <1>1, Sent
<1>4. \A i \in 1..Len(Append(h, b)) : Been(Append(h, b)[i])'
  <2>1. SUFFICES ASSUME NEW i \in 1..(Len(h) + 1) PROVE Been(Append(h, b)[i])'
    BY <1>3
  <2>2. i \in 1..Len(h) \/ i = Len(h) + 1
    BY <1>1
  <2> QED BY <1>2, <1>3, <2>2
<1> QED BY <1>3, <1>4 DEF Trail

LEMMA TrailCut ==
  ASSUME NEW h, Trail(h), NEW n \in 1..Len(h)
  PROVE  Trail(SubSeq(h, 1, n)) /\ Len(SubSeq(h, 1, n)) = n
         /\ \A i \in 1..n : SubSeq(h, 1, n)[i] = h[i]
<1>1. h \in Seq(Sender) /\ Len(h) \in Nat \ {0} /\ \A i \in 1..Len(h) : Been(h[i])
  BY TrailParts
<1>2. /\ SubSeq(h, 1, n) \in Seq(Sender) /\ Len(SubSeq(h, 1, n)) = n
      /\ \A i \in 1..n : SubSeq(h, 1, n)[i] = h[i]
  <2>1. n \in 0..Len(h)
    BY <1>1
  <2> QED BY <1>1, <2>1, Kept
<1>3. \A i \in 1..n : Been(SubSeq(h, 1, n)[i])
  BY <1>1, <1>2
<1>4. SubSeq(h, 1, n) # <<>>
  BY <1>1, <1>2, EmptySeq
<1> QED BY <1>2, <1>3, <1>4 DEF Trail

-----------------------------------------------------------------------------
(* How trails move *)

Stays == \A a \in Sender : Been(a) => Been(a)'

\* the sender sends: its next state is the new end of the agent's trail
LEMMA AheadSent ==
  ASSUME NEW g, Ahead(g), Typed, alive["sender"], Stays, NEW b \in Sender, Been(b)', s' = b,
         NEW m \in Msg, Emits(s, m, b), toAgent' = Append(toAgent, m), alive' = alive
  PROVE  Ahead(Append(g, b))' /\ Append(g, b)[1] = g[1]
<1> DEFINE k == Append(g, b)
<1>1. Trail(g) /\ Len(g) = Len(toAgent) + 1 /\ g[Len(g)] = s /\ toAgent \in Seq(Msg)
  BY DEF Ahead, Typed
<1>2. Len(g) \in Nat \ {0} /\ Len(toAgent) \in Nat
  BY <1>1, TrailParts, LenProperties
<1>3. /\ Trail(k)' /\ Len(k) = Len(g) + 1 /\ k[Len(g) + 1] = b
      /\ \A i \in 1..Len(g) : k[i] = g[i]
  BY <1>1, TrailAppend DEF Stays
<1>4. /\ Len(toAgent') = Len(toAgent) + 1 /\ toAgent'[Len(toAgent) + 1] = m
      /\ \A i \in 1..Len(toAgent) : toAgent'[i] = toAgent[i]
  BY <1>1, Sent
<1> HIDE DEF k
<1>5. Len(k) = Len(toAgent') + 1 /\ k[Len(k)] = s'
  BY <1>1, <1>2, <1>3, <1>4
<1>6. \A i \in 1..(Len(k) - 1) : Emits(k[i], toAgent'[i], k[i + 1])
  <2>0. Len(k) - 1 = Len(g)
    BY <1>2, <1>3
  <2>1. SUFFICES ASSUME NEW i \in 1..Len(g) PROVE Emits(k[i], toAgent'[i], k[i + 1])
    BY <2>0, Zenon
  <2>2. CASE i = Len(g)
    <3>1. k[i] = s /\ k[i + 1] = b /\ toAgent'[i] = m
      BY <1>1, <1>2, <1>3, <1>4, <2>2
    <3> QED BY <3>1
  <2>3. CASE i # Len(g)
    <3>1. i \in 1..(Len(g) - 1) /\ i + 1 \in 1..Len(g) /\ i \in 1..Len(g) /\ i \in 1..Len(toAgent)
      BY <1>1, <1>2, <2>3
    <3>2. k[i] = g[i] /\ k[i + 1] = g[i + 1] /\ toAgent'[i] = toAgent[i]
      BY <1>3, <1>4, <3>1
    <3>3. Emits(g[i], toAgent[i], g[i + 1])
      BY <3>1 DEF Ahead
    <3> QED BY <3>2, <3>3
  <2> QED BY <2>2, <2>3
<1>7. Ahead(k)'
  <2>1. Len(k) <= Len(toAgent') + 1
    BY <1>2, <1>3, <1>4, <1>1
  <2> QED BY <1>3, <1>5, <1>6, <2>1 DEF Ahead
<1>8. k[1] = g[1]
  <2>1. 1 \in 1..Len(g)
    BY <1>2
  <2> QED BY <1>3, <2>1
<1> QED BY <1>7, <1>8, Zenon DEF k

\* the agent takes the first message of its trail
LEMMA AheadTaken ==
  ASSUME NEW g, Ahead(g), Typed, toAgent # <<>>, Len(g) > 1, Stays,
         toAgent' = Tail(toAgent), alive' = alive, s' = s
  PROVE  Ahead(Tail(g))' /\ Tail(g)[1] = g[2]
<1>1. Trail(g) /\ Len(g) <= Len(toAgent) + 1 /\ toAgent \in Seq(Msg)
      /\ alive["sender"] \in BOOLEAN
  BY DEF Ahead, Typed, Parties
<1>2. Len(g) \in Nat \ {0}
  BY <1>1, TrailParts
<1>3. /\ Trail(Tail(g)) /\ Len(Tail(g)) = Len(g) - 1
      /\ \A i \in 1..Len(Tail(g)) : Tail(g)[i] = g[i + 1]
  BY <1>1, TrailTail
<1>4. /\ Len(toAgent) \in Nat \ {0} /\ Len(toAgent') = Len(toAgent) - 1
      /\ \A i \in 1..Len(toAgent') : toAgent'[i] = toAgent[i + 1]
  BY <1>1, Taken
<1> DEFINE k == Tail(g)
<1> HIDE DEF k
<1>5. Trail(k)'
  BY <1>3, TrailStays DEF Stays, k
<1>6. Len(k) = Len(g) - 1 /\ \A i \in 1..Len(k) : k[i] = g[i + 1]
  BY <1>3 DEF k
<1>7. Len(k) <= Len(toAgent') + 1
  BY <1>1, <1>2, <1>4, <1>6
<1>8. \A i \in 1..(Len(k) - 1) : Emits(k[i], toAgent'[i], k[i + 1])
  <2>1. SUFFICES ASSUME NEW i \in 1..(Len(k) - 1) PROVE Emits(k[i], toAgent'[i], k[i + 1])
    OBVIOUS
  <2>2. i \in 1..Len(k) /\ i + 1 \in 1..Len(k) /\ i \in 1..Len(toAgent') /\ i + 1 \in 1..(Len(g) - 1)
    BY <1>1, <1>2, <1>4, <1>6, <1>7
  <2>3. k[i] = g[i + 1] /\ k[i + 1] = g[i + 1 + 1] /\ toAgent'[i] = toAgent[i + 1]
    BY <1>4, <1>6, <2>2
  <2>4. Emits(g[i + 1], toAgent[i + 1], g[i + 1 + 1])
    BY <2>2 DEF Ahead
  <2> QED BY <2>3, <2>4
<1>9. alive["sender"] => Len(k) = Len(toAgent') + 1 /\ k[Len(k)] = s'
  <2>1. SUFFICES ASSUME alive["sender"] PROVE Len(k) = Len(toAgent') + 1 /\ k[Len(k)] = s'
    OBVIOUS
  <2>2. Len(g) = Len(toAgent) + 1 /\ g[Len(g)] = s
    BY <2>1 DEF Ahead
  <2>3. Len(k) \in 1..Len(k) /\ Len(k) + 1 = Len(g) /\ Len(k) = Len(toAgent') + 1
    BY <1>2, <1>4, <1>6, <2>2
  <2>4. k[Len(k)] = g[Len(k) + 1]
    BY <1>6, <2>3
  <2> QED BY <2>2, <2>3, <2>4
<1>10. ~alive["sender"] => \A i \in Len(k)..Len(toAgent') : toAgent'[i].type \in {"SHUTDOWN", "REST"}
  <2>1. SUFFICES ASSUME ~alive["sender"], NEW i \in Len(k)..Len(toAgent')
                 PROVE  toAgent'[i].type \in {"SHUTDOWN", "REST"}
    OBVIOUS
  <2>2. i + 1 \in Len(g)..Len(toAgent) /\ i \in 1..Len(toAgent')
    BY <1>2, <1>4, <1>6
  <2>3. toAgent'[i] = toAgent[i + 1] /\ toAgent[i + 1].type \in {"SHUTDOWN", "REST"}
    BY <1>4, <2>1, <2>2 DEF Ahead
  <2> QED BY <2>3
<1>11. k[1] = g[2]
  <2>1. 1 \in 1..Len(k)
    BY <1>2, <1>6
  <2> QED BY <1>6, <2>1
<1>12. Ahead(k)'
  BY <1>5, <1>7, <1>8, <1>9, <1>10 DEF Ahead
<1> QED BY <1>11, <1>12 DEF k

\* something that follows from the trail is sent to the receiver
LEMMA TrailedSent ==
  ASSUME NEW h, Trailed(h), Len(h) = Len(toReceiver) + 1, Follows(h[1]), Typed, Stays,
         NEW b \in Sender, Been(b)', NEW m \in Msg, Passes(h[Len(h)], m, b),
         toReceiver' = Append(toReceiver, m), kind' = kind, r' = r
  PROVE  /\ Trailed(Append(h, b))' /\ Follows(h[1])'
         /\ Append(h, b)[1] = h[1] /\ Len(Append(h, b)) = Len(toReceiver') + 1
         /\ Append(h, b)[Len(Append(h, b))] = b
<1> DEFINE k == Append(h, b)
<1>1. Trail(h) /\ toReceiver \in Seq(Msg)
  BY DEF Trailed, Typed
<1>2. Len(h) \in Nat \ {0} /\ Len(toReceiver) \in Nat
  BY <1>1, TrailParts, LenProperties
<1>3. /\ Trail(k)' /\ Len(k) = Len(h) + 1 /\ k[Len(h) + 1] = b
      /\ \A i \in 1..Len(h) : k[i] = h[i]
  BY <1>1, TrailAppend DEF Stays
<1>4. /\ Len(toReceiver') = Len(toReceiver) + 1 /\ toReceiver'[Len(toReceiver) + 1] = m
      /\ \A i \in 1..Len(toReceiver) : toReceiver'[i] = toReceiver[i]
  BY <1>1, Sent
<1> HIDE DEF k
<1>5. Len(k) = Len(toReceiver') + 1 /\ k[Len(k)] = b
  BY <1>2, <1>3, <1>4
<1>6. \A i \in 1..(Len(k) - 1) : Passes(k[i], toReceiver'[i], k[i + 1])
  <2>0. Len(k) - 1 = Len(h)
    BY <1>2, <1>3
  <2>1. SUFFICES ASSUME NEW i \in 1..Len(h) PROVE Passes(k[i], toReceiver'[i], k[i + 1])
    BY <2>0, Zenon
  <2>2. CASE i = Len(h)
    <3>1. k[i] = h[Len(h)] /\ k[i + 1] = b /\ toReceiver'[i] = m
      BY <1>2, <1>3, <1>4, <2>2
    <3> QED BY <3>1
  <2>3. CASE i # Len(h)
    <3>1. i \in 1..(Len(h) - 1) /\ i + 1 \in 1..Len(h) /\ i \in 1..Len(h) /\ i \in 1..Len(toReceiver)
      BY <1>2, <2>3
    <3>2. k[i] = h[i] /\ k[i + 1] = h[i + 1] /\ toReceiver'[i] = toReceiver[i]
      BY <1>3, <1>4, <3>1
    <3>3. Passes(h[i], toReceiver[i], h[i + 1])
      BY <3>1 DEF Trailed
    <3> QED BY <3>2, <3>3
  <2> QED BY <2>2, <2>3
<1>7. \A i \in 1..(Len(k) - 1) : Passes(k[i], toReceiver[i], k[i + 1])'
  BY <1>6 DEF Passes
<1>8. k[1] = h[1]
  <2>1. 1 \in 1..Len(h)
    BY <1>2
  <2> QED BY <1>3, <2>1
<1>9. Follows(h[1])' /\ Follows(k[1])'
  BY <1>8 DEF Follows, HasPart
<1>10. Len(k) <= Len(toReceiver') + 1 /\ \A i \in Len(k)..Len(toReceiver') : FALSE
  BY <1>2, <1>4, <1>5
<1>11. Trailed(k)'
  BY <1>3, <1>7, <1>9, <1>10 DEF Trailed
<1> QED BY <1>5, <1>8, <1>9, <1>11, Zenon DEF k

\* something else is
LEMMA TrailedJunk ==
  ASSUME NEW h, Trailed(h), Typed, Stays, NEW m \in Msg, IsJunk(m),
         toReceiver' = Append(toReceiver, m), kind' = kind, r' = r
  PROVE  Trailed(h)'
<1>1. Trail(h) /\ toReceiver \in Seq(Msg) /\ Len(h) <= Len(toReceiver) + 1
  BY DEF Trailed, Typed
<1>2. Len(h) \in Nat \ {0} /\ Len(toReceiver) \in Nat
  BY <1>1, TrailParts, LenProperties
<1>3. /\ Len(toReceiver') = Len(toReceiver) + 1 /\ toReceiver'[Len(toReceiver) + 1] = m
      /\ \A i \in 1..Len(toReceiver) : toReceiver'[i] = toReceiver[i]
  BY <1>1, Sent
<1>4. Trail(h)'
  BY <1>1, TrailStays DEF Stays
<1>5. \A i \in 1..(Len(h) - 1) : Passes(h[i], toReceiver'[i], h[i + 1])
  <2>1. SUFFICES ASSUME NEW i \in 1..(Len(h) - 1) PROVE Passes(h[i], toReceiver'[i], h[i + 1])
    OBVIOUS
  <2>2. i \in 1..Len(toReceiver)
    BY <1>1, <1>2
  <2> QED BY <1>3, <2>2 DEF Trailed
<1>6. \A i \in 1..(Len(h) - 1) : Passes(h[i], toReceiver[i], h[i + 1])'
  BY <1>5 DEF Passes
<1>7. \A i \in Len(h)..Len(toReceiver') : IsJunk(toReceiver[i])'
  <2>1. SUFFICES ASSUME NEW i \in Len(h)..Len(toReceiver') PROVE IsJunk(toReceiver[i])'
    OBVIOUS
  <2>2. CASE i = Len(toReceiver) + 1
    BY <1>3, <2>2 DEF IsJunk
  <2>3. CASE i # Len(toReceiver) + 1
    <3>1. i \in Len(h)..Len(toReceiver) /\ i \in 1..Len(toReceiver)
      BY <1>2, <1>3, <2>3
    <3>2. IsJunk(toReceiver[i]) /\ toReceiver'[i] = toReceiver[i]
      BY <1>3, <3>1 DEF Trailed
    <3> QED BY <3>2 DEF IsJunk
  <2> QED BY <2>2, <2>3
<1>8. Len(h) > 1 => Follows(h[1])'
  BY DEF Trailed, Follows, HasPart
<1>9. Len(h) <= Len(toReceiver') + 1
  BY <1>1, <1>2, <1>3
<1> QED BY <1>4, <1>6, <1>7, <1>8, <1>9 DEF Trailed

\* the receiver takes the first message, and goes where the trail goes
LEMMA TrailedTaken ==
  ASSUME NEW h, Trailed(h), Typed, Stays, Len(h) > 1, toReceiver # <<>>, Follows(h[2])',
         toReceiver' = Tail(toReceiver), kind' = kind
  PROVE  Trailed(Tail(h))' /\ Tail(h)[1] = h[2] /\ Len(Tail(h)) = Len(h) - 1
<1>1. Trail(h) /\ Len(h) <= Len(toReceiver) + 1 /\ toReceiver \in Seq(Msg)
  BY DEF Trailed, Typed
<1>2. Len(h) \in Nat \ {0}
  BY <1>1, TrailParts
<1>3. /\ Trail(Tail(h)) /\ Len(Tail(h)) = Len(h) - 1
      /\ \A i \in 1..Len(Tail(h)) : Tail(h)[i] = h[i + 1]
  BY <1>1, TrailTail
<1>4. /\ Len(toReceiver) \in Nat \ {0} /\ Len(toReceiver') = Len(toReceiver) - 1
      /\ \A i \in 1..Len(toReceiver') : toReceiver'[i] = toReceiver[i + 1]
  BY <1>1, Taken
<1> DEFINE k == Tail(h)
<1> HIDE DEF k
<1>5. Trail(k)'
  BY <1>3, TrailStays DEF Stays, k
<1>6. Len(k) = Len(h) - 1 /\ \A i \in 1..Len(k) : k[i] = h[i + 1]
  BY <1>3 DEF k
<1>7. Len(k) <= Len(toReceiver') + 1
  BY <1>1, <1>2, <1>4, <1>6
<1>8. \A i \in 1..(Len(k) - 1) : Passes(k[i], toReceiver'[i], k[i + 1])
  <2>1. SUFFICES ASSUME NEW i \in 1..(Len(k) - 1) PROVE Passes(k[i], toReceiver'[i], k[i + 1])
    OBVIOUS
  <2>2. i \in 1..Len(k) /\ i + 1 \in 1..Len(k) /\ i \in 1..Len(toReceiver') /\ i + 1 \in 1..(Len(h) - 1)
    BY <1>1, <1>2, <1>4, <1>6, <1>7
  <2>3. k[i] = h[i + 1] /\ k[i + 1] = h[i + 1 + 1] /\ toReceiver'[i] = toReceiver[i + 1]
    BY <1>4, <1>6, <2>2
  <2>4. Passes(h[i + 1], toReceiver[i + 1], h[i + 1 + 1])
    BY <2>2 DEF Trailed
  <2> QED BY <2>3, <2>4
<1>9. \A i \in 1..(Len(k) - 1) : Passes(k[i], toReceiver[i], k[i + 1])'
  BY <1>8 DEF Passes
<1>10. \A i \in Len(k)..Len(toReceiver') : IsJunk(toReceiver[i])'
  <2>1. SUFFICES ASSUME NEW i \in Len(k)..Len(toReceiver') PROVE IsJunk(toReceiver[i])'
    OBVIOUS
  <2>2. i + 1 \in Len(h)..Len(toReceiver) /\ i \in 1..Len(toReceiver')
    BY <1>2, <1>4, <1>6
  <2>3. toReceiver'[i] = toReceiver[i + 1] /\ IsJunk(toReceiver[i + 1])
    BY <1>4, <2>1, <2>2 DEF Trailed
  <2> QED BY <2>3 DEF IsJunk
<1>11. k[1] = h[2]
  <2>1. 1 \in 1..Len(k)
    BY <1>2, <1>6
  <2> QED BY <1>6, <2>1
<1>12. Follows(k[1])'
  BY <1>11
<1>13. Trailed(k)'
  BY <1>5, <1>7, <1>9, <1>10, <1>12 DEF Trailed
<1> QED BY <1>11, <1>6, <1>13 DEF k

\* or takes what does not follow from it
LEMMA TrailedJunkTaken ==
  ASSUME NEW h, Trailed(h), Typed, Stays, Len(h) = 1, toReceiver # <<>>,
         toReceiver' = Tail(toReceiver), kind' = kind
  PROVE  Trailed(h)'
<1>1. Trail(h) /\ toReceiver \in Seq(Msg)
  BY DEF Trailed, Typed
<1>2. /\ Len(toReceiver) \in Nat \ {0} /\ Len(toReceiver') = Len(toReceiver) - 1
      /\ \A i \in 1..Len(toReceiver') : toReceiver'[i] = toReceiver[i + 1]
  BY <1>1, Taken
<1>3. Trail(h)'
  BY <1>1, TrailStays DEF Stays
<1>4. Len(h) <= Len(toReceiver') + 1 /\ (\A i \in 1..(Len(h) - 1) : FALSE) /\ ~(Len(h) > 1)
  BY <1>2
<1>5. \A i \in Len(h)..Len(toReceiver') : IsJunk(toReceiver[i])'
  <2>1. SUFFICES ASSUME NEW i \in 1..Len(toReceiver') PROVE IsJunk(toReceiver[i])'
    BY Zenon
  <2>2. i + 1 \in Len(h)..Len(toReceiver)
    BY <1>2
  <2>3. toReceiver'[i] = toReceiver[i + 1] /\ IsJunk(toReceiver[i + 1])
    BY <1>2, <2>1, <2>2 DEF Trailed
  <2> QED BY <2>3 DEF IsJunk
<1> QED BY <1>3, <1>4, <1>5 DEF Trailed

\* nothing happens to the receiver and its channel
LEMMA TrailedStays ==
  ASSUME NEW h, Trailed(h), Stays, toReceiver' = toReceiver, kind' = kind, r' = r
  PROVE  Trailed(h)'
<1>1. Trail(h)'
  BY TrailStays DEF Stays, Trailed
<1>2. \A i \in 1..(Len(h) - 1) : Passes(h[i], toReceiver[i], h[i + 1])'
  BY DEF Trailed, Passes
<1>3. \A i \in Len(h)..Len(toReceiver) : IsJunk(toReceiver[i])'
  BY DEF Trailed, IsJunk
<1>4. Len(h) > 1 => Follows(h[1])'
  BY DEF Trailed, Follows, HasPart
<1> QED BY <1>1, <1>2, <1>3, <1>4 DEF Trailed

\* nothing happens to the sender and its channel
LEMMA AheadStays ==
  ASSUME NEW g, Ahead(g), Stays, toAgent' = toAgent, s' = s, alive'["sender"] = alive["sender"]
  PROVE  Ahead(g)'
<1>1. Trail(g)'
  BY TrailStays DEF Stays, Ahead
<1>2. \A i \in 1..(Len(g) - 1) : Emits(g[i], toAgent'[i], g[i + 1])
  BY DEF Ahead
<1> QED BY <1>1, <1>2 DEF Ahead

LEMMA ShutdownType ==
  /\ Shutdown \in Msg /\ Shutdown.type = "SHUTDOWN" /\ IsJunk(Shutdown)
  /\ Shutdown.n = EventSize
<1>1. Shutdown.type = "SHUTDOWN" /\ Shutdown.n = EventSize
  BY Fields DEF Shutdown
<1>2. "SHUTDOWN" \in Types /\ <<>> \in Seq(Parts)
  BY DEF Types
<1>3. Shutdown \in Msg
  BY <1>2, IsMsg, Sizes DEF Shutdown
<1> QED BY <1>1, <1>3 DEF IsJunk

\* what is left of a queue when the one at its end disappears
LEMMA CutOffParts ==
  ASSUME NEW q \in Seq(Msg), NEW p \in CutOff(q)
  PROVE  \E n \in 0..Len(q) :
           /\ p \in Seq(Msg) /\ Len(p) = n + 1 /\ p[n + 1] = Shutdown
           /\ \A i \in 1..n : p[i] = q[i]
<1>1. PICK n \in 0..Len(q) : p = Append(SubSeq(q, 1, n), Shutdown)
  BY DEF CutOff
<1>2. /\ SubSeq(q, 1, n) \in Seq(Msg) /\ Len(SubSeq(q, 1, n)) = n
      /\ \A i \in 1..n : SubSeq(q, 1, n)[i] = q[i]
  BY Kept
<1>3. PICK c : c = SubSeq(q, 1, n)
  OBVIOUS
<1>4. /\ p \in Seq(Msg) /\ Len(p) = n + 1 /\ p[n + 1] = Shutdown
      /\ \A i \in 1..n : p[i] = c[i]
  <2>1. c \in Seq(Msg) /\ Len(c) = n /\ p = Append(c, Shutdown)
    BY <1>1, <1>2, <1>3
  <2> QED BY <2>1, ShutdownType, Sent
<1> QED BY <1>2, <1>3, <1>4

\* the sender disappears: its last state in the trail is that of what arrives
LEMMA AheadCut ==
  ASSUME NEW g, Ahead(g), Typed, Stays, alive["sender"], ~alive'["sender"],
         toAgent' \in CutOff(toAgent), s' = s
  PROVE  \E k : Ahead(k)' /\ k[1] = g[1]
<1>1. Trail(g) /\ Len(g) = Len(toAgent) + 1 /\ toAgent \in Seq(Msg)
  BY DEF Ahead, Typed
<1>2. Len(g) \in Nat \ {0} /\ Len(toAgent) \in Nat
  BY <1>1, TrailParts, LenProperties
<1>3. PICK n \in 0..Len(toAgent) :
        /\ toAgent' \in Seq(Msg) /\ Len(toAgent') = n + 1 /\ toAgent'[n + 1] = Shutdown
        /\ \A i \in 1..n : toAgent'[i] = toAgent[i]
  BY <1>1, CutOffParts
<1> DEFINE k == SubSeq(g, 1, n + 1)
<1>4. n + 1 \in 1..Len(g)
  BY <1>1, <1>2
<1>5. /\ Trail(k) /\ Len(k) = n + 1
      /\ \A i \in 1..(n + 1) : k[i] = g[i]
  BY <1>1, <1>4, TrailCut
<1> HIDE DEF k
<1>6. Trail(k)'
  BY <1>5, TrailStays DEF Stays
<1>7. \A i \in 1..(Len(k) - 1) : Emits(k[i], toAgent'[i], k[i + 1])
  <2>1. SUFFICES ASSUME NEW i \in 1..(Len(k) - 1) PROVE Emits(k[i], toAgent'[i], k[i + 1])
    OBVIOUS
  <2>2. i \in 1..n /\ i \in 1..(n + 1) /\ i + 1 \in 1..(n + 1) /\ i \in 1..(Len(g) - 1)
    BY <1>1, <1>2, <1>5
  <2>3. k[i] = g[i] /\ k[i + 1] = g[i + 1] /\ toAgent'[i] = toAgent[i]
    BY <1>3, <1>5, <2>2
  <2>4. Emits(g[i], toAgent[i], g[i + 1])
    BY <2>2 DEF Ahead
  <2> QED BY <2>3, <2>4
<1>8. \A i \in Len(k)..Len(toAgent') : toAgent'[i].type \in {"SHUTDOWN", "REST"}
  <2>1. SUFFICES ASSUME NEW i \in Len(k)..Len(toAgent')
                 PROVE  toAgent'[i].type \in {"SHUTDOWN", "REST"}
    OBVIOUS
  <2>2. i = n + 1
    BY <1>3, <1>5
  <2> QED BY <1>3, <2>2, ShutdownType
<1>9. Len(k) <= Len(toAgent') + 1
  BY <1>3, <1>5
<1>10. k[1] = g[1]
  <2>1. 1 \in 1..(n + 1)
    OBVIOUS
  <2> QED BY <1>5, <2>1
<1>11. Ahead(k)'
  BY <1>6, <1>7, <1>8, <1>9 DEF Ahead
<1> QED BY <1>10, <1>11

\* the agent does
LEMMA TrailedCut ==
  ASSUME NEW h, Trailed(h), Typed, Stays, toReceiver' \in CutOff(toReceiver), kind' = kind, r' = r
  PROVE  \E k : Trailed(k)'
<1>1. Trail(h) /\ Len(h) <= Len(toReceiver) + 1 /\ toReceiver \in Seq(Msg)
  BY DEF Trailed, Typed
<1>2. Len(h) \in Nat \ {0} /\ Len(toReceiver) \in Nat
  BY <1>1, TrailParts, LenProperties
<1>3. PICK n \in 0..Len(toReceiver) :
        /\ toReceiver' \in Seq(Msg) /\ Len(toReceiver') = n + 1 /\ toReceiver'[n + 1] = Shutdown
        /\ \A i \in 1..n : toReceiver'[i] = toReceiver[i]
  BY <1>1, CutOffParts
<1>4. PICK l \in 1..Len(h) : l <= n + 1 /\ (l = n + 1 \/ l = Len(h))
  <2>1. CASE n + 1 <= Len(h)
    <3>1. n + 1 \in 1..Len(h)
      BY <1>2, <2>1
    <3> QED BY <3>1
  <2>2. CASE Len(h) < n + 1
    BY <1>2, <2>2
  <2> QED BY <1>2, <2>1, <2>2
<1> DEFINE k == SubSeq(h, 1, l)
<1>5. Trail(k) /\ Len(k) = l /\ \A i \in 1..l : k[i] = h[i]
  BY <1>1, TrailCut
<1> HIDE DEF k
<1>6. Trail(k)'
  BY <1>5, TrailStays DEF Stays
<1>7. \A i \in 1..(Len(k) - 1) : Passes(k[i], toReceiver'[i], k[i + 1])
  <2>1. SUFFICES ASSUME NEW i \in 1..(l - 1) PROVE Passes(k[i], toReceiver'[i], k[i + 1])
    BY <1>5
  <2>2. i \in 1..n /\ i \in 1..l /\ i + 1 \in 1..l /\ i \in 1..(Len(h) - 1)
    BY <1>2, <1>4
  <2>3. k[i] = h[i] /\ k[i + 1] = h[i + 1] /\ toReceiver'[i] = toReceiver[i]
    BY <1>3, <1>5, <2>2
  <2>4. Passes(h[i], toReceiver[i], h[i + 1])
    BY <2>2 DEF Trailed
  <2> QED BY <2>3, <2>4
<1>8. \A i \in 1..(Len(k) - 1) : Passes(k[i], toReceiver[i], k[i + 1])'
  BY <1>7 DEF Passes
<1>9. \A i \in Len(k)..Len(toReceiver') : IsJunk(toReceiver[i])'
  <2>1. SUFFICES ASSUME NEW i \in l..(n + 1) PROVE IsJunk(toReceiver[i])'
    BY <1>3, <1>5
  <2>2. CASE i = n + 1
    BY <1>3, <2>2, ShutdownType DEF IsJunk
  <2>3. CASE i # n + 1
    <3>1. i \in 1..n /\ i \in Len(h)..Len(toReceiver)
      BY <1>2, <1>4, <2>3
    <3>2. IsJunk(toReceiver[i]) /\ toReceiver'[i] = toReceiver[i]
      BY <1>3, <3>1 DEF Trailed
    <3> QED BY <3>2 DEF IsJunk
  <2> QED BY <2>2, <2>3
<1>10. Len(k) <= Len(toReceiver') + 1
  BY <1>3, <1>4, <1>5
<1>11. Len(k) > 1 => Follows(k[1])'
  <2>1. SUFFICES ASSUME l > 1 PROVE Follows(k[1])'
    BY <1>5
  <2>2. 1 \in 1..l /\ Len(h) > 1
    BY <1>2, <2>1
  <2>3. Follows(h[1]) /\ k[1] = h[1]
    BY <1>5, <2>2 DEF Trailed
  <2> QED BY <2>3 DEF Follows, HasPart
<1>12. Trailed(k)'
  BY <1>6, <1>8, <1>9, <1>10, <1>11 DEF Trailed
<1> QED BY <1>12

-----------------------------------------------------------------------------
(* What the sender sends follows from its state *)

\* one message sent, and where it takes the sender
Sending == /\ s' \in Sender
           /\ \E m \in Msg : toAgent' = Append(toAgent, m) /\ Emits(s, m, s')

LEMMA IsSender ==
  ASSUME NEW pc \in {"idle", "start", "block", "data", "end"}, NEW k \in 0..MaxStreams,
         NEW len \in Nat, NEW pos \in Nat, NEW raw \in Nat, NEW code \in Seq(Parts),
         pos <= len, raw <= BlkSz,
         pc = "start" => pos = 0,
         pc = "block" => pos < len,
         pc = "data" => code # <<>> /\ pos < len /\ raw = Min2(BlkSz, len - pos),
         pc = "end" => pos = len,
         NEW a, a = [pc |-> pc, k |-> k, len |-> len, pos |-> pos, raw |-> raw, code |-> code]
  PROVE  /\ a \in Sender
         /\ a.pc = pc /\ a.k = k /\ a.len = len /\ a.pos = pos /\ a.raw = raw /\ a.code = code
BY DEF Sender

\* a state of the sender as a record
LEMMA SenderRecord ==
  ASSUME NEW a \in Sender
  PROVE  a = [pc |-> a.pc, k |-> a.k, len |-> a.len, pos |-> a.pos, raw |-> a.raw, code |-> a.code]
BY DEF Sender

\* several fields at once
LEMMA SenderAnnounced ==
  ASSUME NEW a \in Sender, NEW k, NEW len,
         NEW b, b = [a EXCEPT !.pc = "start", !.k = k, !.len = len, !.pos = 0, !.raw = 0]
  PROVE  b = [pc |-> "start", k |-> k, len |-> len, pos |-> 0, raw |-> 0, code |-> a.code]
BY DEF Sender

LEMMA SenderBlock ==
  ASSUME NEW a \in Sender, NEW raw, NEW code,
         NEW b, b = [a EXCEPT !.pc = "data", !.raw = raw, !.code = code]
  PROVE  b = [pc |-> "data", k |-> a.k, len |-> a.len, pos |-> a.pos, raw |-> raw, code |-> code]
BY DEF Sender

LEMMA SenderBlockDone ==
  ASSUME NEW a \in Sender, NEW pc, NEW pos,
         NEW b, b = [a EXCEPT !.code = <<>>, !.pos = pos, !.raw = 0, !.pc = pc]
  PROVE  b = [pc |-> pc, k |-> a.k, len |-> a.len, pos |-> pos, raw |-> 0, code |-> <<>>]
BY DEF Sender

LEMMA AnnounceSends ==
  ASSUME Typed, NEW n \in Lens, Announce(n)
  PROVE  Sending /\ s'.k = s.k + 1 /\ s'.len = n
<1>1. s \in Sender /\ toAgent \in Seq(Msg) /\ n \in Nat /\ MaxStreams \in Nat
  BY StreamAssumption DEF Typed
<1>2. /\ s.pc = "idle" /\ s.k < MaxStreams
      /\ toAgent' = Append(toAgent, Message("HEAD", n, <<>>))
      /\ s' = [s EXCEPT !.pc = "start", !.k = s.k + 1, !.len = n, !.pos = 0, !.raw = 0]
  BY DEF Announce, Put
<1>3. s' = [pc |-> "start", k |-> s.k + 1, len |-> n, pos |-> 0, raw |-> 0, code |-> s.code]
  BY <1>1, <1>2, SenderAnnounced
<1>4. s.k \in 0..MaxStreams /\ s.code \in Seq(Parts)
  BY <1>1, SenderFields
<1>5. s.k + 1 \in 0..MaxStreams /\ 0 <= n /\ 0 <= BlkSz
  BY <1>1, <1>2, <1>4, Sizes
<1>6. /\ s' \in Sender
      /\ s'.pc = "start" /\ s'.k = s.k + 1 /\ s'.len = n /\ s'.pos = 0
  BY <1>1, <1>3, <1>4, <1>5, IsSender
<1>7. Message("HEAD", n, <<>>) \in Msg
  <2>1. "HEAD" \in Types /\ <<>> \in Seq(Parts)
    BY DEF Types
  <2> QED BY <1>1, <2>1, IsMsg
<1>8. Emits(s, Message("HEAD", n, <<>>), s')
  BY <1>2, <1>6, Fields DEF Emits
<1> QED BY <1>2, <1>6, <1>7, <1>8 DEF Sending

LEMMA FormatType ==
  ASSUME NEW n \in Nat
  PROVE  Format(n) \in {"RAW", "LZO"} /\ Format(n) \in Starts /\ Format(n) \in Types
BY DEF Format, Starts, Types

LEMMA StartSends ==
  ASSUME Typed, SendStart
  PROVE  Sending /\ s'.k = s.k /\ s'.len = s.len
<1>1. s \in Sender /\ toAgent \in Seq(Msg)
  BY DEF Typed
<1>2. /\ s.pc = "start"
      /\ toAgent' = Append(toAgent, Message(Format(s.len), BlkSz, <<>>))
      /\ s' = [s EXCEPT !.pc = AfterBlock(0, s.len)]
  BY DEF SendStart, Put
<1>3. s' = [pc |-> AfterBlock(0, s.len), k |-> s.k, len |-> s.len, pos |-> s.pos,
            raw |-> s.raw, code |-> s.code]
  BY <1>1, <1>2, SenderRecord
<1>4. /\ s.k \in 0..MaxStreams /\ s.len \in Nat /\ s.pos = 0 /\ s.raw \in Nat /\ s.raw <= BlkSz
      /\ s.code \in Seq(Parts)
  BY <1>1, <1>2, SenderFields
<1>5. /\ AfterBlock(0, s.len) \in {"block", "end"}
      /\ AfterBlock(0, s.len) = "block" => 0 < s.len
      /\ AfterBlock(0, s.len) = "end" => 0 = s.len
  BY <1>4 DEF AfterBlock
<1>6. /\ s' \in Sender
      /\ s'.pc = AfterBlock(0, s.len) /\ s'.k = s.k /\ s'.len = s.len /\ s'.pos = 0
  <2>1. 0 <= s.len /\ AfterBlock(0, s.len) \in {"idle", "start", "block", "data", "end"}
    BY <1>4, <1>5
  <2> QED BY <1>3, <1>4, <1>5, <2>1, IsSender
<1>7. Message(Format(s.len), BlkSz, <<>>) \in Msg
  <2>1. <<>> \in Seq(Parts) /\ BlkSz \in Nat /\ Format(s.len) \in Types
    BY Sizes, <1>4, FormatType
  <2>2. Format(s.len) \in {"RAW", "LZO"}
    BY <1>4, FormatType
  <2> QED BY <2>1, <2>2, IsMsg
<1>8. Emits(s, Message(Format(s.len), BlkSz, <<>>), s')
  BY <1>2, <1>6, Fields DEF Emits
<1> QED BY <1>2, <1>6, <1>7, <1>8 DEF Sending

LEMMA EndSends ==
  ASSUME Typed, SendEnd
  PROVE  Sending /\ s'.k = s.k /\ s'.len = s.len
<1>1. s \in Sender /\ toAgent \in Seq(Msg)
  BY DEF Typed
<1>2. /\ s.pc = "end"
      /\ toAgent' = Append(toAgent, Message("END", 0, <<>>))
      /\ s' = [s EXCEPT !.pc = "idle"]
  BY DEF SendEnd, Put, Plain
<1>3. s' = [pc |-> "idle", k |-> s.k, len |-> s.len, pos |-> s.pos, raw |-> s.raw, code |-> s.code]
  BY <1>1, <1>2, SenderRecord
<1>4. /\ s.k \in 0..MaxStreams /\ s.len \in Nat /\ s.pos \in Nat /\ s.pos <= s.len
      /\ s.raw \in Nat /\ s.raw <= BlkSz /\ s.code \in Seq(Parts)
  BY <1>1, SenderFields
<1>5. s' \in Sender /\ s'.pc = "idle" /\ s'.k = s.k /\ s'.len = s.len
  BY <1>3, <1>4, IsSender, SMTT(60)
<1>6. Message("END", 0, <<>>) \in Msg
  <2>1. "END" \in Types /\ <<>> \in Seq(Parts)
    BY DEF Types
  <2> QED BY <2>1, IsMsg
<1>7. Emits(s, Message("END", 0, <<>>), s')
  BY <1>2, <1>5, Fields DEF Emits
<1> QED BY <1>2, <1>5, <1>6, <1>7 DEF Sending

LEMMA PartFields ==
  ASSUME NEW k \in Nat, NEW from \in Nat, NEW raw \in Nat, NEW i \in Nat, NEW size \in Nat,
         NEW p, p = Part(k, from, raw, i, size)
  PROVE  /\ p \in Parts
         /\ p.k = k /\ p.from = from /\ p.raw = raw /\ p.i = i /\ p.size = size
BY DEF Part, Parts

LEMMA FunctionSeq ==
  ASSUME NEW S, NEW n \in Nat, NEW q \in [1..n -> S]
  PROVE  q \in Seq(S) /\ Len(q) = n
OBVIOUS

\* the bytes of a block
LEMMA BlockCode ==
  ASSUME NEW k \in Nat, NEW from \in Nat, NEW raw \in Nat \ {0}, NEW fmt \in {"RAW", "LZO"},
         NEW code \in IF fmt = "RAW" THEN {Stored(k, from, raw)}
                      ELSE {Compressed(k, from, raw, size) : size \in 1..(raw + 1)}
  PROVE  /\ code \in Seq(Parts) /\ Len(code) \in Nat \ {0}
         /\ fmt = "RAW" => Len(code) = raw
         /\ \A i \in 1..Len(code) : code[i] = BlockPart(fmt, k, from, raw, Len(code), i)
<1>1. CASE fmt = "RAW"
  <2>1. code = [i \in 1..raw |-> Part(k, from + i - 1, 1, 1, 1)]
    BY <1>1 DEF Stored
  <2>2. \A i \in 1..raw : from + i - 1 \in Nat
    OBVIOUS
  <2>3. \A i \in 1..raw : Part(k, from + i - 1, 1, 1, 1) \in Parts
    BY <2>2, PartFields
  <2>4. code \in [1..raw -> Parts]
    BY <2>1, <2>3
  <2>5. code \in Seq(Parts) /\ Len(code) = raw
    BY <2>4, FunctionSeq
  <2>6. \A i \in 1..Len(code) : code[i] = BlockPart(fmt, k, from, raw, Len(code), i)
    BY <1>1, <2>1, <2>5 DEF BlockPart
  <2> QED BY <2>5, <2>6
<1>2. CASE fmt = "LZO"
  <2>0. PICK size \in 1..(raw + 1) : code = Compressed(k, from, raw, size)
    BY <1>2
  <2>1. code = [i \in 1..size |-> Part(k, from, raw, i, size)]
    BY <2>0 DEF Compressed
  <2>3. \A i \in 1..size : Part(k, from, raw, i, size) \in Parts
    BY PartFields
  <2>4. code \in [1..size -> Parts]
    BY <2>1, <2>3
  <2>5. code \in Seq(Parts) /\ Len(code) = size
    BY <2>1, <2>4
  <2>6. \A i \in 1..Len(code) : code[i] = BlockPart(fmt, k, from, raw, Len(code), i)
    BY <1>2, <2>1, <2>5 DEF BlockPart
  <2> QED BY <1>2, <2>5, <2>6
<1> QED BY <1>1, <1>2

LEMMA BlockSends ==
  ASSUME Typed, SendBlock
  PROVE  Sending /\ s'.k = s.k /\ s'.len = s.len
<1>1. s \in Sender /\ toAgent \in Seq(Msg)
  BY DEF Typed
<1> DEFINE raw == Min2(BlkSz, s.len - s.pos)
<1>2. /\ s.pc = "block"
      /\ \E code \in IF Format(s.len) = "RAW" THEN {Stored(s.k, s.pos, raw)}
                     ELSE {Compressed(s.k, s.pos, raw, size) : size \in 1..(raw + 1)} :
           /\ toAgent' = Append(toAgent, Message("BLOCK", Len(code), <<>>))
           /\ s' = [s EXCEPT !.pc = "data", !.raw = raw, !.code = code]
  BY DEF SendBlock, Put
<1>3. /\ s.k \in 0..MaxStreams /\ s.k \in Nat /\ s.len \in Nat /\ s.pos \in Nat /\ s.pos < s.len
      /\ s.len - s.pos \in Nat \ {0}
  BY <1>1, <1>2, SenderFields
<1>4. raw \in Nat \ {0} /\ raw <= BlkSz
  BY <1>3, Sizes, Min2Facts
<1>5. Format(s.len) \in {"RAW", "LZO"}
  BY <1>3, FormatType
<1>6. PICK rw \in Nat \ {0}, fmt \in {"RAW", "LZO"}, k \in Nat, from \in Nat :
        rw = raw /\ fmt = Format(s.len) /\ k = s.k /\ from = s.pos
  BY <1>3, <1>4, <1>5
<1> HIDE DEF raw
<1>7. PICK code \in IF fmt = "RAW" THEN {Stored(k, from, rw)}
                    ELSE {Compressed(k, from, rw, size) : size \in 1..(rw + 1)} :
        /\ toAgent' = Append(toAgent, Message("BLOCK", Len(code), <<>>))
        /\ s' = [s EXCEPT !.pc = "data", !.raw = rw, !.code = code]
  BY <1>2, <1>6
<1>8. /\ code \in Seq(Parts) /\ Len(code) \in Nat \ {0}
      /\ fmt = "RAW" => Len(code) = rw
      /\ \A i \in 1..Len(code) : code[i] = BlockPart(fmt, k, from, rw, Len(code), i)
  BY <1>7, BlockCode
<1>9. s' = [pc |-> "data", k |-> s.k, len |-> s.len, pos |-> s.pos, raw |-> rw, code |-> code]
  BY <1>1, <1>7, SenderBlock
<1>10. /\ s' \in Sender
       /\ s'.pc = "data" /\ s'.k = s.k /\ s'.len = s.len /\ s'.pos = s.pos /\ s'.raw = rw
       /\ s'.code = code
  <2>1. code # <<>>
    <3>1. Len(<<>>) = 0
      OBVIOUS
    <3> QED BY <1>8, <3>1
  <2>2. rw <= BlkSz /\ rw = Min2(BlkSz, s.len - s.pos) /\ s.pos <= s.len /\ rw \in Nat
    BY <1>3, <1>4, <1>6 DEF raw
  <2> QED BY <1>3, <1>8, <1>9, <2>1, <2>2, IsSender
<1>11. Message("BLOCK", Len(code), <<>>) \in Msg
  <2>1. "BLOCK" \in Types /\ <<>> \in Seq(Parts) /\ Len(code) \in Nat /\ Len(code) > 0
    BY <1>8 DEF Types
  <2> QED BY <2>1, IsMsg
<1>12. Emits(s, Message("BLOCK", Len(code), <<>>), s')
  <2>1. /\ s.pc = "block" /\ Message("BLOCK", Len(code), <<>>).type = "BLOCK"
        /\ Message("BLOCK", Len(code), <<>>).n = Len(s'.code)
        /\ s'.pc = "data" /\ s'.k = s.k /\ s'.len = s.len /\ s'.pos = s.pos
    BY <1>2, <1>10, Fields
  <2>2. Format(s.len) = "RAW" => Len(s'.code) = s'.raw
    BY <1>6, <1>8, <1>10
  <2>3. \A i \in 1..Len(s'.code) :
          s'.code[i] = BlockPart(Format(s.len), s.k, s.pos, s'.raw, Len(s'.code), i)
    BY <1>6, <1>8, <1>10
  <2> QED BY <2>1, <2>2, <2>3 DEF Emits
<1> QED BY <1>7, <1>10, <1>11, <1>12 DEF Sending

LEMMA PieceSends ==
  ASSUME Typed, SendPiece
  PROVE  Sending /\ s'.k = s.k /\ s'.len = s.len
<1>1. s \in Sender /\ toAgent \in Seq(Msg)
  BY DEF Typed
<1>2. s.pc = "data"
  BY DEF SendPiece
<1>3. /\ s.k \in 0..MaxStreams /\ s.len \in Nat /\ s.pos \in Nat /\ s.pos < s.len /\ s.raw \in Nat
      /\ s.code \in Seq(Parts) /\ s.code # <<>>
      /\ s.raw = Min2(BlkSz, s.len - s.pos) /\ s.raw <= BlkSz
  BY <1>1, <1>2, SenderFields
<1>4. s.pos + s.raw \in Nat /\ s.pos + s.raw <= s.len
  <2>1. s.len - s.pos \in Nat
    BY <1>3
  <2>2. Min2(BlkSz, s.len - s.pos) <= s.len - s.pos
    BY <2>1, Sizes, Min2Facts
  <2> QED BY <1>3, <2>2
<1>5. Len(s.code) \in Nat \ {0}
  BY <1>3, EmptySeq
<1>6. PICK size \in 1..Len(s.code) : size = Min2(Piece, Len(s.code)) /\ size <= Piece
  <2>1. /\ Min2(Piece, Len(s.code)) \in Nat /\ Min2(Piece, Len(s.code)) <= Piece
        /\ Min2(Piece, Len(s.code)) <= Len(s.code)
        /\ Min2(Piece, Len(s.code)) \in {Piece, Len(s.code)}
    BY <1>5, Sizes, Min2Facts
  <2>2. Min2(Piece, Len(s.code)) \in 1..Len(s.code)
    BY <1>5, <2>1, Sizes
  <2> QED BY <2>1, <2>2
<1>7. PICK code \in Seq(Parts) :
        /\ code = SubSeq(s.code, 1, size) /\ Len(code) = size
        /\ \A i \in 1..Len(code) : code[i] = s.code[i]
  <2>1. size \in 0..Len(s.code)
    BY <1>5
  <2>2. /\ SubSeq(s.code, 1, size) \in Seq(Parts) /\ Len(SubSeq(s.code, 1, size)) = size
        /\ \A i \in 1..size : SubSeq(s.code, 1, size)[i] = s.code[i]
    BY <1>3, <2>1, Kept
  <2>3. PICK code : code = SubSeq(s.code, 1, size)
    OBVIOUS
  <2>4. code \in Seq(Parts) /\ Len(code) = size /\ \A i \in 1..Len(code) : code[i] = s.code[i]
    BY <2>2, <2>3, Zenon
  <2> QED BY <2>3, <2>4, Zenon
<1>8. PICK rest \in Seq(Parts) :
        /\ rest = SubSeq(s.code, size + 1, Len(s.code)) /\ Len(rest) = Len(s.code) - size
        /\ \A i \in 1..Len(rest) : rest[i] = s.code[size + i]
  <2>1. \A i \in (size + 1)..Len(s.code) : s.code[i] \in Parts
    BY <1>3, <1>5, ElementOfSeq
  <2>2. size + 1 \in Int /\ Len(s.code) \in Int
    BY <1>5
  <2>3. /\ SubSeq(s.code, size + 1, Len(s.code)) \in Seq(Parts)
        /\ Len(SubSeq(s.code, size + 1, Len(s.code)))
             = IF size + 1 <= Len(s.code) THEN Len(s.code) - (size + 1) + 1 ELSE 0
        /\ \A i \in 1..(Len(s.code) - (size + 1) + 1) :
             SubSeq(s.code, size + 1, Len(s.code))[i] = s.code[size + 1 + i - 1]
    BY <2>1, <2>2, SubSeqProperties
  <2>4. PICK rest : rest = SubSeq(s.code, size + 1, Len(s.code))
    OBVIOUS
  <2>5. Len(rest) = Len(s.code) - size
    BY <1>5, <2>3, <2>4
  <2>6. \A i \in 1..Len(rest) : size + 1 + i - 1 = size + i
    BY <1>5, <2>5
  <2>7. \A i \in 1..Len(rest) : rest[i] = s.code[size + 1 + i - 1]
    BY <1>5, <2>3, <2>4, <2>5
  <2> QED BY <2>3, <2>4, <2>5, <2>6, <2>7
<1>9. /\ toAgent' = Append(toAgent, Message("DATA", 0, code))
      /\ s' = IF rest # <<>> THEN [s EXCEPT !.code = rest]
              ELSE [s EXCEPT !.code = <<>>, !.pos = @ + s.raw, !.raw = 0,
                             !.pc = AfterBlock(s.pos + s.raw, s.len)]
  BY <1>6, <1>7, <1>8, Zenon DEF SendPiece, Put
<1>10. Message("DATA", 0, code) \in Msg
  <2>1. "DATA" \in Types /\ Len(code) \in 1..Piece
    BY <1>6, <1>7, Sizes DEF Types
  <2> QED BY <2>1, IsMsg
<1>11. /\ Message("DATA", 0, code).type = "DATA"
       /\ Message("DATA", 0, code).code = code
  BY Fields
<1>12. CASE rest # <<>>
  <2>1. s' = [pc |-> "data", k |-> s.k, len |-> s.len, pos |-> s.pos, raw |-> s.raw, code |-> rest]
    <3>1. s' = [s EXCEPT !.code = rest]
      BY <1>9, <1>12
    <3> QED BY <1>1, <1>2, <3>1, SenderRecord
  <2>2. /\ s' \in Sender
        /\ s'.pc = "data" /\ s'.k = s.k /\ s'.len = s.len /\ s'.pos = s.pos /\ s'.raw = s.raw
        /\ s'.code = rest
    <3>1. s.pos <= s.len
      BY <1>3
    <3> QED BY <1>3, <1>12, <2>1, <3>1, IsSender, SMTT(60)
  <2>3. Len(rest) \in Nat \ {0}
    BY <1>12, EmptySeq
  <2>4. Len(code) < Len(s.code)
    BY <1>5, <1>7, <1>8, <2>3
  <2>5. Emits(s, Message("DATA", 0, code), s')
    <3>1. /\ s.pc = "data" /\ Len(code) = Min2(Piece, Len(s.code))
          /\ \A i \in 1..Len(code) : code[i] = s.code[i]
      BY <1>2, <1>6, <1>7
    <3>2. /\ Len(s'.code) = Len(s.code) - Len(code)
          /\ \A i \in 1..Len(s'.code) : s'.code[i] = s.code[Len(code) + i]
      BY <1>7, <1>8, <2>2
    <3> QED BY <1>11, <2>2, <2>4, <3>1, <3>2 DEF Emits
  <2> QED BY <1>9, <1>10, <2>2, <2>5 DEF Sending
<1>13. CASE rest = <<>>
  <2>1. s' = [pc |-> AfterBlock(s.pos + s.raw, s.len), k |-> s.k, len |-> s.len,
              pos |-> s.pos + s.raw, raw |-> 0, code |-> <<>>]
    <3>1. s' = [s EXCEPT !.code = <<>>, !.pos = s.pos + s.raw, !.raw = 0,
                         !.pc = AfterBlock(s.pos + s.raw, s.len)]
      BY <1>9, <1>13
    <3> QED BY <1>1, <3>1, SenderBlockDone
  <2>2. /\ AfterBlock(s.pos + s.raw, s.len) \in {"block", "end"}
        /\ AfterBlock(s.pos + s.raw, s.len) = "block" => s.pos + s.raw < s.len
        /\ AfterBlock(s.pos + s.raw, s.len) = "end" => s.pos + s.raw = s.len
    BY <1>3, <1>4 DEF AfterBlock
  <2>3. /\ s' \in Sender
        /\ s'.pc = AfterBlock(s.pos + s.raw, s.len) /\ s'.k = s.k /\ s'.len = s.len
        /\ s'.pos = s.pos + s.raw
    <3>1. AfterBlock(s.pos + s.raw, s.len) \in {"idle", "start", "block", "data", "end"}
          /\ 0 <= BlkSz /\ <<>> \in Seq(Parts)
      BY <2>2, Sizes
    <3>2. PICK pc \in {"idle", "start", "block", "data", "end"}, pos \in Nat :
            pc = AfterBlock(s.pos + s.raw, s.len) /\ pos = s.pos + s.raw
      BY <1>4, <3>1
    <3>3. /\ pos <= s.len /\ pc \in {"block", "end"}
          /\ (pc = "block" => pos < s.len) /\ (pc = "end" => pos = s.len)
      BY <1>4, <2>2, <3>2
    <3>4. s' = [pc |-> pc, k |-> s.k, len |-> s.len, pos |-> pos, raw |-> 0, code |-> <<>>]
      BY <2>1, <3>2
    <3>5. PICK code0 \in Seq(Parts), raw0 \in Nat : code0 = <<>> /\ raw0 = 0
      BY <3>1
    <3>6. PICK b : b = s'
      OBVIOUS
    <3>7. b = [pc |-> pc, k |-> s.k, len |-> s.len, pos |-> pos, raw |-> raw0, code |-> code0]
      BY <3>4, <3>5, <3>6
    <3>8. pc # "start" /\ pc # "data" /\ raw0 <= BlkSz
      BY <3>1, <3>3, <3>5
    <3>9. b \in Sender /\ b.pc = pc /\ b.k = s.k /\ b.len = s.len /\ b.pos = pos
      BY <1>3, <3>2, <3>3, <3>7, <3>8, IsSender, SMTT(60)
    <3> QED BY <3>2, <3>6, <3>9
  <2>4. Len(code) = Len(s.code)
    <3>1. Len(rest) = 0
      BY <1>13
    <3> QED BY <1>5, <1>7, <1>8, <3>1
  <2>5. Emits(s, Message("DATA", 0, code), s')
    <3>1. /\ s.pc = "data" /\ Len(code) = Min2(Piece, Len(s.code))
          /\ \A i \in 1..Len(code) : code[i] = s.code[i]
      BY <1>2, <1>6, <1>7
    <3> QED BY <1>11, <2>3, <2>4, <3>1 DEF Emits
  <2> QED BY <1>9, <1>10, <2>3, <2>5 DEF Sending
<1> QED BY <1>12, <1>13

-----------------------------------------------------------------------------
(* What the agent passes on follows from what it has passed on *)

LEMMA AgentFrame ==
  ASSUME AgentOnly
  PROVE  kind' = kind /\ alive' = alive /\ r' = r /\ s' = s /\ Stays
BY DEF AgentOnly, Stays, Been

\* the agent's next message follows from its trail, or the sender is gone
LEMMA NextOfAgent ==
  ASSUME Typed, TrailInv, alive["agent"], alive["receiver"], toAgent # <<>>
  PROVE  \/ \E h, g : /\ Linked(h, g) /\ Len(g) > 1
                      /\ g[1] \in Sender /\ g[2] \in Sender /\ Been(g[2]) /\ Between(g[1])
                      /\ Emits(g[1], Head(toAgent), g[2])
         \/ Derailed /\ \E h : Trailed(h)
<1>1. CASE Derailed /\ \E h : Trailed(h)
  BY <1>1
<1>2. CASE \E h, g : Linked(h, g)
  <2>1. PICK h, g : Linked(h, g)
    BY <1>2
  <2>2. Trailed(h) /\ Ahead(g) /\ Trail(g) /\ Between(g[1]) /\ toAgent \in Seq(Msg)
    BY <2>1 DEF Linked, Ahead, Typed
  <2>3. /\ Len(g) \in Nat \ {0} /\ \A i \in 1..Len(g) : g[i] \in Sender /\ Been(g[i])
    BY <2>2, TrailParts
  <2>4. Len(toAgent) \in Nat \ {0} /\ Head(toAgent) = toAgent[1]
    BY <2>2, Taken
  <2>5. CASE Len(g) > 1
    <3>1. 1 \in 1..Len(g) /\ 2 \in 1..Len(g) /\ 1 \in 1..(Len(g) - 1) /\ 1 + 1 = 2
      BY <2>3, <2>5
    <3>2. Emits(g[1], toAgent[1], g[2])
      BY <2>2, <3>1 DEF Ahead
    <3> QED BY <2>1, <2>2, <2>3, <2>4, <2>5, <3>1, <3>2
  <2>6. CASE Len(g) = 1
    <3>1. Len(g) # Len(toAgent) + 1
      BY <2>4, <2>6
    <3>2. ~alive["sender"]
      BY <2>2, <3>1 DEF Ahead
    <3>3. \A i \in 1..Len(toAgent) : toAgent[i].type \in {"SHUTDOWN", "REST"}
      BY <2>2, <2>6, <3>2 DEF Ahead
    <3> QED BY <2>2, <3>2, <3>3 DEF Derailed
  <2>7. Len(g) = 1 \/ Len(g) > 1
    <3>1. PICK n \in Nat \ {0} : n = Len(g)
      BY <2>3
    <3>2. n = 1 \/ n > 1
      OBVIOUS
    <3> QED BY <3>1, <3>2, Zenon
  <2> QED BY <2>5, <2>6, <2>7
<1> QED BY <1>1, <1>2 DEF TrailInv

\* the agent passes on a message of the stream
LEMMA PassedOn ==
  ASSUME NEW h, NEW g, Typed, Linked(h, g), AgentOnly, alive["agent"], toAgent # <<>>, Len(g) > 1,
         toAgent' = Tail(toAgent), NEW m \in Msg, toReceiver' = Append(toReceiver, m),
         Emits(g[1], m, g[2]), Between(g[2])'
  PROVE  TrailInv'
<1>1. kind' = kind /\ alive' = alive /\ r' = r /\ s' = s /\ Stays
  BY AgentFrame
<1>2. /\ Trailed(h) /\ Len(h) = Len(toReceiver) + 1 /\ Follows(h[1])
      /\ Ahead(g) /\ h[Len(h)] = g[1]
  BY DEF Linked
<1>3. g[2] \in Sender /\ Been(g[2])
  <2>1. Len(g) \in Nat /\ \A i \in 1..Len(g) : g[i] \in Sender /\ Been(g[i])
    BY <1>2, TrailParts DEF Ahead
  <2>2. 2 \in 1..Len(g)
    BY <2>1
  <2> QED BY <2>1, <2>2
<1>4. PICK b \in Sender : b = g[2]
  BY <1>3
<1>5. Been(b)'
  BY <1>1, <1>3, <1>4 DEF Stays
<1>6. Passes(h[Len(h)], m, b)
  BY <1>2, <1>4 DEF Passes
<1>7. PICK k : k = Append(h, b)
  OBVIOUS
<1>8. PICK l : l = Tail(g)
  OBVIOUS
<1>9. Trailed(k)' /\ Follows(h[1])' /\ k[1] = h[1] /\ Len(k) = Len(toReceiver') + 1 /\ k[Len(k)] = b
  BY <1>1, <1>2, <1>5, <1>6, <1>7, TrailedSent
<1>10. Ahead(l)' /\ l[1] = b
  BY <1>1, <1>2, <1>4, <1>8, AheadTaken
<1>11. Follows(k[1])' /\ Between(l[1])'
  BY <1>4, <1>9, <1>10
<1>12. Linked(k, l)'
  BY <1>9, <1>10, <1>11 DEF Linked
<1> QED BY <1>1, <1>12 DEF TrailInv

\* an event at the end of the agent's channel, and what is left of it
LEMMA DerailedTakes ==
  ASSUME Typed, Derailed, AgentOnly, toAgent # <<>>,
         \/ toAgent' = Tail(toAgent)
         \/ \E room \in Nat \ {0} : Size(Head(toAgent)) > room /\ Left(Head(toAgent), room)
  PROVE  Derailed'
<1>1. alive' = alive /\ ~alive["sender"]
  BY AgentFrame DEF Derailed
<1>2. toAgent \in Seq(Msg)
  BY DEF Typed
<1>3. /\ Head(toAgent) = toAgent[1] /\ Head(toAgent) \in Msg /\ Tail(toAgent) \in Seq(Msg)
      /\ Len(toAgent) \in Nat \ {0} /\ Len(Tail(toAgent)) = Len(toAgent) - 1
      /\ \A i \in 1..Len(Tail(toAgent)) : Tail(toAgent)[i] = toAgent[i + 1]
  BY <1>2, Taken
<1>4. \A i \in 1..Len(toAgent) : toAgent[i].type \in {"SHUTDOWN", "REST"}
  BY DEF Derailed
<1>5. PICK t \in Seq(Msg) : t = Tail(toAgent)
  BY <1>3
<1>6. Len(t) = Len(toAgent) - 1 /\ \A i \in 1..Len(t) : t[i].type \in {"SHUTDOWN", "REST"}
  <2>1. SUFFICES ASSUME NEW i \in 1..Len(t) PROVE t[i].type \in {"SHUTDOWN", "REST"}
    BY <1>3, <1>5
  <2>2. t[i] = toAgent[i + 1] /\ i + 1 \in 1..Len(toAgent)
    BY <1>3, <1>5
  <2> QED BY <1>4, <2>2
<1>7. CASE toAgent' = Tail(toAgent)
  BY <1>1, <1>5, <1>6, <1>7 DEF Derailed
<1>8. CASE \E room \in Nat \ {0} : Size(Head(toAgent)) > room /\ Left(Head(toAgent), room)
  <2>1. PICK room \in Nat \ {0} : Size(Head(toAgent)) > room /\ Left(Head(toAgent), room)
    BY <1>8
  <2>2. Head(toAgent).type # "DATA"
    <3>1. 1 \in 1..Len(toAgent)
      BY <1>3
    <3> QED BY <1>3, <1>4, <3>1
  <2>3. PICK m \in Msg : m = Rest(Head(toAgent), room) /\ m.type = "REST"
    BY <1>3, <2>1, <2>2, RestType
  <2>4. toAgent' = <<m>> \o t
    BY <1>5, <2>1, <2>3 DEF Left
  <2>5. /\ Len(toAgent') = 1 + Len(t)
        /\ \A i \in 1..(1 + Len(t)) : toAgent'[i] = IF i <= 1 THEN m ELSE t[i - 1]
    <3>1. <<m>> \in Seq(Msg) /\ Len(<<m>>) = 1 /\ <<m>>[1] = m
      OBVIOUS
    <3>2. PICK u : u = <<m>>
      OBVIOUS
    <3>3. /\ Len(u \o t) = Len(u) + Len(t)
          /\ \A i \in 1..(Len(u) + Len(t)) : (u \o t)[i] = IF i <= Len(u) THEN u[i] ELSE t[i - Len(u)]
      BY <3>1, <3>2, ConcatProperties
    <3>4. Len(u) = 1 /\ u[1] = m /\ toAgent' = u \o t
      BY <2>4, <3>1, <3>2
    <3>5. SUFFICES ASSUME NEW i \in 1..(1 + Len(t))
                   PROVE  (u \o t)[i] = IF i <= 1 THEN m ELSE t[i - 1]
      BY <3>3, <3>4
    <3>6. (u \o t)[i] = IF i <= 1 THEN u[i] ELSE t[i - 1]
      BY <3>3, <3>4
    <3>7. i <= 1 => i = 1
      BY <1>3, <1>6
    <3> QED BY <3>4, <3>6, <3>7
  <2>6. \A i \in 1..Len(toAgent') : toAgent'[i].type \in {"SHUTDOWN", "REST"}
    <3>1. SUFFICES ASSUME NEW i \in 1..(1 + Len(t)) PROVE toAgent'[i].type \in {"SHUTDOWN", "REST"}
      BY <2>5
    <3>2. CASE i = 1
      BY <2>3, <2>5, <3>2
    <3>3. CASE i # 1
      <4>1. ~(i <= 1) /\ i - 1 \in 1..Len(t)
        BY <1>3, <1>6, <3>3
      <4> QED BY <1>6, <2>5, <4>1
    <3> QED BY <3>2, <3>3
  <2> QED BY <1>1, <2>6 DEF Derailed
<1> QED BY <1>7, <1>8

\* the agent passes on something else
LEMMA JunkPassedOn ==
  ASSUME NEW h, Typed, Trailed(h), Derailed', AgentOnly, alive["agent"],
         NEW m \in Msg, IsJunk(m), toReceiver' = Append(toReceiver, m)
  PROVE  TrailInv'
<1>1. kind' = kind /\ alive' = alive /\ r' = r /\ s' = s /\ Stays
  BY AgentFrame
<1>2. Trailed(h)'
  BY <1>1, TrailedJunk
<1> QED BY <1>1, <1>2 DEF TrailInv

\* or nothing at all
LEMMA NothingPassedOn ==
  ASSUME NEW h, Typed, Trailed(h), Derailed', AgentOnly, alive["agent"], toReceiver' = toReceiver
  PROVE  TrailInv'
<1>1. kind' = kind /\ alive' = alive /\ r' = r /\ s' = s /\ Stays
  BY AgentFrame
<1>2. Trailed(h)'
  BY <1>1, TrailedStays
<1> QED BY <1>1, <1>2 DEF TrailInv

-----------------------------------------------------------------------------
(* The agent's actions *)

\* what is sent arrives as long as the receiver is there
LEMMA SendsArrive ==
  ASSUME NEW m, Sends(m), alive["receiver"]
  PROVE  toReceiver' = Append(toReceiver, m)
BY DEF Sends, Put

LEMMA GotoPc ==
  ASSUME Typed, NEW label, Goto(label)
  PROVE  f'.pc = label /\ f'.left = f.left
BY DEF Typed, Agent, Goto

LEMMA HeadTrail ==
  ASSUME Typed, TrailInv, alive["agent"], alive["receiver"], ForwardHead
  PROVE  TrailInv'
<1>1. toAgent # <<>> /\ AgentOnly /\ toAgent \in Seq(Msg)
  BY DEF ForwardHead, Typed
<1>2. PICK w : w = Head(toAgent)
  OBVIOUS
<1>3. w \in Msg
  BY <1>1, <1>2, Taken
<1>4. PICK m : m = Message("HEAD", w.n, <<>>)
  OBVIOUS
<1>5. m \in Msg /\ m.type = "HEAD" /\ m.n = w.n
  <2>1. w.n \in Nat
    BY <1>3, MsgFields
  <2> QED BY <1>4, <2>1, PlainMsg
<1>6. toReceiver' = Append(toReceiver, m) /\ f'.pc = "start"
  <2>1. Sends(m) /\ Goto("start")
    BY <1>2, <1>4 DEF ForwardHead
  <2> QED BY <2>1, SendsArrive, GotoPc
<1>7. f.pc = IF kind = "memput" THEN "idle" ELSE "head"
  BY DEF ForwardHead, AgentAt
<1>8. IF w.type = "SHUTDOWN" THEN Left(w, Room) ELSE toAgent' = Tail(toAgent)
  BY <1>2 DEF ForwardHead, Took
<1>9. kind = "memput" => w.type = "HEAD"
  BY <1>2 DEF ForwardHead
<1>10. CASE \E h, g : /\ Linked(h, g) /\ Len(g) > 1
                      /\ g[1] \in Sender /\ g[2] \in Sender /\ Been(g[2]) /\ Between(g[1])
                      /\ Emits(g[1], Head(toAgent), g[2])
  <2>1. PICK h, g : /\ Linked(h, g) /\ Len(g) > 1 /\ g[1] \in Sender /\ g[2] \in Sender
                    /\ Between(g[1]) /\ Emits(g[1], w, g[2])
    BY <1>2, <1>10
  <2>2. g[1].pc = "idle"
    BY <1>7, <2>1 DEF Between
  <2>3. w.type = "HEAD" /\ Emits(g[1], m, g[2]) /\ g[2].pc = "start"
    BY <1>5, <2>1, <2>2 DEF Emits
  <2>4. Between(g[2])'
    BY <1>6, <2>3 DEF Between
  <2>5. toAgent' = Tail(toAgent)
    BY <1>8, <2>3
  <2> QED BY <1>1, <1>5, <1>6, <2>1, <2>3, <2>4, <2>5, PassedOn
<1>11. CASE Derailed /\ \E h : Trailed(h)
  <2>1. w.type \in {"SHUTDOWN", "REST"}
    <3>1. 1 \in 1..Len(toAgent)
      BY <1>1, Taken
    <3> QED BY <1>1, <1>2, <1>11, <3>1, Taken DEF Derailed
  <2>2. kind = "fetch"
    BY <1>9, <2>1, StreamAssumption DEF Typed
  <2>3. IsJunk(m)
    BY <1>5, <2>2 DEF IsJunk
  <2>4. Derailed'
    <3>1. CASE w.type = "SHUTDOWN"
      <4>1. w.n > Room /\ Size(w) = w.n /\ Room \in Nat \ {0}
        BY <1>3, <3>1, MsgFields, Sizes DEF Size
      <4>2. Left(Head(toAgent), Room) /\ Size(Head(toAgent)) > Room
        BY <1>2, <1>8, <3>1, <4>1
      <4> QED BY <1>1, <1>11, <4>1, <4>2, DerailedTakes
    <3>2. CASE w.type # "SHUTDOWN"
      BY <1>1, <1>8, <1>11, <3>2, DerailedTakes
    <3> QED BY <3>1, <3>2
  <2> QED BY <1>1, <1>5, <1>6, <1>11, <2>3, <2>4, JunkPassedOn
<1> QED BY <1>1, <1>10, <1>11, NextOfAgent

LEMMA StartTrail ==
  ASSUME Typed, TrailInv, alive["agent"], alive["receiver"], ForwardStart
  PROVE  TrailInv'
<1>1. toAgent # <<>> /\ AgentOnly /\ toAgent \in Seq(Msg) /\ toAgent' = Tail(toAgent)
  BY DEF ForwardStart, Typed, Took
<1>2. PICK w \in Msg : w = Head(toAgent)
  BY <1>1, Taken
<1>3. f.pc = "start"
  BY DEF ForwardStart, AgentAt
<1>4. PICK m : m = IF w.type \in Starts THEN w ELSE Plain("JUNK")
  OBVIOUS
<1>5. toReceiver' = Append(toReceiver, m) /\ f'.pc = "next"
  <2>1. Sends(m) /\ Goto("next")
    BY <1>2, <1>4 DEF ForwardStart
  <2> QED BY <2>1, SendsArrive, GotoPc
<1>6. CASE \E h, g : /\ Linked(h, g) /\ Len(g) > 1
                     /\ g[1] \in Sender /\ g[2] \in Sender /\ Been(g[2]) /\ Between(g[1])
                     /\ Emits(g[1], Head(toAgent), g[2])
  <2>1. PICK h, g : /\ Linked(h, g) /\ Len(g) > 1 /\ g[1] \in Sender /\ g[2] \in Sender
                    /\ Between(g[1]) /\ Emits(g[1], w, g[2])
    BY <1>2, <1>6
  <2>2. g[1].pc = "start" /\ g[1].len \in Nat
    BY <1>3, <2>1, SenderFields DEF Between
  <2>3. w.type = Format(g[1].len) /\ g[2].pc = AfterBlock(0, g[1].len)
    BY <2>1, <2>2 DEF Emits
  <2>4. w.type \in Starts
    BY <2>2, <2>3, FormatType
  <2>5. g[2].pc \in {"block", "end"}
    BY <2>3 DEF AfterBlock
  <2>6. Between(g[2])'
    BY <1>5, <2>5 DEF Between
  <2>7. m = w
    BY <1>4, <2>4
  <2> QED BY <1>1, <1>2, <1>5, <2>1, <2>6, <2>7, PassedOn
<1>7. CASE Derailed /\ \E h : Trailed(h)
  <2>1. w.type \in {"SHUTDOWN", "REST"}
    <3>1. 1 \in 1..Len(toAgent)
      BY <1>1, Taken
    <3> QED BY <1>1, <1>2, <1>7, <3>1, Taken DEF Derailed
  <2>2. m = Message("JUNK", 0, <<>>) /\ w.type \notin Starts
    BY <1>4, <2>1 DEF Starts, Plain
  <2>3. m \in Msg /\ m.type = "JUNK"
    BY <2>2, PlainMsg
  <2>4. IsJunk(m)
    BY <2>3 DEF IsJunk
  <2>5. Derailed'
    BY <1>1, <1>7, DerailedTakes
  <2> QED BY <1>1, <1>5, <1>7, <2>3, <2>4, <2>5, JunkPassedOn
<1> QED BY <1>1, <1>6, <1>7, NextOfAgent

LEMMA EndTrail ==
  ASSUME Typed, TrailInv, alive["agent"], alive["receiver"], ForwardEnd
  PROVE  TrailInv'
<1>1. toAgent # <<>> /\ AgentOnly /\ toAgent \in Seq(Msg) /\ toAgent' = Tail(toAgent)
  BY DEF ForwardEnd, Typed, Took
<1>2. PICK w \in Msg : w = Head(toAgent) /\ w.type = "END"
  BY <1>1, Taken DEF ForwardEnd
<1>3. f.pc = "next"
  BY DEF ForwardEnd, AgentAt
<1>4. PICK m : m = Plain("END")
  OBVIOUS
<1>5. toReceiver' = Append(toReceiver, m) /\ f'.pc = "idle"
  <2>1. Sends(m) /\ Goto("idle")
    BY <1>4 DEF ForwardEnd
  <2> QED BY <2>1, SendsArrive, GotoPc
<1>6. m \in Msg /\ m.type = "END"
  BY <1>4, PlainMsg DEF Plain
<1>7. CASE \E h, g : /\ Linked(h, g) /\ Len(g) > 1
                     /\ g[1] \in Sender /\ g[2] \in Sender /\ Been(g[2]) /\ Between(g[1])
                     /\ Emits(g[1], Head(toAgent), g[2])
  <2>1. PICK h, g : /\ Linked(h, g) /\ Len(g) > 1 /\ g[1] \in Sender /\ g[2] \in Sender
                    /\ Between(g[1]) /\ Emits(g[1], w, g[2])
    BY <1>2, <1>7
  <2>2. g[1].pc = "end" /\ g[2].pc = "idle" /\ Emits(g[1], m, g[2])
    <3>1. g[1].pc \in {"block", "end"}
      BY <1>3, <2>1 DEF Between
    <3> QED BY <1>2, <1>6, <2>1, <3>1 DEF Emits
  <2>3. Between(g[2])'
    BY <1>5, <2>2 DEF Between
  <2> QED BY <1>1, <1>5, <1>6, <2>1, <2>2, <2>3, PassedOn
<1>8. CASE Derailed /\ \E h : Trailed(h)
  <2>1. w.type \in {"SHUTDOWN", "REST"}
    <3>1. 1 \in 1..Len(toAgent)
      BY <1>1, Taken
    <3> QED BY <1>1, <1>2, <1>8, <3>1, Taken DEF Derailed
  <2> QED BY <1>2, <2>1
<1> QED BY <1>1, <1>7, <1>8, NextOfAgent

LEMMA BlockTrail ==
  ASSUME Typed, TrailInv, alive["agent"], alive["receiver"], ForwardBlock
  PROVE  TrailInv'
<1>1. toAgent # <<>> /\ AgentOnly /\ toAgent \in Seq(Msg) /\ toAgent' = Tail(toAgent)
  BY DEF ForwardBlock, Typed, Took
<1>2. PICK w \in Msg : w = Head(toAgent) /\ w.type = "BLOCK"
  BY <1>1, Taken DEF ForwardBlock
<1>3. f.pc = "next"
  BY DEF ForwardBlock, AgentAt
<1>4. toReceiver' = Append(toReceiver, w) /\ f'.pc = "data" /\ f'.left = w.n
  <2>1. Sends(w) /\ f' = [f EXCEPT !.pc = "data", !.left = w.n]
    BY <1>2 DEF ForwardBlock
  <2> QED BY <2>1, SendsArrive DEF Typed, Agent
<1>5. CASE \E h, g : /\ Linked(h, g) /\ Len(g) > 1
                     /\ g[1] \in Sender /\ g[2] \in Sender /\ Been(g[2]) /\ Between(g[1])
                     /\ Emits(g[1], Head(toAgent), g[2])
  <2>1. PICK h, g : /\ Linked(h, g) /\ Len(g) > 1 /\ g[1] \in Sender /\ g[2] \in Sender
                    /\ Between(g[1]) /\ Emits(g[1], w, g[2])
    BY <1>2, <1>5
  <2>2. g[2].pc = "data" /\ w.n = Len(g[2].code)
    <3>1. g[1].pc \in {"block", "end"}
      BY <1>3, <2>1 DEF Between
    <3> QED BY <1>2, <2>1, <3>1 DEF Emits
  <2>3. Between(g[2])'
    BY <1>4, <2>2 DEF Between
  <2> QED BY <1>1, <1>2, <1>4, <2>1, <2>3, PassedOn
<1>6. CASE Derailed /\ \E h : Trailed(h)
  <2>1. w.type \in {"SHUTDOWN", "REST"}
    <3>1. 1 \in 1..Len(toAgent)
      BY <1>1, Taken
    <3> QED BY <1>1, <1>2, <1>6, <3>1, Taken DEF Derailed
  <2> QED BY <1>2, <2>1
<1> QED BY <1>1, <1>5, <1>6, NextOfAgent

\* nothing changes that a trail depends on
LEMMA AllStays ==
  ASSUME TrailInv, UNCHANGED <<kind, alive, toAgent, toReceiver, s, f, r>>
  PROVE  TrailInv'
<1>1. Stays
  BY DEF Stays, Been
<1>2. ASSUME NEW h, Trailed(h) PROVE Trailed(h)'
  BY <1>1, <1>2, TrailedStays
<1>3. ASSUME NEW h, NEW g, Linked(h, g) PROVE Linked(h, g)'
  <2>1. Trailed(h)' /\ Ahead(g)'
    BY <1>1, <1>2, <1>3, AheadStays DEF Linked
  <2>2. Follows(h[1])' /\ Between(g[1])'
    BY <1>3 DEF Linked, Follows, HasPart, Between
  <2>3. Len(h) = Len(toReceiver') + 1 /\ h[Len(h)] = g[1]
    BY <1>3 DEF Linked
  <2> QED BY <2>1, <2>2, <2>3 DEF Linked
<1>4. Derailed => Derailed'
  BY DEF Derailed
<1> QED BY <1>2, <1>3, <1>4 DEF TrailInv

\* the types of what is left when the sender is gone
LEMMA DerailedHead ==
  ASSUME Typed, Derailed, toAgent # <<>>
  PROVE  Head(toAgent) \in Msg /\ Head(toAgent).type \in {"SHUTDOWN", "REST"} /\ ~alive["sender"]
<1>1. toAgent \in Seq(Msg)
  BY DEF Typed
<1>2. 1 \in 1..Len(toAgent) /\ Head(toAgent) = toAgent[1] /\ Head(toAgent) \in Msg
  BY <1>1, Taken
<1> QED BY <1>2 DEF Derailed

\* the agent's assertions need a client to be gone
LEMMA MisfitTrail ==
  ASSUME Typed, TrailInv, alive["agent"], alive["receiver"], ForwardMisfit
  PROVE  TrailInv' /\ ~alive["sender"]
<1>1. toAgent # <<>> /\ Head(toAgent).type \notin {"BLOCK", "END"} /\ f.pc = "next"
  BY DEF ForwardMisfit, AgentAt
<1>2. ~ \E h, g : /\ Linked(h, g) /\ Len(g) > 1
                  /\ g[1] \in Sender /\ g[2] \in Sender /\ Been(g[2]) /\ Between(g[1])
                  /\ Emits(g[1], Head(toAgent), g[2])
  <2>1. SUFFICES ASSUME NEW g, Between(g[1]), Emits(g[1], Head(toAgent), g[2]) PROVE FALSE
    OBVIOUS
  <2>2. g[1].pc \in {"block", "end"}
    BY <1>1, <2>1 DEF Between
  <2> QED BY <1>1, <2>1, <2>2 DEF Emits
<1>3. Derailed /\ \E h : Trailed(h)
  BY <1>1, <1>2, NextOfAgent
<1>4. PICK w \in Msg : w = Head(toAgent)
  BY <1>1, <1>3, DerailedHead
<1>5. CASE Size(w) <= Room
  <2>1. Crash("forward")
    BY <1>4, <1>5 DEF ForwardMisfit
  <2> QED BY <1>3, <2>1, AllStays DEF Crash, Derailed
<1>6. CASE ~(Size(w) <= Room)
  <2>1. Left(Head(toAgent), Room) /\ toReceiver' = toReceiver /\ AgentOnly
    BY <1>4, <1>6 DEF ForwardMisfit
  <2>2. Room \in Nat \ {0} /\ Size(Head(toAgent)) > Room
    BY <1>4, <1>6, SizeType, Sizes
  <2>3. Derailed'
    BY <1>1, <1>3, <2>1, <2>2, DerailedTakes
  <2> QED BY <1>3, <2>1, <2>3, NothingPassedOn DEF Derailed
<1> QED BY <1>5, <1>6

LEMMA PieceTrail ==
  ASSUME Typed, TrailInv, alive["agent"], alive["receiver"], ForwardPiece
  PROVE  TrailInv'
<1>1. toAgent # <<>> /\ AgentOnly /\ toAgent \in Seq(Msg) /\ f.pc = "data"
  BY DEF ForwardPiece, AgentAt, Typed
<1>2. PICK w \in Msg : w = Head(toAgent)
  BY <1>1, Taken
<1>3. f.left \in Nat \ {0}
  BY <1>1 DEF Typed, Agent
<1>4. PICK room \in Nat \ {0} : room = Min2(Piece, f.left) /\ room <= Piece /\ room <= f.left
  <2>1. /\ Min2(Piece, f.left) \in Nat /\ Min2(Piece, f.left) <= Piece
        /\ Min2(Piece, f.left) <= f.left /\ Min2(Piece, f.left) \in {Piece, f.left}
    BY <1>3, Sizes, Min2Facts
  <2> QED BY <1>3, <2>1, Sizes
<1>5. PICK size \in Nat \ {0} : size = Size(w)
  BY SizeType
<1>6. PICK m : m = Message("DATA", 0, AsData(w))
  OBVIOUS
<1>7. /\ AsData(w) \in Seq(Parts) /\ Len(AsData(w)) = size
      /\ w.type = "DATA" => AsData(w) = w.code
      /\ w.type # "DATA" => \A i \in 1..Len(AsData(w)) : AsData(w)[i] = JunkPart
  BY <1>5, AsDataType
<1>8. CASE size > room
  <2>1. Left(w, room) /\ toReceiver' = toReceiver
    BY <1>2, <1>4, <1>5, <1>8 DEF ForwardPiece
  <2>2. ~ \E h, g : /\ Linked(h, g) /\ Len(g) > 1
                    /\ g[1] \in Sender /\ g[2] \in Sender /\ Been(g[2]) /\ Between(g[1])
                    /\ Emits(g[1], Head(toAgent), g[2])
    <3>1. SUFFICES ASSUME NEW g, Between(g[1]), Emits(g[1], w, g[2]) PROVE FALSE
      BY <1>2
    <3>2. g[1].pc = "data" /\ f.left = Len(g[1].code)
      BY <1>1, <3>1 DEF Between
    <3>3. w.type = "DATA" /\ Len(w.code) = room
      BY <1>4, <3>1, <3>2 DEF Emits
    <3> QED BY <1>5, <1>8, <3>3 DEF Size
  <2>3. Derailed /\ \E h : Trailed(h)
    BY <1>1, <2>2, NextOfAgent
  <2>4. Left(Head(toAgent), room) /\ Size(Head(toAgent)) > room
    BY <1>2, <1>5, <1>8, <2>1
  <2>5. Derailed'
    BY <1>1, <2>3, <2>4, DerailedTakes
  <2> QED BY <1>1, <2>1, <2>3, <2>5, NothingPassedOn
<1>9. CASE ~(size > room)
  <2>1. /\ toAgent' = Tail(toAgent) /\ Sends(m)
        /\ f' = [f EXCEPT !.left = f.left - size, !.pc = IF f.left > size THEN "data" ELSE "next"]
    BY <1>2, <1>4, <1>5, <1>6, <1>9 DEF ForwardPiece, Took
  <2>2. toReceiver' = Append(toReceiver, m)
    BY <2>1, SendsArrive
  <2>3. f'.left = f.left - size /\ f'.pc = IF f.left > size THEN "data" ELSE "next"
    BY <2>1 DEF Typed, Agent
  <2>4. m \in Msg /\ m.type = "DATA" /\ m.code = AsData(w)
    <3>1. "DATA" \in Types /\ Len(AsData(w)) \in 1..Piece
      BY <1>4, <1>5, <1>7, <1>9, Sizes DEF Types
    <3>2. Message("DATA", 0, AsData(w)) \in Msg
      BY <1>7, <3>1, IsMsg
    <3> QED BY <1>6, <3>2, Fields
  <2>5. CASE \E h, g : /\ Linked(h, g) /\ Len(g) > 1
                       /\ g[1] \in Sender /\ g[2] \in Sender /\ Been(g[2]) /\ Between(g[1])
                       /\ Emits(g[1], Head(toAgent), g[2])
    <3>1. PICK h, g : /\ Linked(h, g) /\ Len(g) > 1 /\ g[1] \in Sender /\ g[2] \in Sender
                      /\ Between(g[1]) /\ Emits(g[1], w, g[2])
      BY <1>2, <2>5
    <3>2. g[1].pc = "data" /\ f.left = Len(g[1].code)
      BY <1>1, <3>1 DEF Between
    <3>3. w.type = "DATA" /\ Len(w.code) = size /\ m.code = w.code
      <4>1. w.type = "DATA"
        BY <3>1, <3>2 DEF Emits
      <4> QED BY <1>7, <2>4, <4>1
    <3>4. Emits(g[1], m, g[2])
      BY <2>4, <3>1, <3>2, <3>3 DEF Emits
    <3>5. Between(g[2])'
      <4>1. CASE size < f.left
        <5>1. g[2].pc = "data" /\ Len(g[2].code) = f.left - size
          BY <1>3, <3>1, <3>2, <3>3, <4>1 DEF Emits
        <5>2. f'.left = f.left - size /\ f'.pc = "data"
          BY <1>3, <2>3, <4>1
        <5> QED BY <5>1, <5>2 DEF Between
      <4>2. CASE size = f.left
        <5>1. g[2].pc \in {"block", "end"}
          BY <1>3, <3>1, <3>2, <3>3, <4>2 DEF Emits, AfterBlock
        <5>2. f'.pc = "next"
          BY <1>3, <2>3, <4>2
        <5> QED BY <5>1, <5>2 DEF Between
      <4> QED BY <1>3, <1>4, <1>9, <4>1, <4>2
    <3> QED BY <1>1, <2>1, <2>2, <2>4, <3>1, <3>4, <3>5, PassedOn
  <2>6. CASE Derailed /\ \E h : Trailed(h)
    <3>1. w.type \in {"SHUTDOWN", "REST"}
      BY <1>1, <1>2, <2>6, DerailedHead
    <3>2. IsJunk(m)
      <4>1. \A i \in 1..Len(m.code) : m.code[i] = JunkPart
        BY <1>7, <2>4, <3>1
      <4> QED BY <2>4, <4>1 DEF IsJunk
    <3>3. Derailed'
      BY <1>1, <2>1, <2>6, DerailedTakes
    <3> QED BY <1>1, <2>2, <2>4, <2>6, <3>2, <3>3, JunkPassedOn
  <2> QED BY <1>1, <2>5, <2>6, NextOfAgent
<1> QED BY <1>8, <1>9

LEMMA FailsTrail ==
  ASSUME Typed, TrailInv, alive["agent"], alive["receiver"], ForwardFails
  PROVE  TrailInv'
<1>1. ~alive["sender"] /\ toAgent = <<>> /\ toAgent' = <<>> /\ toReceiver' = toReceiver /\ AgentOnly
  BY DEF ForwardFails
<1>2. Derailed'
  BY <1>1, AgentFrame DEF Derailed
<1>3. \E h : Trailed(h)
  BY DEF TrailInv, Linked
<1> QED BY <1>1, <1>2, <1>3, NothingPassedOn

\* data are never taken for a message
LEMMA StrayTrail ==
  ASSUME Typed, TrailInv, alive["agent"], alive["receiver"], Stray
  PROVE  TrailInv' /\ toAgent' = Tail(toAgent) /\ AgentOnly
<1>1. toAgent # <<>> /\ f.pc = "idle" /\ Head(toAgent).type # "HEAD"
  BY DEF Stray, AgentAt
<1>2. ~ \E h, g : /\ Linked(h, g) /\ Len(g) > 1
                  /\ g[1] \in Sender /\ g[2] \in Sender /\ Been(g[2]) /\ Between(g[1])
                  /\ Emits(g[1], Head(toAgent), g[2])
  <2>1. SUFFICES ASSUME NEW g, Between(g[1]), Emits(g[1], Head(toAgent), g[2]) PROVE FALSE
    OBVIOUS
  <2>2. g[1].pc = "idle"
    BY <1>1, <2>1 DEF Between
  <2> QED BY <1>1, <2>1, <2>2 DEF Emits
<1>3. Derailed /\ \E h : Trailed(h)
  BY <1>1, <1>2, NextOfAgent
<1>4. Head(toAgent).type # "DATA"
  BY <1>1, <1>3, DerailedHead
<1>5. toAgent' = Tail(toAgent) /\ toReceiver' = toReceiver /\ AgentOnly
  BY <1>4 DEF Stray, Took
<1>6. Derailed'
  BY <1>1, <1>3, <1>5, DerailedTakes
<1> QED BY <1>3, <1>5, <1>6, NothingPassedOn

LEMMA PingTrail ==
  ASSUME Typed, TrailInv, alive["agent"], alive["receiver"], AgentPings
  PROVE  TrailInv'
<1>1. f.pc = "idle" /\ kind = "memput" /\ AgentOnly /\ toAgent' = toAgent
  BY DEF AgentPings, AgentAt
<1>2. PICK m : m = Plain("PING")
  OBVIOUS
<1>3. m \in Msg /\ m.type = "PING"
  BY <1>2, PlainMsg DEF Plain
<1>4. toReceiver' = Append(toReceiver, m) /\ f'.pc = "pong"
  <2>1. Goto("pong") /\ toReceiver' = Append(toReceiver, m)
    BY <1>2 DEF AgentPings, Put
  <2> QED BY <2>1, GotoPc
<1>5. kind' = kind /\ alive' = alive /\ r' = r /\ s' = s /\ Stays
  BY <1>1, AgentFrame
<1>6. CASE \E h, g : Linked(h, g)
  <2>1. PICK h, g : Linked(h, g)
    BY <1>6
  <2>2. /\ Trailed(h) /\ Len(h) = Len(toReceiver) + 1 /\ Follows(h[1])
        /\ Ahead(g) /\ h[Len(h)] = g[1] /\ Between(g[1])
    BY <2>1 DEF Linked
  <2>3. Len(g) \in Nat \ {0} /\ \A i \in 1..Len(g) : g[i] \in Sender /\ Been(g[i])
    BY <2>2, TrailParts DEF Ahead
  <2>4. 1 \in 1..Len(g)
    BY <2>3
  <2>5. PICK b \in Sender : b = g[1] /\ Been(b)
    BY <2>3, <2>4
  <2>6. b.pc = "idle"
    BY <1>1, <2>2, <2>5 DEF Between
  <2>7. Passes(h[Len(h)], m, b)
    BY <1>1, <1>3, <2>2, <2>5, <2>6 DEF Passes
  <2>8. Been(b)'
    BY <1>5, <2>5 DEF Stays
  <2>9. PICK k : k = Append(h, b)
    OBVIOUS
  <2>10. /\ Trailed(k)' /\ Follows(h[1])' /\ k[1] = h[1] /\ Len(k) = Len(toReceiver') + 1
         /\ k[Len(k)] = b
    BY <1>3, <1>4, <1>5, <2>2, <2>7, <2>8, <2>9, TrailedSent
  <2>11. Follows(k[1])'
    BY <2>10
  <2>12. Ahead(g)'
    BY <1>1, <1>5, <2>2, AheadStays
  <2>13. Between(g[1])'
    BY <1>4, <2>5, <2>6 DEF Between
  <2>14. Linked(k, g)'
    BY <2>5, <2>10, <2>11, <2>12, <2>13 DEF Linked
  <2> QED BY <1>5, <2>14 DEF TrailInv
<1>7. CASE Derailed /\ \E h : Trailed(h)
  <2>1. Derailed'
    BY <1>1, <1>5, <1>7 DEF Derailed
  <2>2. IsJunk(m)
    BY <1>3 DEF IsJunk
  <2> QED BY <1>1, <1>3, <1>4, <1>7, <2>1, <2>2, JunkPassedOn
<1> QED BY <1>6, <1>7 DEF TrailInv

LEMMA PongedTrail ==
  ASSUME Typed, TrailInv, alive["agent"], alive["receiver"], AgentPonged
  PROVE  TrailInv'
<1>1. f.pc = "pong" /\ UNCHANGED <<kind, alive, toAgent, toReceiver, s, r>> /\ f'.pc = "idle"
  <2>1. Goto("idle")
    BY DEF AgentPonged
  <2> QED BY <2>1, GotoPc DEF AgentPonged
<1>2. Stays
  BY <1>1 DEF Stays, Been
<1>3. ASSUME NEW h, Trailed(h) PROVE Trailed(h)'
  BY <1>1, <1>2, <1>3, TrailedStays
<1>4. ASSUME NEW h, NEW g, Linked(h, g) PROVE Linked(h, g)'
  <2>1. Trailed(h)' /\ Ahead(g)'
    BY <1>1, <1>2, <1>3, <1>4, AheadStays DEF Linked
  <2>2. Follows(h[1])'
    BY <1>1, <1>4 DEF Linked, Follows, HasPart
  <2>3. Len(h) = Len(toReceiver') + 1 /\ h[Len(h)] = g[1]
    BY <1>1, <1>4 DEF Linked
  <2>4. Between(g[1])'
    BY <1>1, <1>4 DEF Linked, Between
  <2> QED BY <2>1, <2>2, <2>3, <2>4 DEF Linked
<1>5. Derailed => Derailed'
  BY <1>1 DEF Derailed
<1> QED BY <1>1, <1>3, <1>4, <1>5 DEF TrailInv

-----------------------------------------------------------------------------
(* The receiver *)

\* the receiver's next message follows from its trail, or somebody is gone
LEMMA NextOfReceiver ==
  ASSUME Typed, TrailInv, alive["receiver"], toReceiver # <<>>
  PROVE  \/ \E h : /\ Trailed(h) /\ Len(h) > 1
                   /\ \/ ~alive["agent"] \/ Derailed
                      \/ alive["agent"] /\ \E g : Linked(h, g)
                   /\ h[1] \in Sender /\ h[2] \in Sender /\ Been(h[2]) /\ Follows(h[1])
                   /\ Passes(h[1], Head(toReceiver), h[2])
         \/ /\ ~alive["agent"] \/ Derailed
            /\ IsJunk(Head(toReceiver))
            /\ \E h : Trailed(h) /\ Len(h) = 1
<1>1. ASSUME NEW h, Trailed(h)
      PROVE  \/ /\ Len(h) > 1 /\ h[1] \in Sender /\ h[2] \in Sender /\ Been(h[2])
                /\ Follows(h[1]) /\ Passes(h[1], Head(toReceiver), h[2])
             \/ Len(h) = 1 /\ IsJunk(Head(toReceiver))
  <2>1. Trail(h) /\ toReceiver \in Seq(Msg)
    BY <1>1 DEF Trailed, Typed
  <2>2. Len(h) \in Nat \ {0} /\ \A i \in 1..Len(h) : h[i] \in Sender /\ Been(h[i])
    BY <2>1, TrailParts
  <2>3. Len(toReceiver) \in Nat \ {0} /\ Head(toReceiver) = toReceiver[1]
    BY <2>1, Taken
  <2>4. CASE Len(h) > 1
    <3>1. 1 \in 1..Len(h) /\ 2 \in 1..Len(h) /\ 1 \in 1..(Len(h) - 1) /\ 1 + 1 = 2
      BY <2>2, <2>4
    <3>2. Passes(h[1], toReceiver[1], h[2])
      BY <1>1, <3>1 DEF Trailed
    <3>3. Follows(h[1])
      BY <1>1, <2>4 DEF Trailed
    <3> QED BY <2>2, <2>3, <2>4, <3>1, <3>2, <3>3
  <2>5. CASE Len(h) = 1
    <3>1. 1 \in Len(h)..Len(toReceiver)
      BY <2>3, <2>5
    <3>2. IsJunk(toReceiver[1])
      BY <1>1, <3>1 DEF Trailed
    <3> QED BY <2>3, <2>5, <3>2
  <2>6. PICK n \in Nat \ {0} : n = Len(h)
    BY <2>2
  <2>7. n = 1 \/ n > 1
    OBVIOUS
  <2> QED BY <2>4, <2>5, <2>6, <2>7, Zenon
<1>2. CASE ~alive["agent"]
  <2>1. PICK h : Trailed(h)
    BY <1>2 DEF TrailInv
  <2> QED BY <1>1, <1>2, <2>1
<1>3. CASE alive["agent"] /\ Derailed /\ \E h : Trailed(h)
  <2>1. PICK h : Trailed(h)
    BY <1>3
  <2> QED BY <1>1, <1>3, <2>1
<1>4. CASE alive["agent"] /\ \E h, g : Linked(h, g)
  <2>1. PICK h, g : Linked(h, g)
    BY <1>4
  <2>2. Trailed(h) /\ Len(h) = Len(toReceiver) + 1 /\ toReceiver \in Seq(Msg)
    BY <2>1 DEF Linked, Typed
  <2>3. Len(toReceiver) \in Nat \ {0}
    BY <2>2, Taken
  <2>4. Len(h) # 1
    BY <2>2, <2>3
  <2> QED BY <1>1, <1>4, <2>1, <2>2, <2>4
<1> QED BY <1>2, <1>3, <1>4 DEF TrailInv

\* what the receiver's steps leave alone
Aside == UNCHANGED <<kind, alive, toAgent, s, f>>

\* the receiver takes the next message of its trail and follows it
LEMMA FollowedOn ==
  ASSUME NEW h, Typed, TrailInv, alive["receiver"], toReceiver # <<>>, Aside, Stays,
         Trailed(h), Len(h) > 1,
         ~alive["agent"] \/ Derailed \/ (alive["agent"] /\ \E g : Linked(h, g)),
         toReceiver' = Tail(toReceiver), Follows(h[2])'
  PROVE  TrailInv'
<1>1. kind' = kind /\ alive' = alive
  BY DEF Aside
<1>2. PICK k : k = Tail(h)
  OBVIOUS
<1>3. Trailed(k)' /\ k[1] = h[2] /\ Len(k) = Len(h) - 1
  BY <1>1, <1>2, TrailedTaken
<1>4. CASE ~alive["agent"]
  BY <1>1, <1>3, <1>4 DEF TrailInv
<1>5. CASE Derailed
  <2>1. Derailed'
    BY <1>5 DEF Aside, Derailed
  <2> QED BY <1>1, <1>3, <2>1 DEF TrailInv
<1>6. CASE alive["agent"] /\ \E g : Linked(h, g)
  <2>1. PICK g : Linked(h, g)
    BY <1>6
  <2>2. Len(h) = Len(toReceiver) + 1 /\ Ahead(g) /\ h[Len(h)] = g[1] /\ Between(g[1])
    BY <2>1 DEF Linked
  <2>3. Ahead(g)' /\ Between(g[1])'
    BY <2>2, AheadStays DEF Aside, Between
  <2>4. toReceiver \in Seq(Msg)
    BY DEF Typed
  <2>5. Len(toReceiver) \in Nat \ {0} /\ Len(toReceiver') = Len(toReceiver) - 1
    BY <2>4, Taken
  <2>6. Len(k) = Len(toReceiver') + 1
    BY <1>3, <2>2, <2>5
  <2>7. k[Len(k)] = h[Len(h)]
    <3>1. h \in Seq(Sender) /\ h # <<>>
      BY DEF Trailed, Trail
    <3>2. Len(k) \in 1..Len(k) /\ Len(k) + 1 = Len(h)
      BY <2>2, <2>5, <2>6
    <3>3. \A i \in 1..Len(k) : k[i] = h[i + 1]
      BY <1>2, <3>1, Taken
    <3> QED BY <3>2, <3>3
  <2>8. Follows(k[1])'
    BY <1>3
  <2>9. Linked(k, g)'
    BY <1>3, <2>2, <2>3, <2>6, <2>7, <2>8 DEF Linked
  <2> QED BY <1>1, <1>6, <2>9 DEF TrailInv
<1> QED BY <1>4, <1>5, <1>6

\* or something else, which leaves its trail where it is
LEMMA JunkTaken ==
  ASSUME NEW h, Typed, alive["receiver"], toReceiver # <<>>, Aside, Stays,
         Trailed(h), Len(h) = 1, ~alive["agent"] \/ Derailed, toReceiver' = Tail(toReceiver)
  PROVE  TrailInv'
<1>1. kind' = kind /\ alive' = alive
  BY DEF Aside
<1>2. Trailed(h)'
  BY <1>1, TrailedJunkTaken
<1>3. Derailed => Derailed'
  BY DEF Aside, Derailed
<1> QED BY <1>1, <1>2, <1>3 DEF TrailInv

LEMMA ReceiverFields ==
  ASSUME NEW a \in Receiver
  PROVE  /\ a.pc \in {"idle", "head", "start", "next", "data"} /\ a.k \in 0..MaxStreams
         /\ a.k \in Nat /\ a.len \in Nat /\ a.left \in Nat /\ a.fmt \in Starts /\ a.raw \in Nat
         /\ a.need \in Nat /\ a.code \in Seq(Parts) /\ a.out \in Seq(Nat \X Nat)
         /\ Len(a.out) + a.left = a.len
         /\ a.pc = "data" => a.need > 0
BY StreamAssumption DEF Receiver

LEMMA IsReceiver ==
  ASSUME NEW a,
         a \in [pc : {"idle", "head", "start", "next", "data"}, k : 0..MaxStreams,
               len : Nat, left : Nat, fmt : Starts, raw : Nat, need : Nat,
               code : Seq(Parts), out : Seq(Nat \X Nat)],
         Len(a.out) + a.left = a.len, a.pc = "data" => a.need > 0
  PROVE  a \in Receiver
BY DEF Receiver

LEMMA EmptyData == <<>> \in Seq(Parts) /\ <<>> \in Seq(Nat \X Nat) /\ Len(<<>>) = 0
OBVIOUS

\* what each action makes of the receiver
LEMMA ReceiverPc ==
  ASSUME NEW a \in Receiver, NEW pc \in {"idle", "head", "start", "next"},
         NEW b, b = [a EXCEPT !.pc = pc]
  PROVE  /\ b \in Receiver /\ b.pc = pc
         /\ b.k = a.k /\ b.len = a.len /\ b.left = a.left /\ b.fmt = a.fmt /\ b.raw = a.raw
         /\ b.need = a.need /\ b.code = a.code /\ b.out = a.out
BY DEF Receiver

LEMMA ReceiverHeadIs ==
  ASSUME NEW a \in Receiver, NEW k, NEW n, NEW pc,
         NEW b, b = [a EXCEPT !.pc = pc, !.k = k, !.len = n, !.left = n, !.out = <<>>]
  PROVE  b = [pc |-> pc, k |-> k, len |-> n, left |-> n, fmt |-> a.fmt,
              raw |-> a.raw, need |-> a.need, code |-> a.code, out |-> <<>>]
BY DEF Receiver

LEMMA ReceiverHead ==
  ASSUME NEW a \in Receiver, NEW k \in 0..MaxStreams, NEW n \in Nat, NEW pc \in {"head", "start"},
         NEW b, b = [pc |-> pc, k |-> k, len |-> n, left |-> n, fmt |-> a.fmt,
                      raw |-> a.raw, need |-> a.need, code |-> a.code, out |-> <<>>]
  PROVE  /\ b \in Receiver
         /\ b.pc = pc /\ b.k = k /\ b.len = n /\ b.left = n /\ b.fmt = a.fmt
         /\ b.raw = a.raw /\ b.need = a.need /\ b.code = a.code /\ b.out = <<>>
<1>1. /\ b.pc = pc /\ b.k = k /\ b.len = n /\ b.left = n /\ b.fmt = a.fmt
      /\ b.raw = a.raw /\ b.need = a.need /\ b.code = a.code /\ b.out = <<>>
  OBVIOUS
<1>2. /\ pc \in {"idle", "head", "start", "next", "data"}
      /\ k \in 0..MaxStreams /\ n \in Nat /\ n \in Nat /\ a.fmt \in Starts
      /\ a.raw \in Nat /\ a.need \in Nat /\ a.code \in Seq(Parts) /\ <<>> \in Seq(Nat \X Nat)
  BY ReceiverFields, EmptyData
<1>3. b \in [pc : {"idle", "head", "start", "next", "data"}, k : 0..MaxStreams,
            len : Nat, left : Nat, fmt : Starts, raw : Nat, need : Nat,
            code : Seq(Parts), out : Seq(Nat \X Nat)]
  BY <1>2
<1>4. Len(b.out) + b.left = b.len /\ (b.pc = "data" => b.need > 0)
  BY <1>1, ReceiverFields, EmptyData
<1> QED BY <1>1, <1>3, <1>4, IsReceiver

LEMMA ReceiverStartIs ==
  ASSUME NEW a \in Receiver, NEW raw, NEW fmt,
         NEW b, b = [a EXCEPT !.pc = "next", !.raw = raw, !.fmt = fmt]
  PROVE  b = [pc |-> "next", k |-> a.k, len |-> a.len, left |-> a.left, fmt |-> fmt,
              raw |-> raw, need |-> a.need, code |-> a.code, out |-> a.out]
BY DEF Receiver

LEMMA ReceiverStart ==
  ASSUME NEW a \in Receiver, NEW raw \in Nat, NEW fmt \in Starts,
         NEW b, b = [pc |-> "next", k |-> a.k, len |-> a.len, left |-> a.left, fmt |-> fmt,
                      raw |-> raw, need |-> a.need, code |-> a.code, out |-> a.out]
  PROVE  /\ b \in Receiver
         /\ b.pc = "next" /\ b.k = a.k /\ b.len = a.len /\ b.left = a.left /\ b.fmt = fmt
         /\ b.raw = raw /\ b.need = a.need /\ b.code = a.code /\ b.out = a.out
<1>1. /\ b.pc = "next" /\ b.k = a.k /\ b.len = a.len /\ b.left = a.left /\ b.fmt = fmt
      /\ b.raw = raw /\ b.need = a.need /\ b.code = a.code /\ b.out = a.out
  OBVIOUS
<1>2. /\ "next" \in {"idle", "head", "start", "next", "data"}
      /\ a.k \in 0..MaxStreams /\ a.len \in Nat /\ a.left \in Nat /\ fmt \in Starts
      /\ raw \in Nat /\ a.need \in Nat /\ a.code \in Seq(Parts) /\ a.out \in Seq(Nat \X Nat)
  BY ReceiverFields, EmptyData
<1>3. b \in [pc : {"idle", "head", "start", "next", "data"}, k : 0..MaxStreams,
            len : Nat, left : Nat, fmt : Starts, raw : Nat, need : Nat,
            code : Seq(Parts), out : Seq(Nat \X Nat)]
  BY <1>2
<1>4. Len(b.out) + b.left = b.len /\ (b.pc = "data" => b.need > 0)
  BY <1>1, ReceiverFields, EmptyData
<1> QED BY <1>1, <1>3, <1>4, IsReceiver

LEMMA ReceiverBlockIs ==
  ASSUME NEW a \in Receiver, NEW raw, NEW need,
         NEW b, b = [a EXCEPT !.pc = "data", !.raw = raw, !.need = need, !.code = <<>>]
  PROVE  b = [pc |-> "data", k |-> a.k, len |-> a.len, left |-> a.left, fmt |-> a.fmt,
              raw |-> raw, need |-> need, code |-> <<>>, out |-> a.out]
BY DEF Receiver

LEMMA ReceiverBlock ==
  ASSUME NEW a \in Receiver, NEW raw \in Nat, NEW need \in Nat \ {0},
         NEW b, b = [pc |-> "data", k |-> a.k, len |-> a.len, left |-> a.left, fmt |-> a.fmt,
                      raw |-> raw, need |-> need, code |-> <<>>, out |-> a.out]
  PROVE  /\ b \in Receiver
         /\ b.pc = "data" /\ b.k = a.k /\ b.len = a.len /\ b.left = a.left /\ b.fmt = a.fmt
         /\ b.raw = raw /\ b.need = need /\ b.code = <<>> /\ b.out = a.out
<1>1. /\ b.pc = "data" /\ b.k = a.k /\ b.len = a.len /\ b.left = a.left /\ b.fmt = a.fmt
      /\ b.raw = raw /\ b.need = need /\ b.code = <<>> /\ b.out = a.out
  OBVIOUS
<1>2. /\ "data" \in {"idle", "head", "start", "next", "data"}
      /\ a.k \in 0..MaxStreams /\ a.len \in Nat /\ a.left \in Nat /\ a.fmt \in Starts
      /\ raw \in Nat /\ need \in Nat /\ <<>> \in Seq(Parts) /\ a.out \in Seq(Nat \X Nat)
  BY ReceiverFields, EmptyData
<1>3. b \in [pc : {"idle", "head", "start", "next", "data"}, k : 0..MaxStreams,
            len : Nat, left : Nat, fmt : Starts, raw : Nat, need : Nat,
            code : Seq(Parts), out : Seq(Nat \X Nat)]
  BY <1>2
<1>4. Len(b.out) + b.left = b.len /\ (b.pc = "data" => b.need > 0)
  BY <1>1, ReceiverFields, EmptyData
<1> QED BY <1>1, <1>3, <1>4, IsReceiver

LEMMA ReceiverPieceIs ==
  ASSUME NEW a \in Receiver, NEW need, NEW code,
         NEW b, b = [a EXCEPT !.need = need, !.code = code]
  PROVE  b = [pc |-> a.pc, k |-> a.k, len |-> a.len, left |-> a.left, fmt |-> a.fmt,
              raw |-> a.raw, need |-> need, code |-> code, out |-> a.out]
BY DEF Receiver

LEMMA ReceiverPiece ==
  ASSUME NEW a \in Receiver, NEW need \in Nat \ {0}, NEW code \in Seq(Parts),
         NEW b, b = [pc |-> a.pc, k |-> a.k, len |-> a.len, left |-> a.left, fmt |-> a.fmt,
                      raw |-> a.raw, need |-> need, code |-> code, out |-> a.out]
  PROVE  /\ b \in Receiver
         /\ b.pc = a.pc /\ b.k = a.k /\ b.len = a.len /\ b.left = a.left /\ b.fmt = a.fmt
         /\ b.raw = a.raw /\ b.need = need /\ b.code = code /\ b.out = a.out
<1>1. /\ b.pc = a.pc /\ b.k = a.k /\ b.len = a.len /\ b.left = a.left /\ b.fmt = a.fmt
      /\ b.raw = a.raw /\ b.need = need /\ b.code = code /\ b.out = a.out
  OBVIOUS
<1>2. /\ a.pc \in {"idle", "head", "start", "next", "data"}
      /\ a.k \in 0..MaxStreams /\ a.len \in Nat /\ a.left \in Nat /\ a.fmt \in Starts
      /\ a.raw \in Nat /\ need \in Nat /\ code \in Seq(Parts) /\ a.out \in Seq(Nat \X Nat)
  BY ReceiverFields, EmptyData
<1>3. b \in [pc : {"idle", "head", "start", "next", "data"}, k : 0..MaxStreams,
            len : Nat, left : Nat, fmt : Starts, raw : Nat, need : Nat,
            code : Seq(Parts), out : Seq(Nat \X Nat)]
  BY <1>2
<1>4. Len(b.out) + b.left = b.len /\ (b.pc = "data" => b.need > 0)
  BY <1>1, ReceiverFields, EmptyData
<1> QED BY <1>1, <1>3, <1>4, IsReceiver

LEMMA ReceiverDoneIs ==
  ASSUME NEW a \in Receiver, NEW raw, NEW left, NEW out,
         NEW b, b = [a EXCEPT !.pc = "next", !.raw = raw, !.left = left,
                              !.need = 0, !.code = <<>>, !.out = out]
  PROVE  b = [pc |-> "next", k |-> a.k, len |-> a.len, left |-> left, fmt |-> a.fmt,
              raw |-> raw, need |-> 0, code |-> <<>>, out |-> out]
BY DEF Receiver

LEMMA ReceiverDone ==
  ASSUME NEW a \in Receiver, NEW raw \in Nat, NEW left \in Nat, NEW out \in Seq(Nat \X Nat), Len(out) + left = a.len,
         NEW b, b = [pc |-> "next", k |-> a.k, len |-> a.len, left |-> left, fmt |-> a.fmt,
                      raw |-> raw, need |-> 0, code |-> <<>>, out |-> out]
  PROVE  /\ b \in Receiver
         /\ b.pc = "next" /\ b.k = a.k /\ b.len = a.len /\ b.left = left /\ b.fmt = a.fmt
         /\ b.raw = raw /\ b.need = 0 /\ b.code = <<>> /\ b.out = out
<1>1. /\ b.pc = "next" /\ b.k = a.k /\ b.len = a.len /\ b.left = left /\ b.fmt = a.fmt
      /\ b.raw = raw /\ b.need = 0 /\ b.code = <<>> /\ b.out = out
  OBVIOUS
<1>2. /\ "next" \in {"idle", "head", "start", "next", "data"}
      /\ a.k \in 0..MaxStreams /\ a.len \in Nat /\ left \in Nat /\ a.fmt \in Starts
      /\ raw \in Nat /\ 0 \in Nat /\ <<>> \in Seq(Parts) /\ out \in Seq(Nat \X Nat)
  BY ReceiverFields, EmptyData
<1>3. b \in [pc : {"idle", "head", "start", "next", "data"}, k : 0..MaxStreams,
            len : Nat, left : Nat, fmt : Starts, raw : Nat, need : Nat,
            code : Seq(Parts), out : Seq(Nat \X Nat)]
  BY <1>2
<1>4. Len(b.out) + b.left = b.len /\ (b.pc = "data" => b.need > 0)
  BY <1>1, ReceiverFields, EmptyData
<1> QED BY <1>1, <1>3, <1>4, IsReceiver

-----------------------------------------------------------------------------
(* The receiver's actions *)

\* somebody before the receiver is gone
Lost == ~alive["sender"] \/ ~alive["agent"]

\* what each of them must show
Received == TrailInv' /\ r' \in Receiver /\ Own' /\ (crash' = crash \/ Lost)

LEMMA AsideStays ==
  ASSUME Aside, kind = "fetch" => r'.k = r.k /\ r'.len = r.len
  PROVE  Stays
BY DEF Aside, Stays, Been

\* what is right by itself remains so, as long as it is not in a block
LEMMA OwnStays ==
  ASSUME Own, kind' = kind, alive' = alive, r'.k = r.k, r'.out = r.out,
         r'.pc \notin {"head", "data"}, r'.pc = "start" => r.out = <<>>
  PROVE  Own'
BY DEF Own, Right, Loss, Gone

\* it is right in the beginning
LEMMA OwnFresh ==
  ASSUME kind' = kind, r'.out = <<>>, r'.pc \in {"head", "start"}, r'.pc = "head" => kind = "fetch"
  PROVE  Own'
BY DEF Own, Right

LEMMA HeadReceived ==
  ASSUME Typed, Own, TrailInv, alive["receiver"], RecvHead
  PROVE  Received
<1>1. /\ toReceiver # <<>> /\ toReceiver' = Tail(toReceiver) /\ Aside /\ crash' = crash
      /\ kind' = kind /\ alive' = alive
  BY DEF RecvHead, Got, ReceiverOnly, Aside
<1>2. toReceiver \in Seq(Msg) /\ r \in Receiver /\ kind \in {"memput", "fetch"}
  BY StreamAssumption DEF Typed
<1>3. PICK m \in Msg : m = Head(toReceiver)
  BY <1>1, <1>2, Taken
<1>4. r.pc = IF kind = "memput" THEN "idle" ELSE "head"
  BY DEF RecvHead, ReceiverAt
<1>5. r' = CASE m.type = "HEAD" /\ kind = "memput" ->
                    [r EXCEPT !.pc = "start", !.k = r.k + 1, !.len = m.n, !.left = m.n, !.out = <<>>]
             [] m.type = "SHUTDOWN" /\ kind = "fetch" -> [r EXCEPT !.pc = "idle"]
             [] m.type # "SHUTDOWN" /\ kind = "fetch" -> [r EXCEPT !.pc = "start"]
             [] OTHER -> r
  BY <1>3 DEF RecvHead
<1>6. CASE kind = "fetch"
  <2>1. r' \in Receiver /\ r'.k = r.k /\ r'.len = r.len /\ r'.out = r.out
        /\ r'.pc = IF m.type = "SHUTDOWN" THEN "idle" ELSE "start"
    <3>1. CASE m.type = "SHUTDOWN"
      <4>1. r' = [r EXCEPT !.pc = "idle"]
        BY <1>5, <1>6, <3>1
      <4> QED BY <1>2, <3>1, <4>1, ReceiverPc
    <3>2. CASE m.type # "SHUTDOWN"
      <4>1. r' = [r EXCEPT !.pc = "start"]
        BY <1>5, <1>6, <3>2
      <4> QED BY <1>2, <3>2, <4>1, ReceiverPc
    <3> QED BY <3>1, <3>2
  <2>2. r.pc = "head" /\ r.out = <<>>
    BY <1>4, <1>6 DEF Own
  <2>3. Own'
    BY <1>1, <2>1, <2>2, OwnStays
  <2>4. Stays
    BY <1>1, <2>1, AsideStays
  <2>5. TrailInv'
    <3>1. ASSUME NEW a, NEW b, Follows(a), Passes(a, m, b), Been(b)
          PROVE  Follows(b)'
      <4>1. a.pc = "idle" /\ a.k + 1 = r.k
        BY <2>2, <3>1 DEF Follows
      <4>2. m.type = "HEAD" /\ b.pc = "start" /\ b.k = r.k
        BY <1>6, <3>1, <4>1 DEF Passes, Emits
      <4>3. b.len = r.len
        BY <1>6, <3>1, <4>2 DEF Been
      <4>4. r'.pc = "start"
        BY <2>1, <4>2
      <4> QED BY <2>1, <4>2, <4>3, <4>4 DEF Follows
    <3> QED BY <1>1, <1>3, <2>4, <3>1, NextOfReceiver, FollowedOn, JunkTaken
  <2> QED BY <1>1, <2>1, <2>3, <2>5 DEF Received
<1>7. CASE kind = "memput"
  <2>1. r.pc = "idle" /\ kind # "fetch"
    BY <1>4, <1>7
  <2>2. Stays
    BY <1>1, <2>1, AsideStays
  <2>3. CASE m.type # "HEAD"
    <3>1. r' = r
      BY <1>5, <2>1, <2>3
    <3>2. Own'
      BY <1>1, <2>1, <3>1, OwnStays
    <3>3. ASSUME NEW a, NEW b, Follows(a), Passes(a, m, b), Been(b)
          PROVE  Follows(b)'
      <4>1. a.pc = "idle" /\ a.k = r.k
        BY <2>1, <3>3 DEF Follows
      <4>2. b = a
        BY <2>3, <3>3, <4>1 DEF Passes, Emits
      <4> QED BY <2>1, <3>1, <4>1, <4>2 DEF Follows
    <3>4. TrailInv'
      BY <1>1, <1>3, <2>2, <3>3, NextOfReceiver, FollowedOn, JunkTaken
    <3> QED BY <1>1, <1>2, <3>1, <3>2, <3>4 DEF Received
  <2>4. CASE m.type = "HEAD"
    <3>1. r' = [r EXCEPT !.pc = "start", !.k = r.k + 1, !.len = m.n, !.left = m.n, !.out = <<>>]
      BY <1>5, <1>7, <2>4
    <3>2. ~IsJunk(m)
      BY <2>1, <2>4 DEF IsJunk
    <3>3. PICK h : /\ Trailed(h) /\ Len(h) > 1
                   /\ \/ ~alive["agent"] \/ Derailed
                      \/ alive["agent"] /\ \E g : Linked(h, g)
                   /\ h[2] \in Sender /\ Follows(h[1]) /\ Passes(h[1], m, h[2])
      BY <1>1, <1>3, <3>2, NextOfReceiver
    <3>4. PICK b \in Sender : b = h[2]
      BY <3>3
    <3>5. b.pc = "start" /\ b.k = r.k + 1 /\ b.len = m.n /\ b.k \in 0..MaxStreams
      <4>1. h[1].pc = "idle" /\ h[1].k = r.k
        BY <2>1, <3>3 DEF Follows
      <4> QED BY <2>4, <3>3, <3>4, <4>1, SenderFields DEF Passes, Emits
    <3>6. r' \in Receiver /\ r'.pc = "start" /\ r'.k = r.k + 1 /\ r'.len = m.n /\ r'.out = <<>>
      <4>1. PICK k \in 0..MaxStreams, n \in Nat : k = r.k + 1 /\ n = m.n
        BY <1>3, <3>5, MsgFields
      <4>2. PICK pc \in {"head", "start"} : pc = "start"
        OBVIOUS
      <4>3. r' = [r EXCEPT !.pc = pc, !.k = k, !.len = n, !.left = n, !.out = <<>>]
        BY <3>1, <4>1, <4>2
      <4>4. r' = [pc |-> pc, k |-> k, len |-> n, left |-> n, fmt |-> r.fmt,
                  raw |-> r.raw, need |-> r.need, code |-> r.code, out |-> <<>>]
        BY <1>2, <4>3, ReceiverHeadIs
      <4>5. /\ r' \in Receiver /\ r'.pc = pc /\ r'.k = k /\ r'.len = n /\ r'.out = <<>>
        BY <1>2, <4>4, ReceiverHead
      <4> QED BY <4>1, <4>2, <4>5
    <3>7. Own'
      BY <1>1, <3>6, OwnFresh
    <3>8. Follows(b)'
      BY <3>5, <3>6 DEF Follows
    <3>9. TrailInv'
      BY <1>1, <2>2, <3>3, <3>4, <3>8, FollowedOn
    <3> QED BY <1>1, <3>6, <3>7, <3>9 DEF Received
  <2> QED BY <2>3, <2>4
<1> QED BY <1>2, <1>6, <1>7

LEMMA StartReceived ==
  ASSUME Typed, Own, TrailInv, alive["receiver"], RecvStart
  PROVE  Received
<1>1. /\ toReceiver # <<>> /\ toReceiver' = Tail(toReceiver) /\ Aside /\ crash' = crash
      /\ kind' = kind /\ alive' = alive /\ r.pc = "start"
  BY DEF RecvStart, Got, ReceiverOnly, Aside, ReceiverAt
<1>2. toReceiver \in Seq(Msg) /\ r \in Receiver
  BY DEF Typed
<1>3. PICK m \in Msg : m = Head(toReceiver)
  BY <1>1, <1>2, Taken
<1>4. PICK fmt \in Starts : fmt = IF m.type \in Starts THEN m.type ELSE "JUNK"
  BY DEF Starts
<1>5. r' = [r EXCEPT !.pc = "next", !.raw = m.n, !.fmt = fmt]
  BY <1>3, <1>4 DEF RecvStart
<1>6. /\ r' \in Receiver /\ r'.pc = "next" /\ r'.raw = m.n /\ r'.fmt = fmt
      /\ r'.k = r.k /\ r'.len = r.len /\ r'.left = r.left /\ r'.out = r.out
  <2>1. PICK raw \in Nat : raw = m.n
    BY <1>3, MsgFields
  <2>2. r' = [r EXCEPT !.pc = "next", !.raw = raw, !.fmt = fmt]
    BY <1>5, <2>1
  <2>3. r' = [pc |-> "next", k |-> r.k, len |-> r.len, left |-> r.left, fmt |-> fmt,
              raw |-> raw, need |-> r.need, code |-> r.code, out |-> r.out]
    BY <1>2, <2>2, ReceiverStartIs
  <2>4. /\ r' \in Receiver /\ r'.pc = "next" /\ r'.raw = raw /\ r'.fmt = fmt
        /\ r'.k = r.k /\ r'.len = r.len /\ r'.left = r.left /\ r'.out = r.out
    BY <1>2, <2>3, ReceiverStart
  <2> QED BY <2>1, <2>4
<1>7. Own'
  BY <1>1, <1>6, OwnStays
<1>8. Stays
  BY <1>1, <1>6, AsideStays
<1>9. ASSUME NEW a \in Sender, NEW b, Follows(a), Passes(a, m, b)
      PROVE  Follows(b)'
  <2>1. a.pc = "start" /\ a.k = r.k /\ a.len = r.len /\ a.len \in Nat
    BY <1>1, <1>9, SenderFields DEF Follows
  <2>2. /\ m.type = Format(r.len) /\ m.n = BlkSz
        /\ b.pc = AfterBlock(0, r.len) /\ b.k = r.k /\ b.len = r.len /\ b.pos = 0
    BY <1>9, <2>1 DEF Passes, Emits
  <2>3. fmt = Format(r.len)
    BY <1>4, <2>1, <2>2, FormatType
  <2>4. b.pc \in {"block", "end"}
    BY <2>2 DEF AfterBlock
  <2>5. Len(r'.out) = 0
    BY <1>1, <1>6, EmptyData DEF Own
  <2> QED BY <1>6, <2>2, <2>3, <2>4, <2>5 DEF Follows
<1>10. TrailInv'
  BY <1>1, <1>3, <1>8, <1>9, NextOfReceiver, FollowedOn, JunkTaken
<1> QED BY <1>1, <1>6, <1>7, <1>10 DEF Received

\* a crash leaves all else as it is
LEMMA CrashReceived ==
  ASSUME NEW why, Typed, Own, TrailInv, Lost, Crash(why)
  PROVE  Received
<1>1. UNCHANGED <<kind, alive, toAgent, toReceiver, s, f, r>>
  BY DEF Crash
<1>2. TrailInv'
  BY <1>1, AllStays
<1>3. Own'
  BY <1>1 DEF Own, OwnBlock, Right, HasPart, Loss, Gone
<1> QED BY <1>1, <1>2, <1>3 DEF Received, Typed

LEMMA DerailedLost ==
  ASSUME ~alive["agent"] \/ Derailed
  PROVE  Lost
BY DEF Lost, Derailed

LEMMA EndReceived ==
  ASSUME Typed, Own, TrailInv, alive["receiver"], RecvEnd
  PROVE  Received
<1>1. toReceiver # <<>> /\ r.pc = "next" /\ Head(toReceiver).type # "BLOCK"
  BY DEF RecvEnd, ReceiverAt
<1>2. toReceiver \in Seq(Msg) /\ r \in Receiver
  BY DEF Typed
<1>3. PICK m \in Msg : m = Head(toReceiver)
  BY <1>1, <1>2, Taken
<1>4. ASSUME NEW a, NEW b, Follows(a), Passes(a, m, b)
      PROVE  m.type = "END" /\ b.pc = "idle" /\ b.k = r.k
  <2>1. a.pc \in {"block", "end"} /\ a.k = r.k
    BY <1>1, <1>4 DEF Follows
  <2> QED BY <1>1, <1>3, <1>4, <2>1 DEF Passes, Emits
<1>5. m.type = "END" \/ Lost
  BY <1>1, <1>3, <1>4, NextOfReceiver, DerailedLost
<1>6. CASE m.type # "END" /\ Size(m) <= Room
  <2>1. Crash("receiver")
    BY <1>3, <1>6 DEF RecvEnd
  <2> QED BY <1>5, <1>6, <2>1, CrashReceived
<1>7. CASE ~(m.type # "END" /\ Size(m) <= Room)
  <2>1. /\ r' = [r EXCEPT !.pc = "idle"] /\ toReceiver' = Tail(toReceiver) /\ Aside
        /\ crash' = crash /\ kind' = kind /\ alive' = alive
    BY <1>3, <1>7 DEF RecvEnd, Got, ReceiverOnly, Aside
  <2>2. r' \in Receiver /\ r'.pc = "idle" /\ r'.k = r.k /\ r'.len = r.len /\ r'.out = r.out
    BY <1>2, <2>1, ReceiverPc
  <2>3. Own'
    BY <2>1, <2>2, OwnStays
  <2>4. Stays
    BY <2>1, <2>2, AsideStays
  <2>5. ASSUME NEW a, NEW b, Follows(a), Passes(a, m, b) PROVE Follows(b)'
    BY <1>4, <2>2, <2>5 DEF Follows
  <2>6. TrailInv'
    BY <1>1, <1>3, <2>1, <2>4, <2>5, NextOfReceiver, FollowedOn, JunkTaken
  <2> QED BY <2>1, <2>2, <2>3, <2>6 DEF Received
<1> QED BY <1>6, <1>7

LEMMA FailsReceived ==
  ASSUME Typed, Own, TrailInv, alive["receiver"], RecvFails
  PROVE  Received
<1>1. ~alive["agent"] /\ r.pc # "idle" /\ toReceiver = <<>> /\ r \in Receiver /\ Lost
  BY DEF RecvFails, Typed, Lost
<1>2. CASE r.pc = "data"
  <2>1. Crash(IF r.fmt = "LZO" THEN "lzo" ELSE "receiver")
    BY <1>2 DEF RecvFails
  <2> QED BY <1>1, <2>1, CrashReceived
<1>3. CASE r.pc # "data"
  <2>1. /\ r' = [r EXCEPT !.pc = "idle"] /\ toReceiver' = toReceiver /\ Aside
        /\ crash' = crash /\ kind' = kind /\ alive' = alive
    BY <1>3 DEF RecvFails, ReceiverOnly, Aside
  <2>2. r' \in Receiver /\ r'.pc = "idle" /\ r'.k = r.k /\ r'.len = r.len /\ r'.out = r.out
    BY <1>1, <2>1, ReceiverPc
  <2>3. Own'
    BY <2>1, <2>2, OwnStays
  <2>4. Stays
    BY <2>1, <2>2, AsideStays
  <2>5. PICK h : Trailed(h)
    BY <1>1 DEF TrailInv
  <2>6. Trail(h) /\ Len(h) \in Nat \ {0} /\ Len(h) <= Len(toReceiver) + 1 /\ Len(toReceiver) = 0
    BY <1>1, <2>5, TrailParts, EmptyData DEF Trailed
  <2>7. Len(h) = 1
    <3>1. PICK n \in Nat \ {0} : n = Len(h) /\ n <= 0 + 1
      BY <2>6
    <3> QED BY <3>1
  <2>8. Trail(h)'
    BY <2>4, <2>6, TrailStays DEF Stays
  <2>9. Trailed(h)'
    BY <2>1, <2>6, <2>7, <2>8 DEF Trailed
  <2>10. TrailInv'
    BY <1>1, <2>1, <2>9 DEF TrailInv
  <2> QED BY <2>1, <2>2, <2>3, <2>10 DEF Received
<1> QED BY <1>2, <1>3

-----------------------------------------------------------------------------
(* The receiver's blocks *)

LEMMA Joined ==
  ASSUME NEW S, NEW p \in Seq(S), NEW q \in Seq(S)
  PROVE  /\ p \o q \in Seq(S) /\ Len(p \o q) = Len(p) + Len(q)
         /\ Len(p) \in Nat /\ Len(q) \in Nat
         /\ \A i \in 1..Len(p) : (p \o q)[i] = p[i]
         /\ \A i \in 1..Len(q) : (p \o q)[Len(p) + i] = q[i]
<1>1. Len(p) \in Nat /\ Len(q) \in Nat
  BY LenProperties
<1>2. /\ p \o q \in Seq(S) /\ Len(p \o q) = Len(p) + Len(q)
      /\ \A i \in 1..(Len(p) + Len(q)) : (p \o q)[i] = IF i <= Len(p) THEN p[i] ELSE q[i - Len(p)]
  BY ConcatProperties
<1>3. ASSUME NEW i \in 1..Len(p) PROVE (p \o q)[i] = p[i]
  <2>1. i \in 1..(Len(p) + Len(q)) /\ i <= Len(p)
    BY <1>1
  <2> QED BY <1>2, <2>1
<1>4. ASSUME NEW i \in 1..Len(q) PROVE (p \o q)[Len(p) + i] = q[i]
  <2>1. Len(p) + i \in 1..(Len(p) + Len(q)) /\ ~(Len(p) + i <= Len(p)) /\ Len(p) + i - Len(p) = i
    BY <1>1
  <2> QED BY <1>2, <2>1
<1> QED BY <1>1, <1>2, <1>3, <1>4

\* what the decompressor does not take
LEMMA NotWhole ==
  ASSUME NEW code \in Seq(Parts), NEW i \in 1..Len(code), code[i].size # Len(code)
  PROVE  ~Whole(code)
<1>1. SUFFICES ASSUME Whole(code) PROVE FALSE
  OBVIOUS
<1>2. code[i] = Part(code[1].k, code[1].from, code[1].raw, i, Len(code))
  BY <1>1 DEF Whole
<1>3. Part(code[1].k, code[1].from, code[1].raw, i, Len(code)).size = Len(code)
  BY DEF Part
<1> QED BY <1>2, <1>3

\* what is read of a block that is not compressed
LEMMA PlainlyType ==
  ASSUME NEW code \in Seq(Parts)
  PROVE  /\ Plainly(code) \in Seq(Nat \X Nat) /\ Len(Plainly(code)) = Len(code)
         /\ \A i \in 1..Len(code) : Plainly(code)[i] = IF code[i] = JunkPart THEN Junk
                                                       ELSE <<code[i].k, code[i].from + 1>>
<1>1. Len(code) \in Nat /\ \A i \in 1..Len(code) : code[i] \in Parts
  BY LenProperties, ElementOfSeq
<1>2. \A i \in 1..Len(code) : (IF code[i] = JunkPart THEN Junk
                               ELSE <<code[i].k, code[i].from + 1>>) \in Nat \X Nat
  <2>1. SUFFICES ASSUME NEW i \in 1..Len(code)
                 PROVE  (IF code[i] = JunkPart THEN Junk
                         ELSE <<code[i].k, code[i].from + 1>>) \in Nat \X Nat
    OBVIOUS
  <2>2. PICK p \in Parts : p = code[i]
    BY <1>1
  <2>3. p.k \in Nat /\ p.from \in Nat
    BY DEF Parts
  <2>4. <<p.k, p.from + 1>> \in Nat \X Nat /\ Junk \in Nat \X Nat
    BY <2>3 DEF Junk
  <2> QED BY <2>2, <2>4
<1>3. Plainly(code) \in [1..Len(code) -> Nat \X Nat]
  BY <1>2 DEF Plainly
<1>4. \A i \in 1..Len(code) : Plainly(code)[i] = IF code[i] = JunkPart THEN Junk
                                                 ELSE <<code[i].k, code[i].from + 1>>
  BY DEF Plainly
<1> QED BY <1>1, <1>3, <1>4, FunctionSeq

\* the next raw bytes of the receiver's stream
NextBytes == [i \in 1..r.raw |-> <<r.k, Len(r.out) + i>>]

LEMMA NextBytesType ==
  ASSUME Typed
  PROVE  /\ NextBytes \in Seq(Nat \X Nat) /\ Len(NextBytes) = r.raw
         /\ \A i \in 1..r.raw : NextBytes[i] = <<r.k, Len(r.out) + i>>
<1>1. r.raw \in Nat /\ r.k \in Nat /\ Len(r.out) \in Nat
  BY ReceiverFields, LenProperties DEF Typed
<1>2. NextBytes \in [1..r.raw -> Nat \X Nat]
  BY <1>1 DEF NextBytes
<1>3. \A i \in 1..r.raw : NextBytes[i] = <<r.k, Len(r.out) + i>>
  BY DEF NextBytes
<1> QED BY <1>1, <1>2, <1>3, FunctionSeq

\* a part of the receiver's block
LEMMA HasPartIs ==
  ASSUME Typed, r.fmt \in {"RAW", "LZO"}, NEW i \in Nat \ {0}
  PROVE  /\ HasPart(i) \in Parts /\ HasPart(i) # JunkPart /\ HasPart(i).k = r.k
         /\ r.fmt = "RAW" => HasPart(i).from = Len(r.out) + i - 1
         /\ r.fmt = "LZO" => /\ HasPart(i) = Part(r.k, Len(r.out), r.raw, i, Len(r.code) + r.need)
                             /\ HasPart(i).from = Len(r.out) /\ HasPart(i).raw = r.raw
                             /\ HasPart(i).size = Len(r.code) + r.need
<1>1. /\ r.raw \in Nat /\ r.k \in Nat /\ Len(r.out) \in Nat /\ r.need \in Nat /\ Len(r.code) \in Nat
  BY ReceiverFields, LenProperties DEF Typed
<1>2. PICK j \in Nat, size \in Nat : j = Len(r.out) + i - 1 /\ size = Len(r.code) + r.need
  <2>1. Len(r.out) + i - 1 \in Nat /\ Len(r.code) + r.need \in Nat
    BY <1>1
  <2> QED BY <2>1
<1>3. CASE r.fmt = "RAW"
  <2>1. HasPart(i) = Part(r.k, j, 1, 1, 1)
    BY <1>2, <1>3 DEF HasPart, BlockPart
  <2>2. PICK p : p = Part(r.k, j, 1, 1, 1) /\ p = HasPart(i)
    BY <2>1
  <2>4. 1 \in Nat /\ r.k \in Nat /\ j \in Nat
    BY <1>1
  <2>5. p \in Parts /\ p.k = r.k /\ p.from = j /\ p.i = 1
    BY <2>2, <2>4 DEF Part, Parts
  <2>3. JunkPart.i = 0
    BY DEF JunkPart, Part
  <2> QED BY <1>2, <1>3, <2>2, <2>3, <2>5
<1>4. CASE r.fmt = "LZO"
  <2>1. HasPart(i) = Part(r.k, Len(r.out), r.raw, i, size)
    BY <1>2, <1>4 DEF HasPart, BlockPart
  <2>2. PICK p : p = Part(r.k, Len(r.out), r.raw, i, size) /\ p = HasPart(i)
    BY <2>1
  <2>4. i \in Nat
    OBVIOUS
  <2>5. p \in Parts /\ p.k = r.k /\ p.from = Len(r.out) /\ p.raw = r.raw /\ p.i = i /\ p.size = size
    BY <1>1, <2>2, <2>4 DEF Part, Parts
  <2>3. JunkPart.i = 0
    BY DEF JunkPart, Part
  <2> QED BY <1>2, <1>4, <2>1, <2>2, <2>3, <2>5
<1> QED BY <1>3, <1>4

\* what stream_recv makes of a block that has arrived
Keeps(raw) ==
  /\ r' = [r EXCEPT !.pc = "next", !.raw = Len(raw), !.left = r.left - Len(raw),
                    !.need = 0, !.code = <<>>, !.out = r.out \o raw]
  /\ Got
  /\ UNCHANGED <<request, pong>> /\ ReceiverOnly

LEMMA WholeBlockDone ==
  ASSUME Typed, OwnBlock, NEW code \in Seq(Parts), Len(code) = Len(r.code) + r.need,
         r.need > 0, \A i \in 1..Len(code) : code[i] = HasPart(i), BlockDone(code)
  PROVE  Keeps(NextBytes)
<1>1. /\ r.raw \in Nat /\ r.k \in Nat /\ Len(r.out) \in Nat /\ r.need \in Nat \ {0} /\ Len(r.code) \in Nat
  BY ReceiverFields, LenProperties DEF Typed
<1>2. r.fmt \in {"RAW", "LZO"} /\ r.raw \in 1..r.left /\ (r.fmt = "RAW" => Len(code) = r.raw)
  BY DEF OwnBlock
<1>3. Len(code) \in Nat \ {0} /\ 1 \in 1..Len(code)
  BY <1>1
<1>4. code # <<>>
  BY <1>3, EmptyData
<1>5. CASE r.fmt = "RAW"
  <2>1. Keeps(Plainly(code))
    BY <1>2, <1>5 DEF BlockDone, Keeps
  <2>2. ASSUME NEW i \in 1..Len(code)
        PROVE  (IF code[i] = JunkPart THEN Junk ELSE <<code[i].k, code[i].from + 1>>)
                 = <<r.k, Len(r.out) + i>>
    <3>1. i \in Nat \ {0}
      BY <1>3
    <3>2. code[i] # JunkPart /\ code[i].k = r.k /\ code[i].from = Len(r.out) + i - 1
      BY <1>2, <1>5, <3>1, HasPartIs
    <3>3. Len(r.out) + i - 1 + 1 = Len(r.out) + i
      BY <1>1, <3>1
    <3> QED BY <3>2, <3>3
  <2>3. Plainly(code) = NextBytes
    BY <1>2, <1>5, <2>2 DEF Plainly, NextBytes
  <2> QED BY <2>1, <2>3
<1>6. CASE r.fmt = "LZO"
  <2>1. code[1] = Part(r.k, Len(r.out), r.raw, 1, Len(code))
        /\ code[1].k = r.k /\ code[1].from = Len(r.out) /\ code[1].raw = r.raw
    BY <1>2, <1>3, <1>6, HasPartIs
  <2>2. ASSUME NEW i \in 1..Len(code)
        PROVE  code[i] = Part(code[1].k, code[1].from, code[1].raw, i, Len(code))
    <3>1. i \in Nat \ {0}
      BY <1>3
    <3> QED BY <1>2, <1>6, <2>1, <3>1, HasPartIs
  <2>3. Whole(code)
    BY <2>2 DEF Whole
  <2>4. Keeps(Decompressed(code))
    BY <1>4, <1>6, <2>3 DEF BlockDone, Keeps
  <2>5. Decompressed(code) = NextBytes
    BY <2>1 DEF Decompressed, NextBytes
  <2> QED BY <2>4, <2>5
<1> QED BY <1>2, <1>5, <1>6

\* a block that ends too early fails an assertion
LEMMA ShortBlockDone ==
  ASSUME Typed, OwnBlock, r.need > 0, BlockDone(r.code)
  PROVE  \E why : Crash(why)
<1>1. /\ r.raw \in Nat /\ r.need \in Nat \ {0} /\ r.code \in Seq(Parts) /\ Len(r.code) \in Nat
      /\ r.fmt \in {"RAW", "LZO"}
  BY ReceiverFields, LenProperties DEF Typed, OwnBlock
<1>2. CASE r.fmt = "RAW"
  <2>1. Len(r.code) # r.raw
    <3>1. Len(r.code) + r.need = r.raw
      BY <1>2 DEF OwnBlock
    <3> QED BY <1>1, <3>1
  <2> QED BY <1>2, <2>1 DEF BlockDone
<1>3. CASE r.fmt = "LZO"
  <2>1. r.code = <<>> \/ ~Whole(r.code)
    <3>1. CASE \A i \in 1..Len(r.code) : r.code[i] = HasPart(i)
      <4>1. CASE Len(r.code) > 0
        <5>1. 1 \in 1..Len(r.code) /\ 1 \in Nat \ {0}
          BY <1>1, <4>1
        <5>2. r.code[1].size = Len(r.code) + r.need
          BY <1>1, <1>3, <3>1, <5>1, HasPartIs
        <5>3. r.code[1].size # Len(r.code)
          BY <1>1, <5>2
        <5> QED BY <1>1, <5>1, <5>3, NotWhole
      <4>2. CASE Len(r.code) = 0
        BY <1>1, <4>2, EmptySeq
      <4> QED BY <1>1, <4>1, <4>2
    <3>2. CASE \E i \in 1..Len(r.code) : r.code[i] = JunkPart
      <4>1. PICK i \in 1..Len(r.code) : r.code[i] = JunkPart
        BY <3>2
      <4>2. r.code[i].size = 0 /\ Len(r.code) # 0
        BY <1>1, <4>1 DEF JunkPart, Part
      <4> QED BY <1>1, <4>2, NotWhole
    <3> QED BY <3>1, <3>2 DEF OwnBlock
  <2> QED BY <1>3, <2>1 DEF BlockDone
<1> QED BY <1>1, <1>2, <1>3

\* one with junk in it does, when it is compressed
LEMMA JunkBlockDone ==
  ASSUME Typed, r.fmt = "LZO", NEW code \in Seq(Parts), NEW i \in 1..Len(code), code[i] = JunkPart,
         BlockDone(code)
  PROVE  \E why : Crash(why)
<1>1. code[i].size = 0 /\ Len(code) # 0
  <2>1. Len(code) \in Nat
    BY LenProperties
  <2> QED BY <2>1 DEF JunkPart, Part
<1>2. ~Whole(code)
  BY <1>1, NotWhole
<1> QED BY <1>2 DEF BlockDone

-----------------------------------------------------------------------------
(* The receiver takes a block *)

LEMMA OwnData ==
  ASSUME Own, kind' = kind, alive' = alive, r'.k = r.k, r'.out = r.out,
         r'.pc = "data", OwnBlock'
  PROVE  Own'
BY DEF Own, Right, Loss, Gone

LEMMA BlockReceived ==
  ASSUME Typed, Own, TrailInv, alive["receiver"], RecvBlock
  PROVE  Received
<1>1. toReceiver # <<>> /\ r.pc = "next" /\ Head(toReceiver).type = "BLOCK"
  BY DEF RecvBlock, ReceiverAt
<1>2. toReceiver \in Seq(Msg) /\ r \in Receiver
  BY DEF Typed
<1>3. PICK m \in Msg : m = Head(toReceiver)
  BY <1>1, <1>2, Taken
<1>4. ~IsJunk(m)
  BY <1>1, <1>3 DEF IsJunk
<1>5. PICK h : /\ Trailed(h) /\ Len(h) > 1
               /\ \/ ~alive["agent"] \/ Derailed
                  \/ alive["agent"] /\ \E g : Linked(h, g)
               /\ h[1] \in Sender /\ h[2] \in Sender /\ Follows(h[1]) /\ Passes(h[1], m, h[2])
  BY <1>1, <1>3, <1>4, NextOfReceiver
<1>6. PICK a \in Sender, b \in Sender : a = h[1] /\ b = h[2]
  BY <1>5
<1>7. /\ a.k = r.k /\ a.len = r.len /\ a.pos = Len(r.out) /\ r.fmt = Format(r.len)
      /\ a.pc \in {"block", "end"} /\ (r.raw = BlkSz \/ r.left = 0)
  BY <1>1, <1>5, <1>6 DEF Follows
<1>8. Emits(a, m, b)
  BY <1>1, <1>3, <1>5, <1>6 DEF Passes
<1>9. /\ a.pc = "block" /\ m.n = Len(b.code)
      /\ b.pc = "data" /\ b.k = a.k /\ b.len = a.len /\ b.pos = a.pos
      /\ Format(a.len) = "RAW" => Len(b.code) = b.raw
      /\ \A i \in 1..Len(b.code) :
           b.code[i] = BlockPart(Format(a.len), a.k, a.pos, b.raw, Len(b.code), i)
  <2>1. ~(m.type = Format(a.len))
    BY <1>1, <1>3, SenderFields, FormatType
  <2> QED BY <1>1, <1>3, <1>7, <1>8, <2>1 DEF Emits
<1>10. /\ a.pos < a.len /\ a.pos \in Nat /\ a.len \in Nat /\ b.raw \in Nat
       /\ b.raw = Min2(BlkSz, b.len - b.pos)
  BY <1>9, SenderFields
<1>11. PICK raw : raw = Min2(r.raw, r.left)
  OBVIOUS
<1>12. /\ r.raw \in Nat /\ r.left \in Nat /\ Len(r.out) + r.left = r.len /\ Len(r.out) \in Nat
       /\ r.len \in Nat
  BY <1>2, ReceiverFields, LenProperties
<1>13. raw = b.raw /\ raw \in 1..r.left
  <2>1. r.left = b.len - b.pos /\ r.left > 0
    BY <1>7, <1>9, <1>10, <1>12
  <2>2. r.raw = BlkSz
    BY <1>7, <2>1
  <2>3. raw = b.raw
    BY <1>10, <1>11, <2>1, <2>2, Zenon
  <2>4. raw \in {BlkSz, r.left} /\ raw <= r.left /\ BlkSz \in Nat \ {0}
    BY <1>11, <1>12, <2>2, Min2Facts, Sizes
  <2> QED BY <1>12, <2>1, <2>3, <2>4
<1>14. m.n \in Nat \ {0}
  BY <1>1, <1>3, MsgFields
<1>15. r.fmt \in {"RAW", "LZO"} /\ (r.fmt = "RAW" => m.n = raw)
  BY <1>7, <1>9, <1>12, <1>13, FormatType
<1>16. ~(r.fmt # "LZO" /\ m.n > raw)
  BY <1>12, <1>13, <1>15
<1>17. /\ r' = [r EXCEPT !.pc = "data", !.raw = raw, !.need = m.n, !.code = <<>>]
       /\ toReceiver' = Tail(toReceiver) /\ Aside /\ crash' = crash
       /\ kind' = kind /\ alive' = alive
  BY <1>3, <1>11, <1>16 DEF RecvBlock, Got, ReceiverOnly, Aside
<1>18. /\ r' \in Receiver /\ r'.pc = "data" /\ r'.k = r.k /\ r'.len = r.len /\ r'.left = r.left
       /\ r'.fmt = r.fmt /\ r'.raw = raw /\ r'.need = m.n /\ r'.code = <<>> /\ r'.out = r.out
  <2>1. PICK need \in Nat \ {0} : need = m.n
    BY <1>14
  <2>2. raw \in Nat
    BY <1>12, <1>13
  <2>3. r' = [r EXCEPT !.pc = "data", !.raw = raw, !.need = need, !.code = <<>>]
    BY <1>17, <2>1
  <2>4. r' = [pc |-> "data", k |-> r.k, len |-> r.len, left |-> r.left, fmt |-> r.fmt,
              raw |-> raw, need |-> need, code |-> <<>>, out |-> r.out]
    BY <1>2, <2>3, ReceiverBlockIs
  <2>5. /\ r' \in Receiver /\ r'.pc = "data" /\ r'.k = r.k /\ r'.len = r.len /\ r'.left = r.left
        /\ r'.fmt = r.fmt /\ r'.raw = raw /\ r'.need = need /\ r'.code = <<>> /\ r'.out = r.out
    BY <1>2, <2>2, <2>4, ReceiverBlock
  <2> QED BY <2>1, <2>5
<1>19. Len(r'.code) = 0 /\ Len(r'.code) + r'.need = m.n
  BY <1>14, <1>18, EmptyData
<1>20. OwnBlock'
  BY <1>13, <1>15, <1>18, <1>19 DEF OwnBlock
<1>21. Own'
  BY <1>17, <1>18, <1>20, OwnData
<1>22. Stays
  BY <1>17, <1>18, AsideStays
<1>23. Follows(b)'
  <2>1. \A i \in 1..Len(r'.code) : r'.code[i] = HasPart(i)'
    BY <1>19
  <2>2. ASSUME NEW i \in 1..Len(b.code)
        PROVE  b.code[i] = BlockPart(r'.fmt, r'.k, Len(r'.out), r'.raw, Len(r'.code) + r'.need,
                                     Len(r'.code) + i)
    <3>1. Len(r'.code) + i = i
      BY <1>19
    <3>2. b.code[i] = BlockPart(Format(a.len), a.k, a.pos, b.raw, Len(b.code), i)
      BY <1>9
    <3> QED BY <1>7, <1>9, <1>13, <1>18, <1>19, <3>1, <3>2
  <2>3. \A i \in 1..Len(b.code) : b.code[i] = HasPart(Len(r.code) + i)'
    BY <2>2 DEF HasPart
  <2> QED BY <1>7, <1>9, <1>13, <1>18, <2>1, <2>3 DEF Follows
<1>24. TrailInv'
  BY <1>1, <1>5, <1>6, <1>17, <1>22, <1>23, FollowedOn
<1> QED BY <1>17, <1>18, <1>21, <1>24 DEF Received

\* a message that nobody sent as a piece of the block
LEMMA JunkData ==
  ASSUME NEW m \in Msg, IsJunk(m)
  PROVE  \A i \in 1..Size(m) : AsData(m)[i] = JunkPart
<1>1. CASE m.type = "DATA"
  <2>1. AsData(m) = m.code /\ Len(m.code) = Size(m)
    BY <1>1, AsDataType
  <2>2. \A i \in 1..Len(m.code) : m.code[i] = JunkPart
    BY <1>1 DEF IsJunk
  <2> QED BY <2>1, <2>2
<1>2. CASE m.type # "DATA"
  BY <1>2, AsDataType
<1> QED BY <1>1, <1>2

\* what a block that is kept makes of the receiver
LEMMA KeptBlock ==
  ASSUME Typed, NEW raw \in Seq(Nat \X Nat), Len(raw) <= r.left, Keeps(raw)
  PROVE  /\ r' \in Receiver /\ r'.pc = "next" /\ r'.k = r.k /\ r'.len = r.len
         /\ r'.left = r.left - Len(raw) /\ r'.fmt = r.fmt /\ r'.raw = Len(raw)
         /\ r'.out = r.out \o raw /\ Len(r'.out) = Len(r.out) + Len(raw)
         /\ \A i \in 1..Len(r.out) : r'.out[i] = r.out[i]
         /\ \A i \in 1..Len(raw) : r'.out[Len(r.out) + i] = raw[i]
         /\ toReceiver' = Tail(toReceiver) /\ Aside /\ crash' = crash
         /\ kind' = kind /\ alive' = alive
<1>1. r \in Receiver
  BY DEF Typed
<1>2. /\ r.left \in Nat /\ Len(r.out) \in Nat /\ r.out \in Seq(Nat \X Nat) /\ r.len \in Nat
      /\ Len(r.out) + r.left = r.len /\ Len(raw) \in Nat
  BY <1>1, ReceiverFields, LenProperties
<1>3. PICK n \in Nat, left \in Nat : n = Len(raw) /\ left = r.left - Len(raw)
  <2>1. r.left - Len(raw) \in Nat
    BY <1>2
  <2> QED BY <1>2, <2>1
<1>4. PICK out : out = r.out \o raw
  OBVIOUS
<1>5. /\ out \in Seq(Nat \X Nat) /\ Len(out) = Len(r.out) + Len(raw)
      /\ \A i \in 1..Len(r.out) : out[i] = r.out[i]
      /\ \A i \in 1..Len(raw) : out[Len(r.out) + i] = raw[i]
  BY <1>2, <1>4, Joined
<1>6. Len(out) + left = r.len
  <2>1. PICK a \in Nat, b \in Nat : a = Len(r.out) /\ b = r.left
    BY <1>2
  <2>2. Len(out) = a + n /\ left = b - n /\ a + b = r.len
    BY <1>2, <1>3, <1>5, <2>1
  <2> QED BY <2>2
<1>7. r' = [r EXCEPT !.pc = "next", !.raw = n, !.left = left, !.need = 0, !.code = <<>>, !.out = out]
  BY <1>3, <1>4 DEF Keeps
<1>8. r' = [pc |-> "next", k |-> r.k, len |-> r.len, left |-> left, fmt |-> r.fmt,
            raw |-> n, need |-> 0, code |-> <<>>, out |-> out]
  BY <1>1, <1>7, ReceiverDoneIs
<1>9. /\ r' \in Receiver /\ r'.pc = "next" /\ r'.k = r.k /\ r'.len = r.len /\ r'.left = left
      /\ r'.fmt = r.fmt /\ r'.raw = n /\ r'.out = out
  BY <1>1, <1>5, <1>6, <1>8, ReceiverDone
<1>10. /\ toReceiver' = Tail(toReceiver) /\ Aside /\ crash' = crash
       /\ kind' = kind /\ alive' = alive
  BY DEF Keeps, Got, ReceiverOnly, Aside
<1>11. /\ Len(r'.out) = Len(r.out) + Len(raw)
       /\ \A i \in 1..Len(r.out) : r'.out[i] = r.out[i]
       /\ \A i \in 1..Len(raw) : r'.out[Len(r.out) + i] = raw[i]
  BY <1>5, <1>9
<1>12. r'.left = r.left - Len(raw) /\ r'.raw = Len(raw) /\ r'.out = r.out \o raw
  BY <1>3, <1>4, <1>9
<1> QED BY <1>9, <1>10, <1>11, <1>12

-----------------------------------------------------------------------------
(* The receiver takes a piece of a block *)

LEMMA PieceCode ==
  ASSUME Typed, NEW m \in Msg, NEW code, code = r.code \o AsData(m)
  PROVE  /\ code \in Seq(Parts) /\ Len(code) = Len(r.code) + Size(m)
         /\ \A i \in 1..Len(r.code) : code[i] = r.code[i]
         /\ \A i \in 1..Size(m) : code[Len(r.code) + i] = AsData(m)[i]
<1>1. r.code \in Seq(Parts) /\ AsData(m) \in Seq(Parts) /\ Len(AsData(m)) = Size(m)
  BY ReceiverFields, AsDataType DEF Typed
<1>2. PICK p \in Seq(Parts), q \in Seq(Parts) : p = r.code /\ q = AsData(m)
  BY <1>1
<1>3. /\ p \o q \in Seq(Parts) /\ Len(p \o q) = Len(p) + Len(q)
      /\ \A i \in 1..Len(p) : (p \o q)[i] = p[i]
      /\ \A i \in 1..Len(q) : (p \o q)[Len(p) + i] = q[i]
  BY Joined
<1>4. code = p \o q /\ Len(q) = Size(m)
  BY <1>1, <1>2
<1> QED BY <1>2, <1>3, <1>4, Zenon

\* a piece that does not fill the block
LEMMA MorePiece ==
  ASSUME Typed, r.pc = "data", NEW size \in Nat \ {0}, size < r.need, NEW code \in Seq(Parts),
         r' = [r EXCEPT !.need = r.need - size, !.code = code]
  PROVE  /\ r' \in Receiver /\ r'.pc = "data" /\ r'.k = r.k /\ r'.len = r.len /\ r'.left = r.left
         /\ r'.fmt = r.fmt /\ r'.raw = r.raw /\ r'.need = r.need - size /\ r'.code = code
         /\ r'.out = r.out
<1>1. r \in Receiver /\ r.need \in Nat
  BY ReceiverFields DEF Typed
<1>2. PICK need \in Nat \ {0} : need = r.need - size
  <2>1. r.need - size \in Nat \ {0}
    BY <1>1
  <2> QED BY <2>1
<1>3. r' = [r EXCEPT !.need = need, !.code = code]
  BY <1>2
<1>4. r' = [pc |-> r.pc, k |-> r.k, len |-> r.len, left |-> r.left, fmt |-> r.fmt,
            raw |-> r.raw, need |-> need, code |-> code, out |-> r.out]
  BY <1>1, <1>3, ReceiverPieceIs
<1>5. PICK a \in Receiver : \E b : a = r /\ b = r'
  BY <1>1
<1>5a. PICK b : a = r /\ b = r'
  BY <1>5
<1>6. b = [pc |-> a.pc, k |-> a.k, len |-> a.len, left |-> a.left, fmt |-> a.fmt,
           raw |-> a.raw, need |-> need, code |-> code, out |-> a.out]
  BY <1>4, <1>5a
<1>7. /\ b \in Receiver /\ b.pc = a.pc /\ b.k = a.k /\ b.len = a.len /\ b.left = a.left
      /\ b.fmt = a.fmt /\ b.raw = a.raw /\ b.need = need /\ b.code = code /\ b.out = a.out
  BY <1>6, ReceiverPiece
<1>8. /\ r' \in Receiver /\ r'.pc = r.pc /\ r'.k = r.k /\ r'.len = r.len /\ r'.left = r.left
      /\ r'.fmt = r.fmt /\ r'.raw = r.raw /\ r'.need = need /\ r'.code = code /\ r'.out = r.out
  BY <1>5a, <1>7
<1> QED BY <1>2, <1>8

\* what stream_recv has of the stream after a step in a block
Gains == /\ r'.pc # "idle" /\ r'.k = r.k /\ r'.len = r.len
         /\ r'.out = r.out \/ r'.out = r.out \o NextBytes

\* the next piece of the block that the receiver is in
LEMMA RightPiece ==
  ASSUME Typed, Own, TrailInv, alive["receiver"], RecvPiece,
         NEW h, Trailed(h), Len(h) > 1,
         ~alive["agent"] \/ Derailed \/ (alive["agent"] /\ \E g : Linked(h, g)),
         NEW a \in Sender, a = h[1], NEW b \in Sender, b = h[2], Follows(a),
         NEW m \in Msg, m = Head(toReceiver), Passes(a, m, b)
  PROVE  Received /\ Gains
<1>1. toReceiver # <<>> /\ r.pc = "data" /\ toReceiver \in Seq(Msg) /\ r \in Receiver
  BY DEF RecvPiece, ReceiverAt, Typed
<1>2. OwnBlock
  BY <1>1 DEF Own
<1>3. /\ r.raw \in Nat /\ r.k \in Nat /\ r.need \in Nat \ {0} /\ r.left \in Nat /\ r.len \in Nat
      /\ Len(r.out) \in Nat /\ Len(r.code) \in Nat /\ Len(r.out) + r.left = r.len
  BY <1>1, ReceiverFields, LenProperties
<1>4. /\ a.pc = "data" /\ a.k = r.k /\ a.len = r.len /\ a.pos = Len(r.out) /\ r.fmt = Format(r.len)
      /\ a.raw = r.raw /\ Len(a.code) = r.need
      /\ \A i \in 1..Len(r.code) : r.code[i] = HasPart(i)
      /\ \A i \in 1..Len(a.code) : a.code[i] = HasPart(Len(r.code) + i)
  BY <1>1 DEF Follows
<1>5. /\ a.pos \in Nat /\ a.len \in Nat /\ a.raw = Min2(BlkSz, a.len - a.pos) /\ a.pos < a.len
      /\ a.code \in Seq(Parts)
  BY <1>4, SenderFields
<1>6. Emits(a, m, b)
  BY <1>4 DEF Passes
<1>7. /\ m.type = "DATA" /\ Len(m.code) = Min2(Piece, Len(a.code))
      /\ \A i \in 1..Len(m.code) : m.code[i] = a.code[i]
      /\ b.k = a.k /\ b.len = a.len
      /\ \/ /\ Len(m.code) < Len(a.code)
            /\ b.pc = "data" /\ b.pos = a.pos /\ b.raw = a.raw
            /\ Len(b.code) = Len(a.code) - Len(m.code)
            /\ \A i \in 1..Len(b.code) : b.code[i] = a.code[Len(m.code) + i]
         \/ /\ Len(m.code) = Len(a.code)
            /\ b.pc = AfterBlock(a.pos + a.raw, a.len) /\ b.pos = a.pos + a.raw
  BY <1>4, <1>6, Zenon DEF Emits
<1>8. PICK n \in Nat \ {0} : n = Size(m) /\ n = Len(m.code)
  BY <1>7, SizeType, AsDataType
<1>9. n <= r.need
  <2>1. PICK c \in Nat : c = Len(a.code) /\ c = r.need
    BY <1>3, <1>4
  <2>2. n = Min2(Piece, c)
    BY <1>7, <1>8, <2>1
  <2>3. n <= c
    BY <2>2, Min2Facts, Sizes
  <2> QED BY <2>1, <2>3
<1>10. PICK code : code = r.code \o AsData(m)
  OBVIOUS
<1>11. /\ code \in Seq(Parts) /\ Len(code) = Len(r.code) + n
       /\ \A i \in 1..Len(code) : code[i] = HasPart(i)
  <2>1. /\ code \in Seq(Parts) /\ Len(code) = Len(r.code) + n
        /\ \A i \in 1..Len(r.code) : code[i] = r.code[i]
        /\ \A i \in 1..n : code[Len(r.code) + i] = m.code[i]
    <3>1. AsData(m) = m.code
      BY <1>7, AsDataType
    <3>2. /\ code \in Seq(Parts) /\ Len(code) = Len(r.code) + Size(m)
          /\ \A i \in 1..Len(r.code) : code[i] = r.code[i]
          /\ \A i \in 1..Size(m) : code[Len(r.code) + i] = AsData(m)[i]
      BY <1>10, PieceCode, ZenonT(60)
    <3> QED BY <1>8, <3>1, <3>2
  <2>2. ASSUME NEW i \in 1..(Len(r.code) + n) PROVE code[i] = HasPart(i)
    <3>1. CASE i \in 1..Len(r.code)
      BY <1>4, <2>1, <3>1
    <3>2. CASE i \notin 1..Len(r.code)
      <4>1. PICK j \in 1..n : i = Len(r.code) + j
        <5>1. i - Len(r.code) \in 1..n /\ i = Len(r.code) + (i - Len(r.code))
          BY <1>3, <3>2
        <5> QED BY <5>1
      <4>2. code[i] = m.code[j] /\ j \in 1..Len(m.code)
        BY <1>8, <2>1, <4>1
      <4>3. m.code[j] = a.code[j] /\ j \in 1..Len(a.code)
        BY <1>3, <1>4, <1>7, <1>8, <1>9, <4>2
      <4> QED BY <1>4, <4>1, <4>2, <4>3
    <3> QED BY <3>1, <3>2
  <2> QED BY <2>1, <2>2
<1>12. CASE n < r.need
  <2>1. /\ r' = [r EXCEPT !.need = r.need - n, !.code = code]
        /\ toReceiver' = Tail(toReceiver) /\ Aside /\ crash' = crash
        /\ kind' = kind /\ alive' = alive
    <3>1. ~(n > r.need) /\ n # r.need
      BY <1>3, <1>12
    <3> QED BY <1>8, <1>10, <3>1 DEF RecvPiece, Got, ReceiverOnly, Aside
  <2>2. /\ r' \in Receiver /\ r'.pc = "data" /\ r'.k = r.k /\ r'.len = r.len /\ r'.left = r.left
        /\ r'.fmt = r.fmt /\ r'.raw = r.raw /\ r'.need = r.need - n /\ r'.code = code
        /\ r'.out = r.out
    BY <1>1, <1>11, <1>12, <2>1, MorePiece
  <2>3. Len(r'.code) = Len(r.code) + n /\ Len(r'.code) + r'.need = Len(r.code) + r.need
    <3>1. PICK l \in Nat, d \in Nat : l = Len(r.code) /\ d = r.need
      BY <1>3
    <3>2. l + n + (d - n) = l + d
      OBVIOUS
    <3> QED BY <1>11, <2>2, <3>1, <3>2
  <2>4. ASSUME NEW i PROVE HasPart(i)' = HasPart(i)
    BY <2>2, <2>3 DEF HasPart
  <2>5. \A i \in 1..Len(r'.code) : r'.code[i] = HasPart(i)'
    <3>1. SUFFICES ASSUME NEW i \in 1..Len(code) PROVE code[i] = HasPart(i)'
      BY <2>2
    <3> QED BY <1>11, <2>4
  <2>6. OwnBlock'
    <3>1. r'.fmt \in {"RAW", "LZO"} /\ r'.raw \in 1..r'.left
          /\ (r'.fmt = "RAW" => Len(r'.code) + r'.need = r'.raw)
      BY <1>2, <2>2, <2>3 DEF OwnBlock
    <3> QED BY <2>5, <3>1 DEF OwnBlock
  <2>7. Own'
    BY <2>1, <2>2, <2>6, OwnData
  <2>8. Stays
    BY <2>1, <2>2, AsideStays
  <2>9. /\ b.pc = "data" /\ b.pos = a.pos /\ b.raw = a.raw /\ Len(b.code) = r'.need
        /\ \A i \in 1..Len(b.code) : b.code[i] = a.code[n + i]
    <3>1. Len(m.code) # Len(a.code)
      BY <1>3, <1>4, <1>8, <1>12
    <3>2. /\ b.pc = "data" /\ b.pos = a.pos /\ b.raw = a.raw
          /\ Len(b.code) = Len(a.code) - Len(m.code)
          /\ \A i \in 1..Len(b.code) : b.code[i] = a.code[Len(m.code) + i]
      BY <1>7, <3>1, Zenon
    <3>3. Len(a.code) - Len(m.code) = r'.need
      BY <1>4, <1>8, <2>2
    <3> QED BY <1>8, <3>2, <3>3, Zenon
  <2>10. ASSUME NEW i \in 1..Len(b.code) PROVE b.code[i] = HasPart(Len(r.code) + i)'
    <3>1. PICK j \in Nat, l \in Nat : j = Len(r'.code) + i /\ l = Len(r.code)
      <4>1. i \in Nat /\ Len(r'.code) \in Nat
        BY <1>3, <2>2, <2>3, <2>9
      <4>2. Len(r'.code) + i \in Nat
        BY <4>1
      <4> QED BY <1>3, <4>2
    <3>2. i \in Nat /\ i <= r.need - n /\ i > 0
      BY <1>3, <2>2, <2>9
    <3>3. j = l + (n + i) /\ n + i \in 1..Len(a.code)
      <4>1. PICK d \in Nat : d = r.need
        BY <1>3
      <4>2. j = l + n + i /\ i <= d - n
        BY <1>11, <2>2, <3>1, <3>2, <4>1
      <4>3. j = l + (n + i) /\ n + i \in 1..d
        BY <3>2, <4>2
      <4> QED BY <1>4, <4>1, <4>3
    <3>4. b.code[i] = a.code[n + i]
      BY <2>9
    <3>5. a.code[n + i] = HasPart(Len(r.code) + (n + i))
      BY <1>4, <3>3
    <3>6. b.code[i] = HasPart(j)
      BY <3>1, <3>3, <3>4, <3>5
    <3>7. HasPart(Len(r.code) + i)' = HasPart(j)'
      BY <3>1 DEF HasPart
    <3> QED BY <2>4, <3>6, <3>7
  <2>11. Follows(b)'
    <3>1. b.k = r'.k /\ b.len = r'.len /\ b.pos = Len(r'.out) /\ r'.fmt = Format(r'.len)
          /\ b.raw = r'.raw
      BY <1>4, <1>7, <2>2, <2>9
    <3> QED BY <2>2, <2>5, <2>9, <2>10, <3>1 DEF Follows
  <2>12. TrailInv'
    BY <1>1, <2>1, <2>8, <2>11, FollowedOn
  <2> QED BY <2>1, <2>2, <2>7, <2>12 DEF Received, Gains
<1>13. CASE n = r.need
  <2>1. BlockDone(code)
    <3>1. ~(n > r.need)
      BY <1>13
    <3> QED BY <1>8, <1>10, <1>13, <3>1 DEF RecvPiece
  <2>2. Keeps(NextBytes)
    BY <1>2, <1>3, <1>11, <1>13, <2>1, WholeBlockDone
  <2>3. r.raw \in 1..r.left
    BY <1>2 DEF OwnBlock
  <2>4. PICK raw \in Seq(Nat \X Nat) : raw = NextBytes
    BY NextBytesType
  <2>5. Len(raw) = r.raw /\ Len(raw) <= r.left
        /\ \A i \in 1..r.raw : raw[i] = <<r.k, Len(r.out) + i>>
    BY <1>3, <2>3, <2>4, NextBytesType, SMTT(60)
  <2>6. /\ r' \in Receiver /\ r'.pc = "next" /\ r'.k = r.k /\ r'.len = r.len
        /\ r'.left = r.left - r.raw /\ r'.fmt = r.fmt /\ r'.raw = r.raw
        /\ r'.out = r.out \o raw /\ Len(r'.out) = Len(r.out) + r.raw
        /\ \A i \in 1..Len(r.out) : r'.out[i] = r.out[i]
        /\ \A i \in 1..r.raw : r'.out[Len(r.out) + i] = raw[i]
        /\ toReceiver' = Tail(toReceiver) /\ Aside /\ crash' = crash
        /\ kind' = kind /\ alive' = alive
    BY <2>2, <2>4, <2>5, KeptBlock, ZenonT(60)
  <2>7. Own'
    <3>1. CASE Right
      <4>1. ASSUME NEW i \in 1..(Len(r.out) + r.raw) PROVE r'.out[i] = <<r.k, i>>
        <5>1. CASE i \in 1..Len(r.out)
          BY <2>6, <3>1, <5>1 DEF Right
        <5>2. CASE i \notin 1..Len(r.out)
          <6>1. PICK j \in 1..r.raw : i = Len(r.out) + j
            <7>1. i - Len(r.out) \in 1..r.raw /\ i = Len(r.out) + (i - Len(r.out))
              BY <1>3, <5>2
            <7> QED BY <7>1
          <6> QED BY <2>5, <2>6, <6>1
        <5> QED BY <5>1, <5>2
      <4>2. Right'
        BY <2>6, <4>1 DEF Right
      <4> QED BY <2>6, <4>2 DEF Own
    <3>2. CASE Loss /\ \E i \in 1..Len(r.out) : r.out[i] = Junk
      <4>1. PICK i \in 1..Len(r.out) : r.out[i] = Junk
        BY <3>2
      <4>2. i \in 1..Len(r'.out) /\ r'.out[i] = Junk
        BY <1>3, <2>6, <4>1
      <4>3. Loss'
        BY <2>6, <3>2 DEF Loss, Gone
      <4> QED BY <2>6, <4>2, <4>3 DEF Own
    <3> QED BY <3>1, <3>2 DEF Own
  <2>8. Stays
    BY <2>6, AsideStays
  <2>9. b.pc = AfterBlock(a.pos + a.raw, a.len) /\ b.pos = a.pos + a.raw
    <3>1. ~(Len(m.code) < Len(a.code))
      BY <1>3, <1>4, <1>8, <1>13
    <3> QED BY <1>7, <3>1
  <2>10. r'.raw = BlkSz \/ r'.left = 0
    <3>1. r.left = a.len - a.pos
      BY <1>3, <1>4, <1>5
    <3>2. r.raw = Min2(BlkSz, r.left)
      BY <1>4, <1>5, <3>1
    <3>3. r.raw \in {BlkSz, r.left}
      BY <1>3, <3>2, Min2Facts, Sizes
    <3> QED BY <1>3, <2>6, <3>3
  <2>11. Follows(b)'
    <3>1. b.pc \in {"block", "end"}
      BY <2>9 DEF AfterBlock
    <3>2. b.k = r'.k /\ b.len = r'.len /\ b.pos = Len(r'.out) /\ r'.fmt = Format(r'.len)
      BY <1>4, <1>7, <2>6, <2>9
    <3> QED BY <2>6, <2>10, <3>1, <3>2 DEF Follows
  <2>12. TrailInv'
    BY <1>1, <2>6, <2>8, <2>11, FollowedOn
  <2> QED BY <2>4, <2>6, <2>7, <2>12 DEF Received, Gains
<1> QED BY <1>3, <1>9, <1>12, <1>13

-----------------------------------------------------------------------------
(* The receiver takes something else for a piece *)

LEMMA LostIsLoss ==
  ASSUME Lost
  PROVE  Loss
BY DEF Lost, Loss, Gone, Parties

LEMMA JunkPiece ==
  ASSUME Typed, Own, TrailInv, alive["receiver"], RecvPiece, Lost,
         NEW h, Trailed(h), Len(h) = 1, ~alive["agent"] \/ Derailed,
         NEW m \in Msg, m = Head(toReceiver), IsJunk(m)
  PROVE  Received
<1>1. toReceiver # <<>> /\ r.pc = "data" /\ toReceiver \in Seq(Msg) /\ r \in Receiver
  BY DEF RecvPiece, ReceiverAt, Typed
<1>2. OwnBlock /\ Loss
  BY <1>1, LostIsLoss DEF Own
<1>3. /\ r.raw \in Nat /\ r.k \in Nat /\ r.need \in Nat \ {0} /\ r.left \in Nat /\ r.len \in Nat
      /\ Len(r.out) \in Nat /\ Len(r.code) \in Nat
  BY <1>1, ReceiverFields, LenProperties
<1>4. PICK n \in Nat \ {0} : n = Size(m)
  BY SizeType
<1>5. PICK code : code = r.code \o AsData(m)
  OBVIOUS
<1>6. code \in Seq(Parts) /\ Len(code) = Len(r.code) + n
  BY <1>4, <1>5, PieceCode
<1>7. Len(r.code) + 1 \in 1..Len(code) /\ code[Len(r.code) + 1] = JunkPart
  <2>1. 1 \in 1..Size(m)
    BY <1>4
  <2>2. code[Len(r.code) + 1] = AsData(m)[1]
    <3>1. \A i \in 1..Size(m) : code[Len(r.code) + i] = AsData(m)[i]
      BY <1>5, PieceCode, ZenonT(60)
    <3> QED BY <2>1, <3>1, Zenon
  <2>3. AsData(m)[1] = JunkPart
    BY <2>1, JunkData
  <2> QED BY <1>3, <1>4, <1>6, <2>2, <2>3
<1>8. PICK j \in 1..Len(code) : code[j] = JunkPart
  BY <1>7
<1>9. ASSUME NEW why, Crash(why) PROVE Received
  BY <1>9, CrashReceived
<1>10. CASE n > r.need
  <2>1. BlockDone(r.code)
    BY <1>4, <1>10 DEF RecvPiece
  <2>2. PICK why : Crash(why)
    BY <1>2, <1>3, <2>1, ShortBlockDone
  <2> QED BY <1>9, <2>2
<1>11. CASE n = r.need
  <2>1. BlockDone(code)
    <3>1. ~(n > r.need)
      BY <1>3, <1>11
    <3> QED BY <1>4, <1>5, <1>11, <3>1 DEF RecvPiece
  <2>2. CASE r.fmt = "LZO"
    <3>1. PICK why : Crash(why)
      BY <1>6, <1>8, <2>1, <2>2, JunkBlockDone
    <3> QED BY <1>9, <3>1
  <2>3. CASE r.fmt = "RAW"
    <3>1. Len(code) = r.raw /\ r.raw \in 1..r.left
      BY <1>2, <1>6, <1>11, <2>3 DEF OwnBlock
    <3>2. Keeps(Plainly(code))
      BY <2>1, <2>3, <3>1 DEF BlockDone, Keeps
    <3>3. PICK raw \in Seq(Nat \X Nat) : raw = Plainly(code)
      BY <1>6, PlainlyType
    <3>4. Len(raw) = r.raw /\ Len(raw) <= r.left /\ raw[j] = Junk
      <4>1. Len(raw) = Len(code)
        BY <1>6, <3>3, PlainlyType
      <4>2. raw[j] = Junk
        BY <1>6, <1>8, <3>3, PlainlyType
      <4> QED BY <1>3, <3>1, <4>1, <4>2
    <3>5. /\ r' \in Receiver /\ r'.pc = "next" /\ r'.k = r.k /\ r'.len = r.len
          /\ Len(r'.out) = Len(r.out) + r.raw
          /\ \A i \in 1..r.raw : r'.out[Len(r.out) + i] = raw[i]
          /\ toReceiver' = Tail(toReceiver) /\ Aside /\ crash' = crash
          /\ kind' = kind /\ alive' = alive
      BY <3>2, <3>3, <3>4, KeptBlock
    <3>6. Own'
      <4>1. r'.out[Len(r.out) + j] = Junk
        BY <3>1, <3>4, <3>5
      <4>2. Len(r.out) + j \in 1..Len(r'.out)
        BY <1>3, <3>1, <3>5
      <4>3. Loss'
        BY <1>2, <3>5 DEF Loss, Gone
      <4> QED BY <3>5, <4>1, <4>2, <4>3 DEF Own
    <3>7. Stays
      BY <3>5, AsideStays
    <3>8. TrailInv'
      BY <1>1, <3>5, <3>7, JunkTaken
    <3> QED BY <3>5, <3>6, <3>8 DEF Received
  <2> QED BY <1>2, <2>2, <2>3 DEF OwnBlock
<1>12. CASE n < r.need
  <2>1. /\ r' = [r EXCEPT !.need = r.need - n, !.code = code]
        /\ toReceiver' = Tail(toReceiver) /\ Aside /\ crash' = crash
        /\ kind' = kind /\ alive' = alive
    <3>1. ~(n > r.need) /\ n # r.need
      BY <1>3, <1>12
    <3> QED BY <1>4, <1>5, <3>1 DEF RecvPiece, Got, ReceiverOnly, Aside
  <2>2. /\ r' \in Receiver /\ r'.pc = "data" /\ r'.k = r.k /\ r'.len = r.len /\ r'.left = r.left
        /\ r'.fmt = r.fmt /\ r'.raw = r.raw /\ r'.need = r.need - n /\ r'.code = code
        /\ r'.out = r.out
    BY <1>1, <1>6, <1>12, <2>1, MorePiece
  <2>3. Len(r'.code) + r'.need = Len(r.code) + r.need
    <3>1. PICK l \in Nat, d \in Nat : l = Len(r.code) /\ d = r.need
      BY <1>3
    <3>2. l + n + (d - n) = l + d
      OBVIOUS
    <3> QED BY <1>6, <2>2, <3>1, <3>2
  <2>4. OwnBlock'
    <3>1. r'.fmt \in {"RAW", "LZO"} /\ r'.raw \in 1..r'.left
          /\ (r'.fmt = "RAW" => Len(r'.code) + r'.need = r'.raw)
      BY <1>2, <2>2, <2>3 DEF OwnBlock
    <3>2. Loss' /\ \E i \in 1..Len(r'.code) : r'.code[i] = JunkPart
      BY <1>2, <1>8, <2>1, <2>2 DEF Loss, Gone
    <3> QED BY <3>1, <3>2 DEF OwnBlock
  <2>5. Own'
    BY <2>1, <2>2, <2>4, OwnData
  <2>6. Stays
    BY <2>1, <2>2, AsideStays
  <2>7. TrailInv'
    BY <1>1, <2>1, <2>6, JunkTaken
  <2> QED BY <2>1, <2>2, <2>5, <2>7 DEF Received
<1> QED BY <1>3, <1>10, <1>11, <1>12

LEMMA PieceReceived ==
  ASSUME Typed, Own, TrailInv, alive["receiver"], RecvPiece
  PROVE  Received /\ (Gains \/ Lost)
<1>1. toReceiver # <<>> /\ toReceiver \in Seq(Msg)
  BY DEF RecvPiece, Typed
<1>2. PICK m \in Msg : m = Head(toReceiver)
  BY <1>1, Taken
<1>3. \/ \E h : /\ Trailed(h) /\ Len(h) > 1
                /\ \/ ~alive["agent"] \/ Derailed
                   \/ alive["agent"] /\ \E g : Linked(h, g)
                /\ h[1] \in Sender /\ h[2] \in Sender /\ Follows(h[1]) /\ Passes(h[1], m, h[2])
      \/ /\ ~alive["agent"] \/ Derailed
         /\ IsJunk(m)
         /\ \E h : Trailed(h) /\ Len(h) = 1
  BY <1>1, <1>2, NextOfReceiver
<1>4. CASE \E h : /\ Trailed(h) /\ Len(h) > 1
                  /\ \/ ~alive["agent"] \/ Derailed
                     \/ alive["agent"] /\ \E g : Linked(h, g)
                  /\ h[1] \in Sender /\ h[2] \in Sender /\ Follows(h[1]) /\ Passes(h[1], m, h[2])
  <2>1. PICK h : /\ Trailed(h) /\ Len(h) > 1
                 /\ \/ ~alive["agent"] \/ Derailed
                    \/ alive["agent"] /\ \E g : Linked(h, g)
                 /\ h[1] \in Sender /\ h[2] \in Sender /\ Follows(h[1]) /\ Passes(h[1], m, h[2])
    BY <1>4
  <2>2. PICK a \in Sender, b \in Sender : a = h[1] /\ b = h[2]
    BY <2>1
  <2>3. Follows(a) /\ Passes(a, m, b)
    BY <2>1, <2>2
  <2> QED BY <1>2, <2>1, <2>2, <2>3, RightPiece
<1>5. CASE (~alive["agent"] \/ Derailed) /\ IsJunk(m) /\ \E h : Trailed(h) /\ Len(h) = 1
  <2>1. PICK h : Trailed(h) /\ Len(h) = 1
    BY <1>5
  <2>2. Lost
    BY <1>5, DerailedLost
  <2> QED BY <1>2, <1>5, <2>1, <2>2, JunkPiece
<1> QED BY <1>3, <1>4, <1>5

-----------------------------------------------------------------------------
(* The types of what the agent's actions leave *)

AgentTyped == toAgent' \in Seq(Msg) /\ toReceiver' \in Seq(Msg) /\ f' \in Agent

LEMMA AgentPc ==
  ASSUME Typed, NEW label \in {"idle", "head", "start", "next", "pong"}, Goto(label)
  PROVE  f' \in Agent
<1>1. f \in Agent /\ f' = [f EXCEPT !.pc = label]
  BY DEF Typed, Goto
<1> QED BY <1>1 DEF Agent

LEMMA TookType ==
  ASSUME Typed, toAgent # <<>>, Took
  PROVE  toAgent' \in Seq(Msg)
<1>1. toAgent \in Seq(Msg)
  BY DEF Typed
<1> QED BY <1>1, Taken DEF Took

LEMMA LeftType ==
  ASSUME Typed, toAgent # <<>>, NEW m \in Msg, NEW room \in Nat \ {0}, Size(m) > room,
         Left(m, room)
  PROVE  toAgent' \in Seq(Msg)
<1>1. toAgent \in Seq(Msg)
  BY DEF Typed
<1>2. Tail(toAgent) \in Seq(Msg)
  BY <1>1, Taken
<1>3. PICK q \in Seq(Msg), w \in Msg : q = Tail(toAgent) /\ w = Rest(m, room)
  BY <1>2, RestType
<1>4. <<w>> \in Seq(Msg)
  OBVIOUS
<1>5. <<w>> \o q \in Seq(Msg)
  BY <1>4, Joined
<1> QED BY <1>3, <1>5 DEF Left

LEMMA SendsType ==
  ASSUME Typed, NEW m \in Msg, Sends(m)
  PROVE  toReceiver' \in Seq(Msg)
<1>1. toReceiver \in Seq(Msg)
  BY DEF Typed
<1> QED BY <1>1, Sent DEF Sends, Put

LEMMA FirstOfAgent ==
  ASSUME Typed, toAgent # <<>>
  PROVE  \E m \in Msg : m = Head(toAgent)
<1>1. toAgent \in Seq(Msg)
  BY DEF Typed
<1> QED BY <1>1, Taken

LEMMA HeadTyped ==
  ASSUME Typed, ForwardHead
  PROVE  AgentTyped
<1>1. toAgent # <<>>
  BY DEF ForwardHead
<1>2. PICK m \in Msg : m = Head(toAgent)
  BY <1>1, FirstOfAgent
<1>3. toAgent' \in Seq(Msg)
  <2>1. CASE m.type = "SHUTDOWN"
    <3>1. Size(m) = m.n /\ m.n > Room /\ Room \in Nat \ {0}
      BY <2>1, MsgFields, Sizes DEF Size
    <3>2. Left(m, Room)
      BY <1>2, <2>1 DEF ForwardHead
    <3> QED BY <1>1, <3>1, <3>2, LeftType
  <2>2. CASE m.type # "SHUTDOWN"
    BY <1>1, <1>2, <2>2, TookType DEF ForwardHead
  <2> QED BY <2>1, <2>2
<1>4. toReceiver' \in Seq(Msg)
  <2>1. PICK n \in Nat : n = m.n
    BY MsgFields
  <2>2. PICK w : w = Message("HEAD", n, <<>>)
    OBVIOUS
  <2>3. w \in Msg
    BY <2>2, PlainMsg
  <2>4. Sends(w)
    BY <1>2, <2>1, <2>2 DEF ForwardHead
  <2> QED BY <2>3, <2>4, SendsType
<1>5. f' \in Agent
  <2>1. PICK label \in {"idle", "start"} :
          label = IF kind = "memput" /\ ~alive["receiver"] THEN "idle" ELSE "start"
    OBVIOUS
  <2>2. Goto(label)
    BY <2>1 DEF ForwardHead
  <2> QED BY <2>2, AgentPc
<1> QED BY <1>3, <1>4, <1>5 DEF AgentTyped

LEMMA StartTyped ==
  ASSUME Typed, ForwardStart
  PROVE  AgentTyped
<1>1. toAgent # <<>> /\ Took
  BY DEF ForwardStart
<1>2. PICK m \in Msg : m = Head(toAgent)
  BY <1>1, FirstOfAgent
<1>3. toReceiver' \in Seq(Msg)
  <2>1. PICK w : w = IF m.type \in Starts THEN m ELSE Plain("JUNK")
    OBVIOUS
  <2>2. w \in Msg
    <3>1. PICK j : j = Message("JUNK", 0, <<>>)
      OBVIOUS
    <3>2. j \in Msg /\ j = Plain("JUNK")
      BY <3>1, PlainMsg, Fields
    <3> QED BY <2>1, <3>2
  <2>3. Sends(w)
    BY <1>2, <2>1 DEF ForwardStart
  <2> QED BY <2>2, <2>3, SendsType
<1>4. f' \in Agent
  <2>1. PICK label \in {"idle", "next"} : label = IF alive["receiver"] THEN "next" ELSE "idle"
    OBVIOUS
  <2>2. Goto(label)
    BY <2>1 DEF ForwardStart
  <2> QED BY <2>2, AgentPc
<1> QED BY <1>1, <1>3, <1>4, TookType DEF AgentTyped

LEMMA EndTyped ==
  ASSUME Typed, ForwardEnd
  PROVE  AgentTyped
<1>1. toAgent # <<>> /\ Took /\ Goto("idle")
  BY DEF ForwardEnd
<1>2. PICK w : w = Message("END", 0, <<>>)
  OBVIOUS
<1>3. w \in Msg /\ w = Plain("END")
  BY <1>2, PlainMsg, Fields
<1>4. Sends(w)
  BY <1>3 DEF ForwardEnd
<1> QED BY <1>1, <1>3, <1>4, TookType, SendsType, AgentPc DEF AgentTyped

LEMMA BlockTyped ==
  ASSUME Typed, ForwardBlock
  PROVE  AgentTyped
<1>1. toAgent # <<>> /\ Took
  BY DEF ForwardBlock
<1>2. PICK m \in Msg : m = Head(toAgent)
  BY <1>1, FirstOfAgent
<1>3. Sends(m) /\ m.type = "BLOCK"
  BY <1>2 DEF ForwardBlock
<1>4. f' \in Agent
  <2>1. f \in Agent
    BY DEF Typed
  <2>2. PICK n \in Nat \ {0} : n = m.n
    BY <1>3, MsgFields
  <2>3. f' = IF alive["receiver"] THEN [f EXCEPT !.pc = "data", !.left = n] ELSE f
    BY <1>2, <2>2 DEF ForwardBlock
  <2>4. CASE alive["receiver"]
    <3>1. f' = [f EXCEPT !.pc = "data", !.left = n]
      BY <2>3, <2>4
    <3>2. f' = [pc |-> "data", left |-> n]
      BY <2>1, <3>1 DEF Agent
    <3> QED BY <3>2 DEF Agent
  <2>5. CASE ~alive["receiver"]
    BY <2>1, <2>3, <2>5
  <2> QED BY <2>4, <2>5
<1> QED BY <1>1, <1>3, <1>4, TookType, SendsType DEF AgentTyped

\* unless the agent fails
LEMMA MisfitTyped ==
  ASSUME Typed, ForwardMisfit
  PROVE  Crash("forward") \/ (AgentTyped /\ AgentOnly)
<1>1. toAgent # <<>>
  BY DEF ForwardMisfit
<1>2. PICK m \in Msg : m = Head(toAgent)
  BY <1>1, FirstOfAgent
<1>3. CASE Size(m) <= Room
  BY <1>2, <1>3 DEF ForwardMisfit
<1>4. CASE ~(Size(m) <= Room)
  <2>1. Left(m, Room) /\ Goto("idle") /\ toReceiver' = toReceiver /\ AgentOnly
    BY <1>2, <1>4 DEF ForwardMisfit
  <2>2. Size(m) > Room /\ Room \in Nat \ {0}
    BY <1>4, SizeType, Sizes
  <2>3. toAgent' \in Seq(Msg)
    BY <1>1, <2>1, <2>2, LeftType
  <2> QED BY <2>1, <2>3, AgentPc DEF AgentTyped, Typed
<1> QED BY <1>3, <1>4

LEMMA PieceTyped ==
  ASSUME Typed, ForwardPiece
  PROVE  AgentTyped
<1>1. toAgent # <<>> /\ f.pc = "data"
  BY DEF ForwardPiece, AgentAt
<1>2. PICK m \in Msg : m = Head(toAgent)
  BY <1>1, FirstOfAgent
<1>3. f \in Agent /\ f.left \in Nat \ {0}
  BY <1>1 DEF Typed, Agent
<1>4. PICK room \in Nat \ {0} : room = Min2(Piece, f.left) /\ room <= Piece
  BY <1>3, Min2Facts, Sizes
<1>5. PICK n \in Nat \ {0} : n = Size(m)
  BY SizeType
<1>6. CASE n > room
  <2>1. Left(m, room) /\ Goto("next") /\ toReceiver' = toReceiver
    BY <1>2, <1>4, <1>5, <1>6 DEF ForwardPiece
  <2>2. toAgent' \in Seq(Msg)
    BY <1>1, <1>5, <1>6, <2>1, LeftType
  <2> QED BY <2>1, <2>2, AgentPc DEF AgentTyped, Typed
<1>7. CASE ~(n > room)
  <2>1. /\ Took /\ Sends(Message("DATA", 0, AsData(m)))
        /\ f' = [f EXCEPT !.left = IF alive["receiver"] THEN f.left - n ELSE 0,
                          !.pc = IF alive["receiver"] /\ f.left > n THEN "data" ELSE "next"]
    BY <1>2, <1>4, <1>5, <1>7 DEF ForwardPiece
  <2>2. Message("DATA", 0, AsData(m)) \in Msg
    <3>1. PICK code \in Seq(Parts) : code = AsData(m) /\ Len(code) = n
      BY <1>5, AsDataType
    <3>2. Len(code) \in 1..Piece /\ 0 \in Nat /\ "DATA" \in Types
      BY <1>4, <1>7, <3>1, Sizes DEF Types
    <3>3. Message("DATA", 0, code) \in Msg
      BY <3>2, IsMsg
    <3> QED BY <3>1, <3>3
  <2>3. n <= f.left
    <3>1. room <= f.left
      BY <1>3, <1>4, Min2Facts, Sizes
    <3> QED BY <1>3, <1>7, <3>1
  <2>4. f' \in Agent
    <3>1. PICK left \in Nat : left = IF alive["receiver"] THEN f.left - n ELSE 0
      BY <1>3, <2>3
    <3>2. PICK pc \in {"data", "next"} :
            pc = IF alive["receiver"] /\ f.left > n THEN "data" ELSE "next"
      OBVIOUS
    <3>3. pc = "data" => left > 0
      BY <1>3, <3>1, <3>2
    <3>4. f' = [f EXCEPT !.left = left, !.pc = pc]
      BY <2>1, <3>1, <3>2
    <3> QED BY <1>3, <3>3, <3>4 DEF Agent
  <2> QED BY <1>1, <2>1, <2>2, <2>4, TookType, SendsType DEF AgentTyped
<1> QED BY <1>6, <1>7

LEMMA FailsTyped ==
  ASSUME Typed, ForwardFails
  PROVE  AgentTyped
<1>1. toAgent' = toAgent /\ toReceiver' = toReceiver
  BY DEF ForwardFails
<1>2. PICK label \in {"next", "idle"} : label = IF f.pc = "data" THEN "next" ELSE "idle"
  OBVIOUS
<1>3. Goto(label)
  BY <1>2 DEF ForwardFails
<1> QED BY <1>1, <1>3, AgentPc DEF AgentTyped, Typed

LEMMA StrayTyped ==
  ASSUME Typed, Stray
  PROVE  Crash("payload") \/ (AgentTyped /\ AgentOnly)
<1>1. toAgent # <<>>
  BY DEF Stray
<1>2. Crash("payload") \/ (Took /\ f' = f /\ toReceiver' = toReceiver /\ AgentOnly)
  BY DEF Stray
<1> QED BY <1>1, <1>2, TookType DEF AgentTyped, Typed

LEMMA PingTyped ==
  ASSUME Typed, AgentPings
  PROVE  AgentTyped
<1>1. toAgent' = toAgent /\ Goto("pong")
  BY DEF AgentPings
<1>2. PICK w : w = Message("PING", 0, <<>>)
  OBVIOUS
<1>3. w \in Msg /\ w = Plain("PING")
  BY <1>2, PlainMsg, Fields
<1>4. toReceiver' = Append(toReceiver, w) /\ toReceiver \in Seq(Msg)
  BY <1>3 DEF AgentPings, Put, Typed
<1>5. toReceiver' \in Seq(Msg)
  BY <1>3, <1>4, Sent
<1> QED BY <1>1, <1>5, AgentPc DEF AgentTyped, Typed

-----------------------------------------------------------------------------
(* Every step keeps the invariant *)

LEMMA OwnSame ==
  ASSUME Own, UNCHANGED <<kind, alive, r>>
  PROVE  Own'
BY DEF Own, OwnBlock, Right, HasPart, Loss, Gone

LEMMA FetchingSame ==
  ASSUME Fetching, UNCHANGED <<kind, alive, request, r>>, s'.k = s.k
  PROVE  Fetching'
BY DEF Fetching

LEMMA CrashKeeps ==
  ASSUME IInv, NEW why \in {"sender", "forward", "payload", "receiver", "lzo"}, Crash(why),
         /\ why = "sender" => Gone("agent")
         /\ why = "forward" => Gone("sender") \/ Gone("receiver")
         /\ why = "payload" => Gone("receiver")
         /\ why \in {"receiver", "lzo"} => Lost
  PROVE  IInv'
<1>1. /\ UNCHANGED <<kind, alive, request, pong, toAgent, toReceiver, s, f, r>> /\ crash' = why
      /\ Typed /\ Own /\ Fetching /\ TrailInv
  BY DEF Crash, IInv
<1>2. Typed'
  BY <1>1 DEF Typed
<1>3. Own' /\ Fetching' /\ TrailInv'
  BY <1>1, OwnSame, FetchingSame, AllStays
<1>4. FailsOnlyByLoss'
  BY <1>1 DEF FailsOnlyByLoss, Gone, Lost
<1> QED BY <1>2, <1>3, <1>4 DEF IInv

LEMMA AgentKeeps ==
  ASSUME IInv, AgentTyped, AgentOnly, alive["receiver"] => TrailInv'
  PROVE  IInv'
<1>1. /\ UNCHANGED <<kind, alive, request, pong, s, r, crash>>
      /\ Typed /\ Own /\ Fetching /\ FailsOnlyByLoss
  BY DEF IInv, AgentOnly
<1>2. Typed'
  BY <1>1 DEF Typed, AgentTyped
<1>3. TrailInv'
  BY <1>1 DEF TrailInv
<1>4. Own' /\ Fetching'
  BY <1>1, OwnSame, FetchingSame
<1>5. FailsOnlyByLoss'
  BY <1>1 DEF FailsOnlyByLoss, Gone
<1> QED BY <1>2, <1>3, <1>4, <1>5 DEF IInv

LEMMA AgentStepKeeps ==
  ASSUME IInv, AgentStep \/ AgentPings
  PROVE  IInv'
<1>1. Typed /\ TrailInv
  BY DEF IInv
<1>2. CASE ForwardHead
  <2>1. alive["agent"] /\ AgentOnly
    BY <1>2 DEF ForwardHead, AgentAt, Running
  <2> QED BY <1>1, <1>2, <2>1, HeadTyped, HeadTrail, AgentKeeps
<1>3. CASE ForwardStart
  <2>1. alive["agent"] /\ AgentOnly
    BY <1>3 DEF ForwardStart, AgentAt, Running
  <2> QED BY <1>1, <1>3, <2>1, StartTyped, StartTrail, AgentKeeps
<1>4. CASE ForwardEnd
  <2>1. alive["agent"] /\ AgentOnly
    BY <1>4 DEF ForwardEnd, AgentAt, Running
  <2> QED BY <1>1, <1>4, <2>1, EndTyped, EndTrail, AgentKeeps
<1>5. CASE ForwardBlock
  <2>1. alive["agent"] /\ AgentOnly
    BY <1>5 DEF ForwardBlock, AgentAt, Running
  <2> QED BY <1>1, <1>5, <2>1, BlockTyped, BlockTrail, AgentKeeps
<1>6. CASE ForwardMisfit
  <2>1. alive["agent"]
    BY <1>6 DEF ForwardMisfit, AgentAt, Running
  <2>2. alive["receiver"] => TrailInv' /\ ~alive["sender"]
    BY <1>1, <1>6, <2>1, MisfitTrail
  <2>3. CASE Crash("forward")
    BY <2>2, <2>3, CrashKeeps DEF Gone
  <2>4. CASE AgentTyped /\ AgentOnly
    BY <2>2, <2>4, AgentKeeps
  <2> QED BY <1>1, <1>6, <2>3, <2>4, MisfitTyped
<1>7. CASE ForwardPiece
  <2>1. alive["agent"] /\ AgentOnly
    BY <1>7 DEF ForwardPiece, AgentAt, Running
  <2> QED BY <1>1, <1>7, <2>1, PieceTyped, PieceTrail, AgentKeeps
<1>8. CASE ForwardFails
  <2>1. alive["agent"] /\ AgentOnly
    BY <1>8 DEF ForwardFails, Running
  <2> QED BY <1>1, <1>8, <2>1, FailsTyped, FailsTrail, AgentKeeps
<1>9. CASE Stray
  <2>1. alive["agent"] /\ crash = "none"
    BY <1>9 DEF Stray, AgentAt, Running
  <2>2. alive["receiver"] => TrailInv' /\ AgentOnly
    BY <1>1, <1>9, <2>1, StrayTrail
  <2>3. CASE Crash("payload")
    <3>1. ~alive["receiver"]
      BY <2>1, <2>2, <2>3 DEF Crash, AgentOnly
    <3> QED BY <2>3, <3>1, CrashKeeps DEF Gone
  <2>4. CASE AgentTyped /\ AgentOnly
    BY <2>2, <2>4, AgentKeeps
  <2> QED BY <1>1, <1>9, <2>3, <2>4, StrayTyped
<1>10. CASE AgentPings
  <2>1. alive["agent"] /\ AgentOnly
    BY <1>10 DEF AgentPings, AgentAt, Running
  <2> QED BY <1>1, <1>10, <2>1, PingTyped, PingTrail, AgentKeeps
<1>11. CASE AgentPonged
  <2>1. /\ alive["agent"] /\ Goto("idle") /\ pong' = FALSE
        /\ UNCHANGED <<kind, alive, request, toAgent, toReceiver, s, r, crash>>
    BY <1>11 DEF AgentPonged, Running
  <2>2. f' \in Agent
    BY <1>1, <2>1, AgentPc
  <2>3. Typed'
    BY <1>1, <2>1, <2>2 DEF Typed
  <2>4. TrailInv'
    <3>1. CASE alive["receiver"]
      BY <1>1, <1>11, <2>1, <3>1, PongedTrail
    <3>2. CASE ~alive["receiver"]
      BY <2>1, <3>2 DEF TrailInv
    <3> QED BY <3>1, <3>2
  <2>5. Own' /\ Fetching'
    BY <2>1, OwnSame, FetchingSame DEF IInv
  <2>6. FailsOnlyByLoss'
    BY <2>1 DEF IInv, FailsOnlyByLoss, Gone
  <2> QED BY <2>3, <2>4, <2>5, <2>6 DEF IInv
<1> QED BY <1>2, <1>3, <1>4, <1>5, <1>6, <1>7, <1>8, <1>9, <1>10, <1>11 DEF AgentStep

-----------------------------------------------------------------------------
(* The sender's steps *)

\* what the sender sends
LEMMA SendingKeeps ==
  ASSUME IInv, Sending, SenderOnly, alive["sender"], request' \in Lens \union {None},
         s'.k >= s.k, Fetching',
         \A b \in Sender : b = s' => \A g : Ahead(g) => Been(b)'
  PROVE  IInv'
<1>1. /\ Typed /\ Own /\ TrailInv /\ FailsOnlyByLoss
      /\ UNCHANGED <<kind, alive, pong, toReceiver, f, r, crash>>
  BY DEF IInv, SenderOnly
<1>2. PICK m \in Msg : toAgent' = Append(toAgent, m) /\ Emits(s, m, s')
  BY DEF Sending
<1>3. PICK b \in Sender : b = s'
  BY DEF Sending
<1>4. toAgent \in Seq(Msg) /\ s.k \in Nat /\ b.k \in Nat /\ b.k >= s.k
  BY <1>1, <1>3, SenderFields, StreamAssumption DEF Typed
<1>5. toAgent' \in Seq(Msg)
  BY <1>2, <1>4, Sent
<1>6. Typed'
  BY <1>1, <1>3, <1>5 DEF Typed
<1>7. Own'
  BY <1>1, OwnSame
<1>8. FailsOnlyByLoss'
  BY <1>1 DEF FailsOnlyByLoss, Gone
<1>9. Stays
  <2>1. SUFFICES ASSUME NEW a \in Sender, Been(a) PROVE Been(a)'
    BY DEF Stays
  <2>2. a.k \in Nat /\ a.k <= s.k
    BY <2>1, SenderFields, StreamAssumption DEF Been
  <2>3. a.k <= s'.k
    BY <1>3, <1>4, <2>2
  <2> QED BY <1>1, <2>1, <2>3 DEF Been
<1>10. TrailInv'
  <2>1. CASE ~alive["receiver"]
    BY <1>1, <2>1 DEF TrailInv
  <2>2. CASE alive["receiver"] /\ ~alive["agent"]
    <3>1. PICK h : Trailed(h)
      BY <1>1, <2>2 DEF TrailInv
    <3>2. Trailed(h)'
      BY <1>1, <1>9, <3>1, TrailedStays
    <3> QED BY <1>1, <2>2, <3>2 DEF TrailInv
  <2>3. CASE alive["receiver"] /\ alive["agent"]
    <3>1. PICK h, g : Linked(h, g)
      BY <1>1, <2>3 DEF TrailInv, Derailed
    <3>2. Trailed(h) /\ Len(h) = Len(toReceiver) + 1 /\ Follows(h[1]) /\ Ahead(g)
          /\ h[Len(h)] = g[1] /\ Between(g[1])
      BY <3>1 DEF Linked
    <3>3. PICK k : k = Append(g, b)
      OBVIOUS
    <3>4. Ahead(k)' /\ k[1] = g[1]
      <4>1. Been(b)'
        BY <1>3, <3>2, Zenon
      <4> QED BY <1>1, <1>2, <1>3, <1>9, <3>2, <3>3, <4>1, AheadSent
    <3>5. Trailed(h)'
      BY <1>1, <1>9, <3>2, TrailedStays
    <3>6. Follows(h[1])' /\ Between(k[1])'
      BY <1>1, <3>2, <3>4 DEF Follows, HasPart, Between
    <3>7. Linked(h, k)'
      BY <1>1, <3>2, <3>4, <3>5, <3>6 DEF Linked
    <3> QED BY <1>1, <2>3, <3>7 DEF TrailInv
  <2> QED BY <2>1, <2>2, <2>3
<1> QED BY <1>6, <1>7, <1>8, <1>10 DEF IInv

\* where a trail ends the sender has been
LEMMA SenderBeen ==
  ASSUME NEW g, Ahead(g), alive["sender"]
  PROVE  Been(s)
<1>1. Trail(g) /\ g[Len(g)] = s
  BY DEF Ahead
<1>2. Len(g) \in 1..Len(g)
  BY <1>1, TrailParts
<1> QED BY <1>1, <1>2, TrailParts

LEMMA StreamSendKeeps ==
  ASSUME IInv, Sending, SenderOnly, alive["sender"], request' = request,
         s'.k = s.k, s'.len = s.len
  PROVE  IInv'
<1>1. UNCHANGED <<kind, alive, r, request>> /\ Fetching /\ Typed
  BY DEF IInv, SenderOnly
<1>2. Fetching'
  BY <1>1, FetchingSame
<1>3. ASSUME NEW b \in Sender, b = s', NEW g, Ahead(g) PROVE Been(b)'
  <2>1. Been(s)
    BY <1>3, SenderBeen
  <2>2. s.k \in Nat
    BY <1>1, SenderFields, StreamAssumption DEF Typed
  <2>3. b.k = s.k /\ b.len = s.len /\ s'.k = s.k
    BY <1>3
  <2>4. b.k <= s'.k
    BY <2>2, <2>3
  <2>5. kind' = "fetch" /\ b.k = r'.k => b.len = r'.len
    BY <1>1, <2>1, <2>3 DEF Been
  <2> QED BY <2>4, <2>5 DEF Been
<1>4. request' \in Lens \union {None} /\ s'.k >= s.k
  BY <1>1, SenderFields, StreamAssumption DEF Typed
<1> QED BY <1>2, <1>3, <1>4, SendingKeeps

LEMMA AnnounceKeeps ==
  ASSUME IInv, NEW n \in Lens, Announce(n)
  PROVE  IInv'
<1>1. /\ Typed /\ Fetching /\ alive["sender"] /\ alive["agent"] /\ SenderOnly
      /\ UNCHANGED <<kind, alive, r>>
      /\ kind \in {"memput", "fetch"}
  BY StreamAssumption DEF IInv, Announce, Running, SenderOnly, Typed
<1>2. Sending /\ s'.k = s.k + 1 /\ s'.len = n
  BY <1>1, AnnounceSends
<1>3. IF kind = "memput" THEN request' = request ELSE n = request /\ request' = None
  BY DEF Announce
<1>4. s.k \in Nat
  BY <1>1, SenderFields, StreamAssumption DEF Typed
<1>5. n # None
  BY StreamAssumption
<1>6. kind = "fetch" => r.len = n /\ s'.k = r.k
  BY <1>1, <1>2, <1>3, <1>5 DEF Fetching
<1>7. Fetching'
  <2>1. SUFFICES ASSUME kind = "fetch" PROVE Fetching'
    BY <1>1 DEF Fetching
  <2>2. s'.k = r'.k /\ request' = None /\ s'.k \in Nat
    BY <1>1, <1>2, <1>3, <1>4, <1>6, <2>1
  <2> QED BY <2>2 DEF Fetching
<1>8. ASSUME NEW b \in Sender, b = s', NEW g, Ahead(g) PROVE Been(b)'
  <2>1. b.k = s'.k /\ b.len = n /\ s'.k \in Nat
    BY <1>2, <1>4, <1>8
  <2>2. b.k <= s'.k
    BY <2>1
  <2>3. kind' = "fetch" /\ b.k = r'.k => b.len = r'.len
    BY <1>1, <1>6, <2>1
  <2> QED BY <2>2, <2>3 DEF Been
<1>9. request' \in Lens \union {None} /\ s'.k >= s.k
  BY <1>1, <1>2, <1>3, <1>4 DEF Typed
<1> QED BY <1>1, <1>2, <1>7, <1>8, <1>9, SendingKeeps

LEMMA SendFailsKeeps ==
  ASSUME IInv, SendFails
  PROVE  IInv'
<1>1. ~alive["agent"] /\ Typed /\ Own /\ Fetching /\ TrailInv /\ FailsOnlyByLoss
  BY DEF SendFails, IInv
<1>2. CASE Crash("sender")
  BY <1>1, <1>2, CrashKeeps DEF Gone
<1>3. CASE s' = [s EXCEPT !.pc = "idle"] /\ UNCHANGED <<request, toAgent>> /\ SenderOnly
  <2>1. UNCHANGED <<kind, alive, request, pong, toAgent, toReceiver, f, r, crash>>
    BY <1>3 DEF SenderOnly
  <2>2. s' \in Sender /\ s'.k = s.k
    BY <1>1, <1>3 DEF Typed, Sender
  <2>3. Typed'
    BY <1>1, <2>1, <2>2 DEF Typed
  <2>4. Own' /\ Fetching'
    BY <1>1, <2>1, <2>2, OwnSame, FetchingSame
  <2>5. FailsOnlyByLoss'
    BY <1>1, <2>1 DEF FailsOnlyByLoss, Gone
  <2>6. Stays
    BY <2>1, <2>2 DEF Stays, Been
  <2>7. TrailInv'
    <3>1. CASE ~alive["receiver"]
      BY <2>1, <3>1 DEF TrailInv
    <3>2. CASE alive["receiver"]
      <4>1. PICK h : Trailed(h)
        BY <1>1, <3>2 DEF TrailInv
      <4>2. Trailed(h)'
        BY <2>1, <2>6, <4>1, TrailedStays
      <4> QED BY <1>1, <2>1, <4>2 DEF TrailInv
    <3> QED BY <3>1, <3>2
  <2> QED BY <2>3, <2>4, <2>5, <2>7 DEF IInv
<1> QED BY <1>2, <1>3 DEF SendFails

LEMMA SenderStepKeeps ==
  ASSUME IInv, SenderStep
  PROVE  IInv'
<1>1. Typed
  BY DEF IInv
<1>2. CASE SendStart
  <2>1. SenderOnly /\ alive["sender"] /\ request' = request
    BY <1>2 DEF SendStart, Running
  <2> QED BY <1>1, <1>2, <2>1, StartSends, StreamSendKeeps
<1>3. CASE SendBlock
  <2>1. SenderOnly /\ alive["sender"] /\ request' = request
    BY <1>3 DEF SendBlock, Running
  <2> QED BY <1>1, <1>3, <2>1, BlockSends, StreamSendKeeps
<1>4. CASE SendPiece
  <2>1. SenderOnly /\ alive["sender"] /\ request' = request
    BY <1>4 DEF SendPiece, Running
  <2> QED BY <1>1, <1>4, <2>1, PieceSends, StreamSendKeeps
<1>5. CASE SendEnd
  <2>1. SenderOnly /\ alive["sender"] /\ request' = request
    BY <1>5 DEF SendEnd, Running
  <2> QED BY <1>1, <1>5, <2>1, EndSends, StreamSendKeeps
<1>6. CASE SendFails
  BY <1>6, SendFailsKeeps
<1>7. CASE kind = "fetch" /\ request # None /\ Announce(request)
  <2>1. PICK n \in Lens : n = request
    BY <1>1, <1>7 DEF Typed
  <2>2. Announce(n)
    BY <1>7, <2>1
  <2> QED BY <2>2, AnnounceKeeps
<1> QED BY <1>2, <1>3, <1>4, <1>5, <1>6, <1>7 DEF SenderStep

-----------------------------------------------------------------------------
(* The receiver's steps *)

\* the receiver has taken what it was told
Heard ==
  /\ (toReceiver # <<>> /\ toReceiver' = Tail(toReceiver)) \/ toReceiver' = toReceiver
  /\ request' = request /\ pong' \in BOOLEAN
  /\ UNCHANGED <<kind, alive, toAgent, s, f>>
  /\ crash' \in {crash, "receiver", "lzo"}

LEMMA ReceivedKeeps ==
  ASSUME IInv, Received, Heard, crash = "none", Fetching'
  PROVE  IInv'
<1>1. Typed /\ FailsOnlyByLoss /\ toReceiver \in Seq(Msg)
  BY DEF IInv, Typed
<1>2. toReceiver' \in Seq(Msg)
  BY <1>1, Taken DEF Heard
<1>3. Typed'
  BY <1>1, <1>2 DEF Typed, Heard, Received
<1>4. FailsOnlyByLoss'
  BY <1>1 DEF FailsOnlyByLoss, Heard, Received, Lost, Gone
<1> QED BY <1>3, <1>4 DEF IInv, Received

LEMMA BlockDoneHears ==
  ASSUME Typed, NEW code, BlockDone(code), toReceiver # <<>>
  PROVE  Heard /\ r'.k = r.k /\ r'.len = r.len
<1>1. r \in Receiver /\ pong \in BOOLEAN
  BY DEF Typed
<1>2. CASE \E why \in {"receiver", "lzo"} : Crash(why)
  BY <1>1, <1>2 DEF Crash, Heard
<1>3. CASE \E raw : Keeps(raw)
  <2>1. PICK raw : Keeps(raw)
    BY <1>3
  <2>2. Heard
    BY <1>1, <2>1 DEF Keeps, Heard, Got, ReceiverOnly
  <2>3. PICK n, left, out : r' = [r EXCEPT !.pc = "next", !.raw = n, !.left = left,
                                           !.need = 0, !.code = <<>>, !.out = out]
    BY <2>1 DEF Keeps
  <2>4. r'.k = r.k /\ r'.len = r.len
    BY <1>1, <2>3 DEF Receiver
  <2> QED BY <2>2, <2>4
<1>4. (\E why \in {"receiver", "lzo"} : Crash(why)) \/ (\E raw : Keeps(raw))
  <2>1. CASE r.fmt = "LZO" /\ (code = <<>> \/ ~Whole(code))
    BY <2>1 DEF BlockDone
  <2>2. CASE r.fmt # "LZO" /\ Len(code) # r.raw
    BY <2>2 DEF BlockDone
  <2>3. CASE r.fmt = "LZO" /\ ~(code = <<>> \/ ~Whole(code))
    <3>1. Keeps(Decompressed(code))
      BY <2>3 DEF BlockDone, Keeps
    <3> QED BY <3>1
  <2>4. CASE r.fmt # "LZO" /\ Len(code) = r.raw
    <3>1. Keeps(Plainly(code))
      BY <2>4 DEF BlockDone, Keeps
    <3> QED BY <3>1
  <2> QED BY <2>1, <2>2, <2>3, <2>4
<1> QED BY <1>2, <1>3, <1>4

\* behind the first message of a stream the receiver's step is not about another
LEMMA ReceiverHears ==
  ASSUME Typed, RecvStart \/ RecvBlock \/ RecvPiece \/ RecvEnd \/ RecvFails
  PROVE  /\ Heard /\ r'.k = r.k /\ r'.len = r.len /\ crash = "none" /\ alive["receiver"]
         /\ r.pc # "head" \/ ~alive["agent"]
<1>1. r \in Receiver /\ pong \in BOOLEAN
  BY DEF Typed
<1>2. CASE RecvStart
  <2>1. r.pc = "start" /\ crash = "none" /\ alive["receiver"]
    BY <1>2 DEF RecvStart, ReceiverAt, Running
  <2>2. Heard
    BY <1>1, <1>2 DEF RecvStart, Got, ReceiverOnly, Heard
  <2>3. PICK raw, fmt : r' = [r EXCEPT !.pc = "next", !.raw = raw, !.fmt = fmt]
    BY <1>2 DEF RecvStart
  <2>4. r'.k = r.k /\ r'.len = r.len
    BY <1>1, <2>3 DEF Receiver
  <2> QED BY <2>1, <2>2, <2>4
<1>3. CASE RecvBlock
  <2>1. r.pc = "next" /\ crash = "none" /\ alive["receiver"] /\ toReceiver # <<>>
    BY <1>3 DEF RecvBlock, ReceiverAt, Running
  <2>2. CASE Crash("receiver")
    BY <1>1, <2>1, <2>2 DEF Crash, Heard
  <2>3. CASE ~Crash("receiver")
    <3>1. PICK raw, need : /\ r' = [r EXCEPT !.pc = "data", !.raw = raw, !.need = need, !.code = <<>>]
                           /\ Got /\ UNCHANGED <<request, pong>> /\ ReceiverOnly
      BY <1>3, <2>3 DEF RecvBlock
    <3>2. r'.k = r.k /\ r'.len = r.len
      BY <1>1, <3>1 DEF Receiver
    <3> QED BY <1>1, <2>1, <3>1, <3>2 DEF Got, ReceiverOnly, Heard
  <2> QED BY <2>2, <2>3
<1>4. CASE RecvPiece
  <2>1. r.pc = "data" /\ crash = "none" /\ alive["receiver"] /\ toReceiver # <<>>
    BY <1>4 DEF RecvPiece, ReceiverAt, Running
  <2>2. PICK m : m = Head(toReceiver)
    OBVIOUS
  <2>3. PICK code : code = r.code \o AsData(m)
    OBVIOUS
  <2>4. CASE Size(m) > r.need
    <3>1. Size(m) # r.need
      <4>1. toReceiver \in Seq(Msg)
        BY DEF Typed
      <4>2. m \in Msg /\ r.need \in Nat
        BY <1>1, <2>1, <2>2, <4>1, Taken, ReceiverFields
      <4> QED BY <2>4, <4>2, SizeType
    <3>2. BlockDone(r.code)
      BY <1>4, <2>2, <2>4, <3>1 DEF RecvPiece
    <3> QED BY <2>1, <3>2, BlockDoneHears
  <2>5. CASE ~(Size(m) > r.need) /\ Size(m) = r.need
    <3>1. BlockDone(code)
      BY <1>4, <2>2, <2>3, <2>5 DEF RecvPiece
    <3> QED BY <2>1, <3>1, BlockDoneHears
  <2>6. CASE ~(Size(m) > r.need) /\ Size(m) # r.need
    <3>1. PICK need : /\ r' = [r EXCEPT !.need = need, !.code = code]
                      /\ Got /\ UNCHANGED <<request, pong>> /\ ReceiverOnly
      BY <1>4, <2>2, <2>3, <2>6 DEF RecvPiece
    <3>2. r'.k = r.k /\ r'.len = r.len
      BY <1>1, <3>1 DEF Receiver
    <3> QED BY <1>1, <2>1, <3>1, <3>2 DEF Got, ReceiverOnly, Heard
  <2> QED BY <2>4, <2>5, <2>6
<1>5. CASE RecvEnd
  <2>1. r.pc = "next" /\ crash = "none" /\ alive["receiver"] /\ toReceiver # <<>>
    BY <1>5 DEF RecvEnd, ReceiverAt, Running
  <2>2. CASE Crash("receiver")
    BY <1>1, <2>1, <2>2 DEF Crash, Heard
  <2>3. CASE ~Crash("receiver")
    <3>1. /\ r' = [r EXCEPT !.pc = "idle"]
          /\ Got /\ UNCHANGED <<request, pong>> /\ ReceiverOnly
      BY <1>5, <2>3 DEF RecvEnd
    <3>2. r'.k = r.k /\ r'.len = r.len
      BY <1>1, <3>1 DEF Receiver
    <3> QED BY <1>1, <2>1, <3>1, <3>2 DEF Got, ReceiverOnly, Heard
  <2> QED BY <2>2, <2>3
<1>6. CASE RecvFails
  <2>1. ~alive["agent"] /\ crash = "none" /\ alive["receiver"]
    BY <1>6 DEF RecvFails, Running
  <2>2. CASE r.pc = "data"
    <3>1. PICK why \in {"lzo", "receiver"} : why = IF r.fmt = "LZO" THEN "lzo" ELSE "receiver"
      OBVIOUS
    <3>2. Crash(why)
      BY <1>6, <2>2, <3>1 DEF RecvFails
    <3> QED BY <1>1, <2>1, <3>2 DEF Crash, Heard
  <2>3. CASE r.pc # "data"
    <3>1. /\ r' = [r EXCEPT !.pc = "idle"]
          /\ UNCHANGED <<request, pong, toReceiver>> /\ ReceiverOnly
      BY <1>6, <2>3 DEF RecvFails
    <3>2. r'.k = r.k /\ r'.len = r.len
      BY <1>1, <3>1 DEF Receiver
    <3> QED BY <1>1, <2>1, <3>1, <3>2 DEF ReceiverOnly, Heard
  <2> QED BY <2>2, <2>3
<1> QED BY <1>2, <1>3, <1>4, <1>5, <1>6

\* the answer to a fetch comes when the provider no longer has to send it
LEMMA HeadFetching ==
  ASSUME IInv, RecvHead, alive["receiver"], kind = "fetch"
  PROVE  Fetching' /\ r'.k = r.k /\ r'.len = r.len
<1>1. /\ Typed /\ Own /\ Fetching /\ TrailInv
      /\ toReceiver # <<>> /\ UNCHANGED <<kind, alive, request, s>> /\ r.pc = "head"
  BY DEF IInv, RecvHead, ReceiverAt, ReceiverOnly
<1>2. toReceiver \in Seq(Msg) /\ r \in Receiver /\ r.k \in Nat /\ s.k \in Nat
  BY <1>1, ReceiverFields, SenderFields, StreamAssumption DEF Typed
<1>3. PICK m \in Msg : m = Head(toReceiver)
  BY <1>1, <1>2, Taken
<1>4. r'.k = r.k /\ r'.len = r.len
  <2>1. r' = CASE m.type = "SHUTDOWN" -> [r EXCEPT !.pc = "idle"]
               [] m.type # "SHUTDOWN" -> [r EXCEPT !.pc = "start"]
    <3>1. CASE m.type = "SHUTDOWN"
      BY <1>3, <3>1 DEF RecvHead
    <3>2. CASE m.type # "SHUTDOWN"
      BY <1>3, <3>2 DEF RecvHead
    <3> QED BY <3>1, <3>2
  <2>2. \E pc : r' = [r EXCEPT !.pc = pc]
    BY <2>1
  <2> QED BY <1>2, <2>2 DEF Receiver
<1>5. alive["agent"] => request = None
  <2>1. CASE \E h : /\ h[1] \in Sender /\ h[2] \in Sender /\ Been(h[2]) /\ Follows(h[1])
                    /\ Passes(h[1], m, h[2])
    <3>1. PICK h : /\ h[1] \in Sender /\ h[2] \in Sender /\ Been(h[2]) /\ Follows(h[1])
                   /\ Passes(h[1], m, h[2])
      BY <2>1
    <3>2. PICK a \in Sender, b \in Sender : a = h[1] /\ b = h[2]
      BY <3>1
    <3>3. a.pc = "idle" /\ a.k + 1 = r.k
      BY <1>1, <3>1, <3>2 DEF Follows
    <3>4. b.k = r.k
      BY <3>1, <3>2, <3>3 DEF Passes, Emits
    <3>5. b.k <= s.k
      BY <3>1, <3>2 DEF Been
    <3>6. s.k + 1 # r.k
      BY <1>2, <3>4, <3>5
    <3> QED BY <1>1, <3>6 DEF Fetching
  <2>2. CASE ~alive["agent"] \/ Derailed
    BY <1>1, <2>2 DEF Derailed, Fetching
  <2> QED BY <1>1, <1>3, <2>1, <2>2, NextOfReceiver
<1>6. Fetching'
  BY <1>1, <1>4, <1>5 DEF Fetching
<1> QED BY <1>4, <1>6

LEMMA HeadHears ==
  ASSUME Typed, RecvHead
  PROVE  Heard /\ crash = "none" /\ alive["receiver"]
<1>1. pong' \in BOOLEAN
  BY DEF RecvHead, Typed
<1> QED BY <1>1 DEF RecvHead, Got, ReceiverOnly, Heard, ReceiverAt, Running

LEMMA ReceiverStepKeeps ==
  ASSUME IInv, ReceiverStep
  PROVE  IInv'
<1>1. Typed /\ Own /\ TrailInv /\ Fetching
  BY DEF IInv
<1>2. CASE RecvHead
  <2>1. Heard /\ crash = "none" /\ alive["receiver"]
    BY <1>1, <1>2, HeadHears
  <2>2. Received
    BY <1>1, <1>2, <2>1, HeadReceived
  <2>3. Fetching'
    <3>1. CASE kind = "fetch"
      BY <1>2, <2>1, <3>1, HeadFetching
    <3>2. CASE kind # "fetch"
      BY <2>1, <3>2 DEF Heard, Fetching
    <3> QED BY <3>1, <3>2
  <2> QED BY <2>1, <2>2, <2>3, ReceivedKeeps
<1>3. CASE RecvStart \/ RecvBlock \/ RecvPiece \/ RecvEnd \/ RecvFails
  <2>1. /\ Heard /\ r'.k = r.k /\ r'.len = r.len /\ crash = "none" /\ alive["receiver"]
        /\ r.pc # "head" \/ ~alive["agent"]
    BY <1>1, <1>3, ReceiverHears
  <2>2. Received
    BY <1>1, <1>3, <2>1, StartReceived, BlockReceived, PieceReceived, EndReceived, FailsReceived
  <2>3. Fetching'
    BY <1>1, <2>1 DEF Heard, Fetching
  <2> QED BY <2>1, <2>2, <2>3, ReceivedKeeps
<1> QED BY <1>2, <1>3 DEF ReceiverStep

-----------------------------------------------------------------------------
(* A fetch is asked for, and parties disappear *)

LEMMA AskKeeps ==
  ASSUME IInv, NEW n \in Lens, Ask(n)
  PROVE  IInv' /\ r'.k = r.k + 1 /\ r'.len = n /\ r'.out = <<>> /\ r'.pc = "head"
<1>1. /\ Typed /\ Own /\ Fetching /\ TrailInv /\ FailsOnlyByLoss
      /\ r.pc = "idle" /\ kind = "fetch" /\ f.pc = "idle" /\ s.pc = "idle" /\ s.k < MaxStreams
      /\ crash = "none" /\ alive["receiver"] /\ alive["agent"] /\ alive["sender"]
      /\ request' = n /\ Goto("head")
      /\ UNCHANGED <<kind, alive, pong, toAgent, toReceiver, s, crash>>
  BY DEF IInv, Ask, ReceiverAt, Running, Goto
<1>2. s.k = r.k /\ request = None
  BY <1>1 DEF Fetching
<1>3. /\ r \in Receiver /\ r.k \in Nat /\ s.k \in Nat /\ MaxStreams \in Nat
      /\ s.k \in 0..MaxStreams /\ n \in Nat
  BY <1>1, ReceiverFields, SenderFields, StreamAssumption DEF Typed
<1>4. r' \in Receiver /\ r'.pc = "head" /\ r'.k = r.k + 1 /\ r'.len = n /\ r'.out = <<>>
  <2>1. PICK k \in 0..MaxStreams : k = r.k + 1
    <3>1. r.k + 1 \in 0..MaxStreams
      BY <1>1, <1>2, <1>3
    <3> QED BY <3>1
  <2>2. PICK pc \in {"head", "start"} : pc = "head"
    OBVIOUS
  <2>3. r' = [r EXCEPT !.pc = pc, !.k = k, !.len = n, !.left = n, !.out = <<>>]
    BY <2>1, <2>2 DEF Ask
  <2>4. r' = [pc |-> pc, k |-> k, len |-> n, left |-> n, fmt |-> r.fmt,
              raw |-> r.raw, need |-> r.need, code |-> r.code, out |-> <<>>]
    BY <1>3, <2>3, ReceiverHeadIs
  <2>5. r' \in Receiver /\ r'.pc = pc /\ r'.k = k /\ r'.len = n /\ r'.out = <<>>
    BY <1>3, <2>4, ReceiverHead
  <2> QED BY <2>1, <2>2, <2>5
<1>5. f' \in Agent /\ f'.pc = "head"
  BY <1>1, AgentPc, GotoPc
<1>6. Typed'
  BY <1>1, <1>4, <1>5 DEF Typed
<1>7. Own'
  BY <1>1, <1>4, OwnFresh
<1>8. Fetching'
  <2>1. s'.k = r.k /\ s'.k <= r'.k /\ s'.k + 1 = r'.k
    BY <1>1, <1>2, <1>3, <1>4
  <2>2. request' = n /\ n # None /\ r'.pc = "head" /\ r'.len = n /\ alive'["sender"]
    BY <1>1, <1>4, StreamAssumption
  <2> QED BY <2>1, <2>2 DEF Fetching
<1>9. FailsOnlyByLoss'
  BY <1>1 DEF FailsOnlyByLoss, Gone
<1>10. Stays
  <2>1. SUFFICES ASSUME NEW a \in Sender, Been(a) PROVE Been(a)'
    BY DEF Stays
  <2>2. a.k \in Nat /\ a.k <= s.k
    BY <2>1, SenderFields, StreamAssumption DEF Been
  <2>3. a.k <= s'.k /\ a.k # r'.k
    BY <1>1, <1>2, <1>3, <1>4, <2>2
  <2> QED BY <2>3 DEF Been
<1>11. PICK h, g : Linked(h, g)
  BY <1>1 DEF TrailInv, Derailed
<1>12. Trailed(h) /\ Len(h) = Len(toReceiver) + 1 /\ Follows(h[1]) /\ Ahead(g)
       /\ h[Len(h)] = g[1] /\ Between(g[1])
  BY <1>11 DEF Linked
<1>13. Follows(h[1])'
  <2>1. h[1].pc = "idle" /\ h[1].k = r.k
    BY <1>1, <1>12 DEF Follows
  <2>2. h[1].k + 1 = r'.k
    BY <1>4, <2>1
  <2> QED BY <1>4, <2>1, <2>2 DEF Follows
<1>14. Trailed(h)'
  <2>1. Trail(h)'
    BY <1>10, <1>12, TrailStays DEF Stays, Trailed
  <2>2. /\ Len(h) <= Len(toReceiver') + 1
        /\ \A i \in Len(h)..Len(toReceiver') : IsJunk(toReceiver'[i])
    BY <1>1, <1>12 DEF Trailed
  <2>3. \A i \in Len(h)..Len(toReceiver') : IsJunk(toReceiver[i])'
    BY <1>1, <2>2 DEF IsJunk
  <2>4. \A i \in 1..(Len(h) - 1) : Passes(h[i], toReceiver[i], h[i + 1])'
    BY <1>1, <1>12 DEF Trailed, Passes
  <2> QED BY <1>13, <2>1, <2>2, <2>3, <2>4 DEF Trailed
<1>15. Ahead(g)'
  BY <1>1, <1>10, <1>12, AheadStays
<1>16. Between(g[1])'
  BY <1>1, <1>5, <1>12 DEF Between
<1>17. Linked(h, g)'
  BY <1>1, <1>12, <1>13, <1>14, <1>15, <1>16 DEF Linked
<1>18. TrailInv'
  BY <1>1, <1>17 DEF TrailInv
<1> QED BY <1>4, <1>6, <1>7, <1>8, <1>9, <1>18 DEF IInv

LEMMA CutOffType ==
  ASSUME NEW q \in Seq(Msg), NEW p \in CutOff(q)
  PROVE  p \in Seq(Msg)
BY CutOffParts

LEMMA GoneParts ==
  ASSUME Typed, NEW p \in Parties, Vanish(p)
  PROVE  /\ alive' \in [Parties -> BOOLEAN] /\ alive[p] /\ ~alive'[p] /\ Loss'
         /\ \A q \in Parties \ {p} : alive'[q] = alive[q]
         /\ crash = "none"
BY DEF Typed, Vanish, Running, Loss, Gone

\* what is right remains so, and nothing more is asked of the rest
LEMMA OwnLost ==
  ASSUME Own, Loss', kind' = kind, r' = r
  PROVE  Own'
BY DEF Own, OwnBlock, Right, HasPart

LEMMA VanishKeeps ==
  ASSUME IInv, SenderGone \/ AgentGone \/ ReceiverGone
  PROVE  IInv'
<1>1. Typed /\ Own /\ Fetching /\ TrailInv /\ FailsOnlyByLoss
  BY DEF IInv
<1>2. toAgent \in Seq(Msg) /\ toReceiver \in Seq(Msg) /\ <<>> \in Seq(Msg)
  BY <1>1 DEF Typed
<1>3. UNCHANGED <<kind, pong, s, f, r, crash>>
  BY DEF SenderGone, AgentGone, ReceiverGone
<1>4. Stays
  BY <1>3 DEF Stays, Been
<1>5. PICK p \in Parties : Vanish(p)
  BY DEF SenderGone, AgentGone, ReceiverGone, Parties
<1>6. /\ alive' \in [Parties -> BOOLEAN] /\ alive[p] /\ ~alive'[p] /\ Loss'
      /\ \A q \in Parties \ {p} : alive'[q] = alive[q]
      /\ crash = "none"
  BY <1>1, <1>5, GoneParts
<1>7. toAgent' \in Seq(Msg) /\ toReceiver' \in Seq(Msg) /\ request' \in Lens \union {None}
  <2>1. request \in Lens \union {None}
    BY <1>1 DEF Typed
  <2>2. CASE SenderGone
    BY <1>2, <2>1, <2>2, CutOffType DEF SenderGone
  <2>3. CASE AgentGone
    BY <1>2, <2>1, <2>3, CutOffType DEF AgentGone
  <2>4. CASE ReceiverGone
    BY <1>2, <2>1, <2>4 DEF ReceiverGone
  <2> QED BY <2>2, <2>3, <2>4
<1>8. Typed'
  BY <1>1, <1>3, <1>6, <1>7 DEF Typed
<1>9. Own'
  BY <1>1, <1>3, <1>6, OwnLost
<1>10. FailsOnlyByLoss'
  BY <1>3, <1>6 DEF FailsOnlyByLoss
<1>11. CASE SenderGone
  <2>1. /\ alive["sender"] /\ ~alive'["sender"]
        /\ alive'["agent"] = alive["agent"] /\ alive'["receiver"] = alive["receiver"]
        /\ toAgent' \in CutOff(toAgent) /\ toReceiver' = toReceiver /\ request' = None
    BY <1>1, <1>11, GoneParts DEF SenderGone, Parties
  <2>2. Fetching'
    BY <1>1, <1>3, <2>1 DEF Fetching
  <2>3. TrailInv'
    <3>1. CASE ~alive["receiver"]
      BY <2>1, <3>1 DEF TrailInv
    <3>2. CASE alive["receiver"] /\ ~alive["agent"]
      <4>1. PICK h : Trailed(h)
        BY <1>1, <3>2 DEF TrailInv
      <4>2. Trailed(h)'
        BY <1>3, <1>4, <2>1, <4>1, TrailedStays
      <4> QED BY <2>1, <3>2, <4>2 DEF TrailInv
    <3>3. CASE alive["receiver"] /\ alive["agent"]
      <4>1. PICK h, g : Linked(h, g)
        BY <1>1, <2>1, <3>3 DEF TrailInv, Derailed
      <4>2. Trailed(h) /\ Len(h) = Len(toReceiver) + 1 /\ Follows(h[1]) /\ Ahead(g)
            /\ h[Len(h)] = g[1] /\ Between(g[1])
        BY <4>1 DEF Linked
      <4>3. PICK k : Ahead(k)' /\ k[1] = g[1]
        BY <1>1, <1>3, <1>4, <2>1, <4>2, AheadCut
      <4>4. Trailed(h)'
        BY <1>3, <1>4, <2>1, <4>2, TrailedStays
      <4>5. Follows(h[1])' /\ Between(k[1])'
        BY <1>3, <4>2, <4>3 DEF Follows, HasPart, Between
      <4>6. Linked(h, k)'
        BY <2>1, <4>2, <4>3, <4>4, <4>5 DEF Linked
      <4> QED BY <2>1, <3>3, <4>6 DEF TrailInv
    <3> QED BY <3>1, <3>2, <3>3
  <2> QED BY <1>8, <1>9, <1>10, <2>2, <2>3 DEF IInv
<1>12. CASE AgentGone
  <2>1. /\ alive["agent"] /\ ~alive'["agent"]
        /\ alive'["sender"] = alive["sender"] /\ alive'["receiver"] = alive["receiver"]
        /\ toReceiver' \in CutOff(toReceiver) /\ request' = request
    BY <1>1, <1>12, GoneParts DEF AgentGone, Parties
  <2>2. Fetching'
    BY <1>1, <1>3, <2>1 DEF Fetching
  <2>3. TrailInv'
    <3>1. CASE ~alive["receiver"]
      BY <2>1, <3>1 DEF TrailInv
    <3>2. CASE alive["receiver"]
      <4>1. PICK h : Trailed(h)
        BY <1>1, <3>2 DEF TrailInv, Linked
      <4>2. PICK k : Trailed(k)'
        BY <1>1, <1>3, <1>4, <2>1, <4>1, TrailedCut
      <4> QED BY <2>1, <4>2 DEF TrailInv
    <3> QED BY <3>1, <3>2
  <2> QED BY <1>8, <1>9, <1>10, <2>2, <2>3 DEF IInv
<1>13. CASE ReceiverGone
  <2>1. /\ ~alive'["receiver"]
        /\ alive'["sender"] = alive["sender"] /\ alive'["agent"] = alive["agent"]
        /\ request' = request
    BY <1>1, <1>13, GoneParts DEF ReceiverGone, Parties
  <2>2. Fetching' /\ TrailInv'
    BY <1>1, <1>3, <2>1 DEF Fetching, TrailInv
  <2> QED BY <1>8, <1>9, <1>10, <2>2 DEF IInv
<1> QED BY <1>11, <1>12, <1>13

-----------------------------------------------------------------------------
(* The invariant *)

LEMMA InitIInv == Init => IInv
<1>1. SUFFICES ASSUME Init PROVE IInv
  OBVIOUS
<1>2. /\ kind \in Kinds /\ alive = [p \in Parties |-> TRUE] /\ request = None /\ pong = FALSE
      /\ toAgent = <<>> /\ toReceiver = <<>> /\ crash = "none"
      /\ s = [pc |-> "idle", k |-> 0, len |-> 0, pos |-> 0, raw |-> 0, code |-> <<>>]
      /\ f = [pc |-> "idle", left |-> 0]
      /\ r = [pc |-> "idle", k |-> 0, len |-> 0, left |-> 0, fmt |-> "RAW", raw |-> 0,
              need |-> 0, code |-> <<>>, out |-> <<>>]
  BY <1>1 DEF Init
<1>3. s \in Sender
  <2>1. 0 \in 0..MaxStreams /\ <<>> \in Seq(Parts) /\ 0 <= BlkSz /\ 0 \in Nat
    BY StreamAssumption
  <2> QED BY <1>2, <2>1 DEF Sender
<1>4. f \in Agent
  BY <1>2 DEF Agent
<1>5. r \in Receiver
  <2>1. /\ 0 \in 0..MaxStreams /\ "RAW" \in Starts /\ <<>> \in Seq(Parts)
        /\ <<>> \in Seq(Nat \X Nat) /\ Len(<<>>) = 0
    BY StreamAssumption, EmptyData DEF Starts
  <2>2. r \in [pc : {"idle", "head", "start", "next", "data"}, k : 0..MaxStreams,
               len : Nat, left : Nat, fmt : Starts, raw : Nat, need : Nat,
               code : Seq(Parts), out : Seq(Nat \X Nat)]
    BY <1>2, <2>1
  <2>3. Len(r.out) + r.left = r.len /\ (r.pc = "data" => r.need > 0)
    BY <1>2, <2>1
  <2> QED BY <2>2, <2>3, IsReceiver
<1>6. Typed
  <2>1. alive \in [Parties -> BOOLEAN]
    BY <1>2
  <2>2. toAgent \in Seq(Msg) /\ toReceiver \in Seq(Msg)
    BY <1>2
  <2> QED BY <1>2, <1>3, <1>4, <1>5, <2>1, <2>2 DEF Typed
<1>7. Own
  <2>1. r.pc = "idle" /\ r.out = <<>>
    BY <1>2
  <2> QED BY <2>1 DEF Own, Right
<1>8. Fetching
  BY <1>2 DEF Fetching
<1>9. TrailInv
  <2>1. PICK h : h = <<s>>
    OBVIOUS
  <2>2. h \in Seq(Sender) /\ h # <<>> /\ Len(h) = 1 /\ h[1] = s
    BY <1>3, <2>1
  <2>3. Been(s)
    BY <1>2 DEF Been
  <2>4. Len(toReceiver) = 0 /\ Len(toAgent) = 0
    BY <1>2
  <2>5. Trail(h)
    <3>1. \A i \in 1..1 : i = 1
      OBVIOUS
    <3> QED BY <2>2, <2>3, <3>1 DEF Trail
  <2>6. 1..(1 - 1) = {} /\ 1..0 = {} /\ ~(1 > 1) /\ 1 <= 0 + 1 /\ 1 = 0 + 1
    OBVIOUS
  <2>7. Follows(s) /\ Between(s)
    BY <1>2 DEF Follows, Between
  <2>8. Trailed(h)
    BY <2>2, <2>4, <2>5, <2>6, <2>7 DEF Trailed
  <2>9. Ahead(h)
    <3>1. alive["sender"]
      BY <1>2 DEF Parties
    <3> QED BY <2>2, <2>4, <2>5, <2>6, <3>1 DEF Ahead
  <2>10. Linked(h, h)
    BY <2>2, <2>4, <2>6, <2>7, <2>8, <2>9 DEF Linked
  <2>11. alive["agent"]
    BY <1>2 DEF Parties
  <2> QED BY <2>10, <2>11 DEF TrailInv
<1>10. FailsOnlyByLoss
  BY <1>2 DEF FailsOnlyByLoss
<1> QED BY <1>6, <1>7, <1>8, <1>9, <1>10 DEF IInv

LEMMA StutterKeeps ==
  ASSUME IInv, UNCHANGED vars
  PROVE  IInv'
<1>1. UNCHANGED <<kind, alive, request, pong, toAgent, toReceiver, s, f, r, crash>>
      /\ Typed /\ Own /\ Fetching /\ TrailInv /\ FailsOnlyByLoss
  BY DEF vars, IInv
<1>2. Typed'
  BY <1>1 DEF Typed
<1>3. Own' /\ Fetching' /\ TrailInv'
  BY <1>1, OwnSame, FetchingSame, AllStays
<1>4. FailsOnlyByLoss'
  BY <1>1 DEF FailsOnlyByLoss, Gone
<1> QED BY <1>2, <1>3, <1>4 DEF IInv

LEMMA StepIInv == IInv /\ [Next]_vars => IInv'
<1>1. SUFFICES ASSUME IInv, [Next]_vars PROVE IInv'
  OBVIOUS
<1>2. CASE UNCHANGED vars
  BY <1>1, <1>2, StutterKeeps
<1>3. CASE SenderStep
  BY <1>1, <1>3, SenderStepKeeps
<1>4. CASE AgentStep \/ AgentPings
  BY <1>1, <1>4, AgentStepKeeps
<1>5. CASE ReceiverStep
  BY <1>1, <1>5, ReceiverStepKeeps
<1>6. CASE \E n \in Lens : Ask(n) \/ (kind = "memput" /\ Announce(n))
  BY <1>1, <1>6, AskKeeps, AnnounceKeeps
<1>7. CASE SenderGone \/ AgentGone \/ ReceiverGone
  BY <1>1, <1>7, VanishKeeps
<1> QED BY <1>1, <1>2, <1>3, <1>4, <1>5, <1>6, <1>7 DEF Next

\* The invariant holds in every state of every instance.
THEOREM Invariant == Spec => []IInv
BY InitIInv, StepIInv, PTL DEF Spec

-----------------------------------------------------------------------------
(* The properties *)

LEMMA TypedImpliesTypeOK == Typed => TypeOK
<1>1. SUFFICES ASSUME Typed PROVE TypeOK
  OBVIOUS
<1>2. ASSUME NEW q \in Seq(Msg), NEW i \in 1..Len(q)
      PROVE  /\ q[i].type \in Starts \union {"HEAD", "BLOCK", "DATA", "END", "PING", "SHUTDOWN", "REST"}
             /\ q[i].type = "DATA" => Len(q[i].code) \in 1..Piece
  <2>1. q[i] \in Msg
    BY <1>2, ElementOfSeq
  <2> QED BY <2>1, MsgFields DEF Types
<1>3. toAgent \in Seq(Msg) /\ toReceiver \in Seq(Msg)
  BY <1>1 DEF Typed
<1>4. s \in Sender /\ f \in Agent /\ r \in Receiver
  BY <1>1 DEF Typed
<1>5. /\ s.pc \in {"idle", "start", "block", "data", "end"}
      /\ s.k \in 0..MaxStreams /\ s.pos <= s.len /\ s.raw <= BlkSz
      /\ s.pc = "data" => s.code # <<>>
  BY <1>4, SenderFields
<1>6. s.pc = "data" => s.pos + s.raw <= s.len
  <2>1. SUFFICES ASSUME s.pc = "data" PROVE s.pos + s.raw <= s.len
    OBVIOUS
  <2>2. s.pos \in Nat /\ s.len \in Nat /\ s.pos < s.len /\ s.raw = Min2(BlkSz, s.len - s.pos)
    BY <1>4, <2>1, SenderFields
  <2>3. PICK d \in Nat : d = s.len - s.pos
    <3>1. s.len - s.pos \in Nat
      BY <2>2
    <3> QED BY <3>1
  <2>4. s.raw \in Nat /\ s.raw <= d
    BY <2>2, <2>3, Min2Facts, Sizes
  <2> QED BY <2>2, <2>3, <2>4
<1>7. /\ f.pc \in {"idle", "head", "start", "next", "data", "pong"}
      /\ f.left \in Nat /\ (f.pc = "data" => f.left > 0)
  BY <1>4 DEF Agent
<1>8. /\ r.pc \in {"idle", "head", "start", "next", "data"}
      /\ r.k \in 0..MaxStreams /\ r.fmt \in Starts
      /\ Len(r.out) + r.left = r.len
      /\ r.pc = "data" => r.need > 0
  BY <1>4, ReceiverFields
<1>9. /\ kind \in Kinds /\ alive \in [Parties -> BOOLEAN]
      /\ request \in Lens \union {None} /\ pong \in BOOLEAN
      /\ crash \in {"none", "sender", "forward", "payload", "receiver", "lzo"}
  BY <1>1 DEF Typed
<1>10. \A ch \in {toAgent, toReceiver} : \A i \in 1..Len(ch) :
         /\ ch[i].type \in Starts \union {"HEAD", "BLOCK", "DATA", "END", "PING", "SHUTDOWN", "REST"}
         /\ ch[i].type = "DATA" => Len(ch[i].code) \in 1..Piece
  BY <1>2, <1>3
<1> QED BY <1>5, <1>6, <1>7, <1>8, <1>9, <1>10 DEF TypeOK

\* Every variable has its type; no state of the sender, of the agent or of the
\* receiver is one that stream_send, stream_forward or stream_recv cannot be in.
THEOREM TypeCorrect == Spec => []TypeOK
BY Invariant, TypedImpliesTypeOK, PTL DEF IInv

\* No assertion of the stream code fails and no data is read as a message while
\* all three parties are there, whatever the lengths, the sizes of compressed
\* blocks and the pings between; and each needs the loss of the right party.
THEOREM FailsOnlyByLossHolds == Spec => []FailsOnlyByLoss
<1>1. IInv => FailsOnlyByLoss
  BY DEF IInv
<1> QED BY <1>1, Invariant, PTL

LEMMA SentInFull == Typed /\ Own => CompleteMeansSent
<1>1. SUFFICES ASSUME Typed, Own, r.pc = "idle", r.left = 0
               PROVE  \/ r.out = [i \in 1..r.len |-> <<r.k, i>>]
                      \/ Loss /\ \E i \in 1..r.len : r.out[i] = Junk
  BY DEF CompleteMeansSent
<1>2. r.out \in Seq(Nat \X Nat) /\ Len(r.out) + r.left = r.len
  BY <1>1, ReceiverFields DEF Typed
<1>3. Len(r.out) = r.len
  BY <1>1, <1>2, LenProperties
<1>4. CASE Right
  <2>1. r.out = [i \in 1..Len(r.out) |-> r.out[i]]
    BY <1>2
  <2>2. \A i \in 1..r.len : r.out[i] = <<r.k, i>>
    BY <1>3, <1>4 DEF Right
  <2> QED BY <1>3, <2>1, <2>2
<1>5. CASE Loss /\ \E i \in 1..Len(r.out) : r.out[i] = Junk
  BY <1>3, <1>5
<1> QED BY <1>1, <1>4, <1>5 DEF Own

\* A stream that stream_recv reports as complete has every byte that was sent,
\* once and in order, unless somebody is lost and a notification is among them.
THEOREM CompleteMeansSentHolds == Spec => []CompleteMeansSent
<1>1. IInv => CompleteMeansSent
  BY SentInFull DEF IInv
<1> QED BY <1>1, Invariant, PTL

-----------------------------------------------------------------------------
(* The refinement: Stream implements Transfer. *)

\* who is lost stays lost
LEMMA LossStays ==
  ASSUME Typed, [Next]_vars, ~Loss'
  PROVE  alive' = alive /\ ~Loss
<1>1. \A p \in Parties : alive'[p]
  BY DEF Loss, Gone
<1>2. ASSUME NEW p \in Parties, Vanish(p) PROVE FALSE
  BY <1>1, <1>2, GoneParts
<1>3. ~SenderGone /\ ~AgentGone /\ ~ReceiverGone
  BY <1>2 DEF SenderGone, AgentGone, ReceiverGone, Parties
<1>4. alive' = alive
  <2>1. CASE SenderStep
    BY <2>1 DEF SenderStep, SendStart, SendBlock, SendPiece, SendEnd, SendFails, Announce,
                SenderOnly, Crash
  <2>2. CASE AgentStep
    BY <2>2 DEF AgentStep, ForwardHead, ForwardStart, ForwardEnd, ForwardBlock, ForwardMisfit,
                ForwardPiece, ForwardFails, Stray, AgentPonged, AgentOnly, Crash
  <2>3. CASE ReceiverStep
    <3>1. CASE RecvHead
      BY <3>1, HeadHears DEF Heard
    <3>2. CASE RecvStart \/ RecvBlock \/ RecvPiece \/ RecvEnd \/ RecvFails
      BY <3>2, ReceiverHears DEF Heard
    <3> QED BY <2>3, <3>1, <3>2 DEF ReceiverStep
  <2>4. CASE \E n \in Lens : Ask(n) \/ (kind = "memput" /\ Announce(n))
    BY <2>4 DEF Ask, Announce, SenderOnly
  <2>5. CASE AgentPings
    BY <2>5 DEF AgentPings, AgentOnly
  <2>6. CASE UNCHANGED vars
    BY <2>6 DEF vars
  <2> QED BY <1>3, <2>1, <2>2, <2>3, <2>4, <2>5, <2>6 DEF Next
<1> QED BY <1>1, <1>4 DEF Loss, Gone

\* no step of the others changes the receiver
LEMMA ReceiverUntouched ==
  ASSUME SenderStep \/ AgentStep \/ AgentPings \/ (\E n \in Lens : Announce(n))
  PROVE  r' = r
<1>1. CASE SenderStep
  BY <1>1 DEF SenderStep, SendStart, SendBlock, SendPiece, SendEnd, SendFails, Announce,
              SenderOnly, Crash
<1>2. CASE AgentStep
  BY <1>2 DEF AgentStep, ForwardHead, ForwardStart, ForwardEnd, ForwardBlock, ForwardMisfit,
              ForwardPiece, ForwardFails, Stray, AgentPonged, AgentOnly, Crash
<1>3. CASE AgentPings
  BY <1>3 DEF AgentPings, AgentOnly
<1>4. CASE \E n \in Lens : Announce(n)
  BY <1>4 DEF Announce, SenderOnly
<1> QED BY <1>1, <1>2, <1>3, <1>4

\* while nobody is lost the receiver's next message is the next of its trail
LEMMA NextIsSent ==
  ASSUME Typed, TrailInv, ~Loss, toReceiver # <<>>
  PROVE  \E a \in Sender, b \in Sender : Follows(a) /\ Been(b) /\ Passes(a, Head(toReceiver), b)
<1>1. alive["sender"] /\ alive["agent"] /\ alive["receiver"]
  BY DEF Loss, Gone, Parties
<1> QED BY <1>1, NextOfReceiver DEF Derailed

\* the step in the abstraction, while nobody is lost
Shown == [Transfers!TransferNext]_(Transfers!transferVars)

LEMMA ShowsNothing ==
  ASSUME alive' = alive, r'.k = r.k, r'.len = r.len, r'.out = r.out,
         r'.pc # "idle" <=> r.pc # "idle"
  PROVE  Shown
BY DEF Shown, Transfers!transferVars, Loss, Gone

LEMMA ShowsAnnounce ==
  ASSUME alive' = alive, r.pc = "idle", r'.pc # "idle", r'.k = r.k + 1, r'.len \in Nat, r'.out = <<>>
  PROVE  Shown
BY DEF Shown, Transfers!TransferNext, Transfers!Announce, Loss, Gone

LEMMA HeadShown ==
  ASSUME Typed, Own, TrailInv, ~Loss, RecvHead
  PROVE  Shown
<1>1. /\ toReceiver # <<>> /\ alive' = alive /\ r \in Receiver /\ kind \in {"memput", "fetch"}
      /\ r.pc = IF kind = "memput" THEN "idle" ELSE "head"
  BY StreamAssumption DEF RecvHead, ReceiverOnly, ReceiverAt, Typed
<1>2. PICK m : m = Head(toReceiver)
  OBVIOUS
<1>3. PICK a \in Sender, b \in Sender : Follows(a) /\ Been(b) /\ Passes(a, m, b)
  BY <1>1, <1>2, NextIsSent
<1>4. m = Head(toReceiver) /\ Follows(a) /\ Been(b) /\ Passes(a, m, b)
  BY <1>2, <1>3
<1>5. toReceiver \in Seq(Msg)
  BY DEF Typed
<1>6. m \in Msg
  BY <1>1, <1>4, <1>5, Taken
<1>7. a.pc = "idle"
  BY <1>1, <1>4 DEF Follows
<1>8. m.type = "HEAD" \/ (kind = "memput" /\ m.type = "PING")
  BY <1>4, <1>7 DEF Passes, Emits
<1>9. CASE kind = "memput" /\ m.type = "PING"
  <2>1. r' = r
    BY <1>4, <1>9 DEF RecvHead
  <2> QED BY <1>1, <2>1, ShowsNothing
<1>10. CASE kind = "memput" /\ m.type = "HEAD"
  <2>1. PICK k, n : /\ r' = [r EXCEPT !.pc = "start", !.k = k, !.len = n, !.left = n, !.out = <<>>]
                    /\ k = r.k + 1 /\ n = m.n
    BY <1>4, <1>10 DEF RecvHead
  <2>2. PICK pc : pc = "start"
    OBVIOUS
  <2>3. r' = [r EXCEPT !.pc = pc, !.k = k, !.len = n, !.left = n, !.out = <<>>]
    BY <2>1, <2>2
  <2>4. r' = [pc |-> pc, k |-> k, len |-> n, left |-> n, fmt |-> r.fmt,
              raw |-> r.raw, need |-> r.need, code |-> r.code, out |-> <<>>]
    BY <1>1, <2>3, ReceiverHeadIs
  <2>5. r'.pc = "start" /\ r'.k = r.k + 1 /\ r'.len = m.n /\ r'.out = <<>>
    BY <2>1, <2>2, <2>4
  <2>6. r'.len \in Nat
    BY <1>6, <2>5, MsgFields
  <2> QED BY <1>1, <1>10, <2>5, <2>6, ShowsAnnounce
<1>11. CASE kind = "fetch" /\ m.type = "HEAD"
  <2>1. r' = [r EXCEPT !.pc = "start"]
    BY <1>4, <1>11 DEF RecvHead
  <2>2. r'.pc = "start" /\ r'.k = r.k /\ r'.len = r.len /\ r'.out = r.out
    BY <1>1, <2>1, ReceiverPc
  <2> QED BY <1>1, <1>11, <2>2, ShowsNothing
<1> QED BY <1>1, <1>8, <1>9, <1>10, <1>11

LEMMA StartShown ==
  ASSUME Typed, RecvStart
  PROVE  Shown
<1>1. r \in Receiver /\ alive' = alive /\ r.pc = "start"
  BY DEF RecvStart, ReceiverOnly, ReceiverAt, Typed
<1>2. PICK raw, fmt : r' = [r EXCEPT !.pc = "next", !.raw = raw, !.fmt = fmt]
  BY DEF RecvStart
<1>3. r' = [pc |-> "next", k |-> r.k, len |-> r.len, left |-> r.left, fmt |-> fmt,
            raw |-> raw, need |-> r.need, code |-> r.code, out |-> r.out]
  BY <1>1, <1>2, ReceiverStartIs
<1>4. r'.pc = "next" /\ r'.k = r.k /\ r'.len = r.len /\ r'.out = r.out
  BY <1>3
<1> QED BY <1>1, <1>4, ShowsNothing

LEMMA BlockShown ==
  ASSUME Typed, RecvBlock
  PROVE  Shown
<1>1. r \in Receiver /\ r.pc = "next"
  BY DEF RecvBlock, ReceiverAt, Typed
<1>2. CASE Crash("receiver")
  BY <1>2, ShowsNothing DEF Crash
<1>3. CASE ~Crash("receiver")
  <2>1. PICK raw, need : /\ r' = [r EXCEPT !.pc = "data", !.raw = raw, !.need = need, !.code = <<>>]
                         /\ alive' = alive
    BY <1>3 DEF RecvBlock, ReceiverOnly
  <2>2. r' = [pc |-> "data", k |-> r.k, len |-> r.len, left |-> r.left, fmt |-> r.fmt,
              raw |-> raw, need |-> need, code |-> <<>>, out |-> r.out]
    BY <1>1, <2>1, ReceiverBlockIs
  <2>3. r'.pc = "data" /\ r'.k = r.k /\ r'.len = r.len /\ r'.out = r.out
    BY <2>2
  <2> QED BY <1>1, <2>1, <2>3, ShowsNothing
<1> QED BY <1>2, <1>3

LEMMA PieceShown ==
  ASSUME Typed, Own, TrailInv, ~Loss, RecvPiece
  PROVE  Shown
<1>1. r \in Receiver /\ r.pc = "data" /\ alive["receiver"]
  BY DEF RecvPiece, ReceiverAt, Running, Typed
<1>2. alive' = alive
  BY ReceiverHears DEF Heard
<1>3. Gains
  BY <1>1, PieceReceived, LostIsLoss
<1>4. CASE r'.out = r.out
  BY <1>1, <1>2, <1>3, <1>4, ShowsNothing DEF Gains
<1>5. CASE r'.out = r.out \o NextBytes
  <2>1. /\ r.raw \in 1..r.left /\ r.left \in Nat /\ r.len \in Nat /\ Len(r.out) \in Nat
        /\ Len(r.out) + r.left = r.len
    BY <1>1, ReceiverFields, LenProperties DEF Own, OwnBlock
  <2>2. r.raw \in 1..(r.len - Len(r.out))
    BY <2>1
  <2>3. \E n \in 1..(r.len - Len(r.out)) :
          r'.out = r.out \o [i \in 1..n |-> <<r.k, Len(r.out) + i>>]
    BY <1>5, <2>2 DEF NextBytes
  <2>4. Transfers!Arrive
    BY <1>1, <1>2, <1>3, <2>3 DEF Transfers!Arrive, Gains, Loss, Gone
  <2> QED BY <2>4 DEF Shown, Transfers!TransferNext
<1> QED BY <1>3, <1>4, <1>5 DEF Gains

LEMMA EndShown ==
  ASSUME Typed, TrailInv, ~Loss, RecvEnd
  PROVE  Shown
<1>1. /\ r \in Receiver /\ r.pc = "next" /\ toReceiver # <<>> /\ Head(toReceiver).type # "BLOCK"
  BY DEF RecvEnd, ReceiverAt, Typed
<1>2. CASE Crash("receiver")
  BY <1>2, ShowsNothing DEF Crash
<1>3. CASE ~Crash("receiver")
  <2>1. r' = [r EXCEPT !.pc = "idle"] /\ alive' = alive
    BY <1>3 DEF RecvEnd, ReceiverOnly
  <2>2. r'.pc = "idle" /\ r'.k = r.k /\ r'.len = r.len /\ r'.out = r.out
    BY <1>1, <2>1, ReceiverPc
  <2>3. PICK a \in Sender, b \in Sender : Follows(a) /\ Passes(a, Head(toReceiver), b)
    BY <1>1, NextIsSent
  <2>4. /\ a.pc \in {"block", "end"} /\ a.pos = Len(r.out) /\ a.len = r.len
    BY <1>1, <2>3 DEF Follows
  <2>5. a.pc = "end"
    BY <1>1, <2>3, <2>4 DEF Passes, Emits
  <2>6. Len(r.out) = r.len
    BY <2>4, <2>5, SenderFields
  <2>7. Transfers!Complete
    BY <1>1, <2>1, <2>2, <2>6 DEF Transfers!Complete, Loss, Gone
  <2> QED BY <2>7 DEF Shown, Transfers!TransferNext
<1> QED BY <1>2, <1>3

LEMMA StepRefines ==
  ASSUME IInv, [Next]_vars
  PROVE  Shown
<1>1. CASE Loss'
  BY <1>1 DEF Shown, Transfers!TransferNext, Transfers!Lose
<1>2. CASE ~Loss'
  <2>1. Typed /\ Own /\ TrailInv
    BY DEF IInv
  <2>2. alive' = alive /\ ~Loss
    BY <1>2, <2>1, LossStays
  <2>3. CASE r' = r
    BY <2>2, <2>3, ShowsNothing
  <2>4. CASE ReceiverStep
    <3>1. ~RecvFails
      BY <2>2 DEF RecvFails, Loss, Gone, Parties
    <3> QED BY <2>1, <2>2, <2>4, <3>1, HeadShown, StartShown, BlockShown, PieceShown, EndShown
            DEF ReceiverStep
  <2>5. ASSUME NEW n \in Lens, Ask(n) PROVE Shown
    <3>1. r'.k = r.k + 1 /\ r'.len = n /\ r'.out = <<>> /\ r'.pc = "head"
      BY <2>5, AskKeeps
    <3>2. r.pc = "idle" /\ n \in Nat
      BY <2>5, StreamAssumption DEF Ask, ReceiverAt
    <3> QED BY <2>2, <3>1, <3>2, ShowsAnnounce
  <2>6. CASE SenderGone \/ AgentGone \/ ReceiverGone
    BY <2>3, <2>6 DEF SenderGone, AgentGone, ReceiverGone
  <2>7. CASE UNCHANGED vars
    BY <2>3, <2>7 DEF vars
  <2> QED BY <2>3, <2>4, <2>5, <2>6, <2>7, ReceiverUntouched DEF Next
<1> QED BY <1>1, <1>2

\* The stream code does what Transfer promises, for all data, all sizes of
\* compressed blocks and all numbers of streams: as long as nobody is lost the
\* bytes of the sender arrive, each once and in order, none of another stream,
\* and the receiver returns when it has all.
THEOREM StreamRefines == Spec => IsTransfer
<1>1. Init => Transfers!TransferInit
  BY DEF Init, Transfers!TransferInit, Loss, Gone
<1>2. IInv /\ [Next]_vars => [Transfers!TransferNext]_(Transfers!transferVars)
  BY StepRefines DEF Shown
<1> QED BY <1>1, <1>2, Invariant, PTL DEF Spec, IsTransfer, Transfers!TransferSpec

=============================================================================

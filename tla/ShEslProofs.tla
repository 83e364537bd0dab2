---------------------------- MODULE ShEslProofs -----------------------------
(***************************************************************************)
(* Theorems about ShEsl, for every capacity of the connection and any      *)
(* number of messages and connections: the buffers keep their bounds, a    *)
(* data frame is always decoded with the key it was encoded with, and the  *)
(* application is given the messages once and in order.                    *)
(***************************************************************************)
EXTENDS ShEsl, TLAPS, SequenceTheorems

(* The key both sides have after the handshake.                            *)
Merged == {"eslkey", "addr"}

(* The n-th piece that is sent to s in a connection: the handshake frame   *)
(* of the peer, then the data frames.                                      *)
Piece(s, n) ==
  IF n <= PIECES
  THEN [mode |-> IF s = "server" THEN "CERT" ELSE "PRIV",
        key  |-> IF s = "server" THEN EslKey ELSE AddrKey,
        msg  |-> NoMessage]
  ELSE [mode |-> "DATA", key |-> Merged, msg |-> Message((n - 1) \div PIECES)]

(* u holds the pieces for s after the first a, up to the b-th.             *)
Window(u, s, a, b) ==
  /\ a <= b
  /\ Len(u) = b - a
  /\ \A k \in 1 .. b - a : u[k] = Piece(s, a + k)

(* u holds the first messages of the connection.                           *)
Numbered(u) == \A k \in 1 .. Len(u) : u[k] = Message(k)

(* Three parts of a stream, put together.                                  *)
Joined(u, w, y) == (u \o w) \o y

(* All that is still to be read by s, wherever it is.                      *)
Stream(s) == Joined(sk[s].recv, wire[s], sk[Peer(s)].send)

(* The data s was given or will be given by its next read.                 *)
Given(s) == got[s] \o sk[s].proc

(* s has read f frames, and b pieces were or will be sent to it: all that  *)
(* were written unless its peer is gone.                                   *)
Reads(s, f, b) ==
  /\ Window(Stream(s), s, PIECES * f, b)
  /\ sk[s].crypt <=> f > 0
  /\ Open(Peer(s)) => b = PIECES * (sent[s] + 1)
  /\ sk[Peer(s)].pc = "accept" => b = 0
  /\ Proper(s) => Numbered(Given(s)) /\ Len(Given(s)) = (IF f = 0 THEN 0 ELSE f - 1)

Keys(s) ==
  /\ sk[s].crypt => sk[s].key = Merged
  /\ ~sk[s].crypt => \/ sk[s].key = EslKey
                     \/ s = "server" /\ sk[s].key \in {{}, {"other"}}

(* What the calls of a side rely on.                                       *)
Calls(s) ==
  /\ ~Open(s) => /\ sk[s].recv = <<>> /\ sk[s].send = <<>>
                 /\ ~sk[s].crypt /\ sk[s].key = {}
  /\ sk[s].pc = "accept" => s = "server" /\ sent[Peer(s)] = 0
  /\ sk[s].pc = "flush" => sk[s].crypt
  /\ sk[s].pc = "write" \/ (sk[s].pc = "loop" /\ sk[s].then = "write")
       => sent[Peer(s)] < MaxData
  /\ sk[s].pc = "loop" /\ sk[s].then \notin {"read", "readb"} => early[s]
  /\ sk[s].pc = "loop" /\ sk[s].then = "readb" => sk[s].proc = <<>>

Connected(s) ==
  /\ Keys(s)
  /\ \E f \in 0 .. sent[s] + 1, b \in 0 .. PIECES * (sent[s] + 1) : Reads(s, f, b)

Ordered(s) == Proper(s) => Len(got[s]) <= sent[s] /\ Numbered(got[s])

Msg == [conn : Nat, n : Nat]

PieceType ==
  [mode : {"CERT", "PRIV", "DATA"}, key : SUBSET {"eslkey", "addr", "other"}, msg : Msg]

Descriptor ==
  [pc : {"off", "accept", "ready", "loop", "write", "flush"}, crypt : BOOLEAN,
   key : SUBSET {"eslkey", "addr", "other"}, recv : Seq(PieceType),
   send : Seq(PieceType), proc : Seq(Msg),
   then : {"none", "read", "readb", "write", "verify"}]

Typed ==
  /\ sk \in [Sides -> Descriptor]
  /\ wire \in [Sides -> Seq(PieceType)]
  /\ conns \in Nat
  /\ sent \in [Sides -> Nat]
  /\ got \in [Sides -> Seq(Msg)]
  /\ early \in [Sides -> BOOLEAN]
  /\ stale \in [Sides -> BOOLEAN]
  /\ cut \in [Sides -> BOOLEAN]

Bounded == \A s \in Sides : Len(wire[s]) <= CAP /\ sent[s] <= MaxData

EInv ==
  /\ Typed
  /\ Bounded
  /\ \A s \in Sides : Calls(s)
  /\ \A s \in Sides : sk[s].pc = "off" => Ordered(s)
  /\ \A s \in Sides : sk[s].pc # "off" => Connected(s)

-----------------------------------------------------------------------------
(* Sequences of pieces.                                                    *)

(* The first part of a window is a window.                                 *)
LEMMA WindowPrefix ==
  ASSUME NEW S, NEW u \in Seq(S), NEW v \in Seq(S), NEW s, NEW a \in Nat, NEW b \in Nat,
         Window(u \o v, s, a, b)
  PROVE  Window(u, s, a, a + Len(u)) /\ a + Len(u) <= b
<1>1. /\ Len(u \o v) = Len(u) + Len(v) /\ Len(u) \in Nat /\ Len(v) \in Nat
      /\ \A i \in 1 .. Len(u) : (u \o v)[i] = u[i]
  BY ConcatProperties, LenProperties
<1>2. QED
  BY <1>1 DEF Window

(* A window without its first n pieces is a window.                        *)
LEMMA WindowDrop ==
  ASSUME NEW S, NEW u \in Seq(S), NEW v \in Seq(S), NEW s, NEW a \in Nat, NEW b \in Nat,
         NEW n \in Nat, n <= Len(u), Window(u \o v, s, a, b)
  PROVE  /\ SubSeq(u, n + 1, Len(u)) \in Seq(S)
         /\ Window(SubSeq(u, n + 1, Len(u)) \o v, s, a + n, b)
<1> DEFINE w == SubSeq(u, n + 1, Len(u))
<1>1. /\ Len(u) \in Nat /\ Len(v) \in Nat /\ Len(u \o v) = Len(u) + Len(v)
      /\ \A i \in 1 .. Len(u) + Len(v) :
           (u \o v)[i] = IF i <= Len(u) THEN u[i] ELSE v[i - Len(u)]
  BY ConcatProperties, LenProperties
<1>2. \A i \in n + 1 .. Len(u) : u[i] \in S
  BY <1>1, ElementOfSeq
<1>3. /\ w \in Seq(S) /\ Len(w) = Len(u) - n
      /\ \A i \in 1 .. Len(u) - n : w[i] = u[n + i]
  <2>1. n + 1 \in Int /\ Len(u) \in Int /\ Len(u) - (n + 1) + 1 = Len(u) - n
    BY <1>1
  <2>2. /\ w \in Seq(S) /\ Len(w) = (IF n + 1 <= Len(u) THEN Len(u) - (n + 1) + 1 ELSE 0)
        /\ \A i \in 1 .. Len(u) - (n + 1) + 1 : w[i] = u[(n + 1) + i - 1]
    BY <1>2, <2>1, SubSeqProperties
  <2> HIDE DEF w
  <2>3. Len(w) = Len(u) - n
    BY <1>1, <2>2
  <2>4. ASSUME NEW i \in 1 .. Len(u) - n PROVE w[i] = u[n + i]
    <3>1. (n + 1) + i - 1 = n + i /\ i \in 1 .. Len(u) - (n + 1) + 1
      BY <2>1, <2>4
    <3>2. w[i] = u[(n + 1) + i - 1]
      BY <2>2, <3>1, Zenon
    <3>3. QED
      BY <3>1, <3>2, Zenon
  <2>5. QED
    BY <2>2, <2>3, <2>4
<1> HIDE DEF w
<1>4. /\ Len(w \o v) = Len(w) + Len(v)
      /\ \A i \in 1 .. Len(w) + Len(v) :
           (w \o v)[i] = IF i <= Len(w) THEN w[i] ELSE v[i - Len(w)]
  BY <1>3, ConcatProperties
<1>5. Len(w \o v) = b - (a + n) /\ a + n <= b
  BY <1>1, <1>3, <1>4 DEF Window
<1>6. ASSUME NEW k \in 1 .. b - (a + n) PROVE (w \o v)[k] = Piece(s, (a + n) + k)
  <2>1. n + k \in 1 .. b - a /\ a + (n + k) = (a + n) + k
    BY <1>5
  <2>2. (u \o v)[n + k] = Piece(s, (a + n) + k)
    BY <2>1 DEF Window
  <2>3. (w \o v)[k] = (u \o v)[n + k]
    <3>1. CASE k <= Len(w)
      <4>1. (w \o v)[k] = w[k] /\ (u \o v)[n + k] = u[n + k]
        BY <1>1, <1>3, <1>4, <1>5, <2>1, <3>1
      <4>2. w[k] = u[n + k]
        BY <1>1, <1>3, <3>1
      <4>3. QED
        BY <4>1, <4>2
    <3>2. CASE ~(k <= Len(w))
      <4>1. k - Len(w) = (n + k) - Len(u)
        BY <1>1, <1>3, <2>1
      <4>2. (w \o v)[k] = v[k - Len(w)]
        BY <1>1, <1>3, <1>4, <1>5, <3>2
      <4>3. (u \o v)[n + k] = v[(n + k) - Len(u)]
        BY <1>1, <1>3, <1>4, <1>5, <3>2
      <4>4. QED
        BY <4>1, <4>2, <4>3, Zenon
    <3>3. QED
      BY <3>1, <3>2
  <2>4. QED
    BY <2>2, <2>3
<1>7. QED
  BY <1>3, <1>5, <1>6 DEF Window, w

(* Adjacent windows make a window.                                         *)
LEMMA WindowExtend ==
  ASSUME NEW S, NEW u \in Seq(S), NEW v \in Seq(S), NEW s,
         NEW a \in Nat, NEW b \in Nat, NEW c \in Nat,
         Window(u, s, a, b), Window(v, s, b, c)
  PROVE  Window(u \o v, s, a, c)
<1>1. /\ Len(u) = b - a /\ Len(v) = c - b /\ a <= b /\ b <= c
      /\ Len(u \o v) = Len(u) + Len(v)
      /\ \A i \in 1 .. Len(u) + Len(v) :
           (u \o v)[i] = IF i <= Len(u) THEN u[i] ELSE v[i - Len(u)]
  BY ConcatProperties DEF Window
<1>2. ASSUME NEW k \in 1 .. c - a PROVE (u \o v)[k] = Piece(s, a + k)
  <2>1. CASE k <= b - a
    BY <1>1, <2>1 DEF Window
  <2>2. CASE ~(k <= b - a)
    <3>1. k - (b - a) \in 1 .. c - b /\ b + (k - (b - a)) = a + k
      BY <1>1, <2>2, SMTT(20)
    <3>2. v[k - (b - a)] = Piece(s, a + k)
      BY <3>1 DEF Window
    <3>3. QED
      BY <1>1, <1>2, <2>2, <3>1, <3>2
  <2>3. QED
    BY <2>1, <2>2
<1>3. QED
  BY <1>1, <1>2 DEF Window

(* A frame is a sequence of pieces.                                        *)
LEMMA FrameType ==
  ASSUME NEW mode \in {"CERT", "PRIV", "DATA"}, NEW m \in Msg,
         NEW key \in SUBSET {"eslkey", "addr", "other"}
  PROVE  Frame(mode, key, m) \in Seq(PieceType) /\ Len(Frame(mode, key, m)) = PIECES
<1>1. [mode |-> mode, key |-> key, msg |-> m] \in PieceType
  BY DEF PieceType
<1>2. Frame(mode, key, m) \in [1 .. 3 -> PieceType]
  BY <1>1 DEF Frame, PIECES
<1>3. Frame(mode, key, m) \in Seq(PieceType)
  <2>1. Seq(PieceType) = UNION {[1 .. n -> PieceType] : n \in Nat} /\ 3 \in Nat
    BY SeqDef
  <2>2. [1 .. 3 -> PieceType] \in {[1 .. n -> PieceType] : n \in Nat}
    BY <2>1, Zenon
  <2>3. QED
    BY <1>2, <2>1, <2>2, Zenon
<1>4. DOMAIN Frame(mode, key, m) = 1 .. 3
  BY DEF Frame, PIECES
<1>5. QED
  BY <1>3, <1>4, LenProperties DEF PIECES

(* The handshake frame and the n-th data frame as windows.                 *)
LEMMA FrameWindow ==
  ASSUME NEW s, NEW n \in Nat \ {0}
  PROVE  /\ Window(Frame("CERT", EslKey, NoMessage), "server", 0, PIECES)
         /\ Window(Frame("PRIV", AddrKey, NoMessage), "client", 0, PIECES)
         /\ conns \in Nat =>
              Window(Frame("DATA", Merged, Message(n)), s, PIECES * n, PIECES * (n + 1))
<1>1. NoMessage \in Msg /\ EslKey \in SUBSET {"eslkey", "addr", "other"}
      /\ AddrKey \in SUBSET {"eslkey", "addr", "other"}
      /\ Merged \in SUBSET {"eslkey", "addr", "other"}
  BY DEF NoMessage, Msg, EslKey, AddrKey, Merged
<1>2. Window(Frame("CERT", EslKey, NoMessage), "server", 0, PIECES)
  BY <1>1, FrameType DEF Window, Frame, Piece, PIECES
<1>3. Window(Frame("PRIV", AddrKey, NoMessage), "client", 0, PIECES)
  BY <1>1, FrameType DEF Window, Frame, Piece, PIECES
<1>4. ASSUME conns \in Nat
      PROVE  Window(Frame("DATA", Merged, Message(n)), s, PIECES * n, PIECES * (n + 1))
  <2> DEFINE f == Frame("DATA", Merged, Message(n))
  <2>1. Len(f) = 3
    BY <1>1, <1>4, FrameType DEF Message, Msg, PIECES
  <2>2. 3 * n \in Nat /\ 3 * (n + 1) - 3 * n = 3 /\ 3 * n <= 3 * (n + 1)
    OBVIOUS
  <2>3. \A k \in 1 .. 3 : ~(3 * n + k <= 3) /\ (3 * n + k - 1) \div 3 = n
    OBVIOUS
  <2>4. \A k \in 1 .. 3 : f[k] = Piece(s, 3 * n + k)
    BY <2>3 DEF Frame, Piece, PIECES
  <2>5. QED
    BY <2>1, <2>2, <2>4 DEF Window, PIECES
<1>5. QED
  BY <1>2, <1>3, <1>4

(* A sequence is cut in two.                                               *)
LEMMA Cut ==
  ASSUME NEW S, NEW buf \in Seq(S), NEW n \in 0 .. Len(buf)
  PROVE  /\ SubSeq(buf, 1, n) \in Seq(S) /\ SubSeq(buf, n + 1, Len(buf)) \in Seq(S)
         /\ Len(SubSeq(buf, 1, n)) = n
         /\ SubSeq(buf, 1, n) \o SubSeq(buf, n + 1, Len(buf)) = buf
<1> DEFINE x == SubSeq(buf, 1, n)
           y == SubSeq(buf, n + 1, Len(buf))
<1>1. Len(buf) \in Nat /\ \A i \in 1 .. Len(buf) : buf[i] \in S
  BY LenProperties, ElementOfSeq
<1>2. x \in Seq(S) /\ Len(x) = n
  <2>1. \A i \in 1 .. n : buf[i] \in S
    BY <1>1
  <2>2. x \in Seq(S) /\ Len(x) = IF 1 <= n THEN n - 1 + 1 ELSE 0
    BY <2>1, SubSeqProperties
  <2>3. QED
    BY <1>1, <2>2
<1>3. y \in Seq(S)
  <2>1. \A i \in n + 1 .. Len(buf) : buf[i] \in S
    BY <1>1
  <2>2. n + 1 \in Int /\ Len(buf) \in Int
    BY <1>1
  <2>3. QED
    BY <2>1, <2>2, SubSeqProperties
<1>4. x \o y = buf
  <2>1. 1 \in 1 .. Len(buf) + 1 /\ n \in 1 - 1 .. Len(buf) /\ Len(buf) \in n .. Len(buf)
    BY <1>1
  <2>2. x \o y = SubSeq(buf, 1, Len(buf))
    BY <2>1, ConcatAdjacentSubSeq
  <2>3. QED
    BY <2>2, SubSeqFull
<1>5. QED
  BY <1>2, <1>3, <1>4

(* write() takes the first part of a buffer behind what is on its way: the *)
(* stream as a whole stays the same.                                       *)
LEMMA Regroup ==
  ASSUME NEW S, NEW u \in Seq(S), NEW w \in Seq(S), NEW x \in Seq(S), NEW y \in Seq(S)
  PROVE  Joined(u, w \o x, y) = Joined(u, w, x \o y)
BY SMTT(20) DEF Joined

(* With windows.                                                           *)
LEMMA WrittenWindow ==
  ASSUME NEW S, NEW u \in Seq(S), NEW w \in Seq(S), NEW buf \in Seq(S),
         NEW n \in 0 .. Len(buf), NEW s, NEW a, NEW b,
         Window(Joined(u, w, buf), s, a, b)
  PROVE  Window(Joined(u, w \o SubSeq(buf, 1, n), SubSeq(buf, n + 1, Len(buf))), s, a, b)
<1>1. ASSUME NEW x \in Seq(S), NEW y \in Seq(S)
      PROVE  Joined(u, w \o x, y) = Joined(u, w, x \o y)
  BY Regroup
<1>2. SubSeq(buf, 1, n) \in Seq(S) /\ SubSeq(buf, n + 1, Len(buf)) \in Seq(S)
  BY Cut
<1>3. PICK x \in Seq(S), y \in Seq(S) :
        x = SubSeq(buf, 1, n) /\ y = SubSeq(buf, n + 1, Len(buf))
  BY <1>2
<1>4. x \o y = buf
  BY <1>3, Cut
<1>5. Joined(u, w \o x, y) = Joined(u, w, x \o y)
  BY <1>1
<1>6. Joined(u, w \o x, y) = Joined(u, w, buf)
  BY <1>4, <1>5, Zenon
<1>7. QED
  BY <1>3, <1>6, Zenon

(* A frame is added to the stream.                                         *)
LEMMA WindowAdded ==
  ASSUME NEW S, NEW u \in Seq(S), NEW w \in Seq(S), NEW y \in Seq(S), NEW fr \in Seq(S)
  PROVE  \A s : \A a, b, c \in Nat :
           Window(Joined(u, w, y), s, a, b) /\ Window(fr, s, b, c)
             => Window(Joined(u, w, y \o fr), s, a, c)
<1>1. Joined(u, w, y \o fr) = Joined(u, w, y) \o fr
  BY DEF Joined
<1>2. Joined(u, w, y) \in Seq(S)
  BY DEF Joined
<1>3. ASSUME NEW s, NEW a \in Nat, NEW b \in Nat, NEW c \in Nat,
             Window(Joined(u, w, y), s, a, b), Window(fr, s, b, c)
      PROVE  Window(Joined(u, w, y \o fr), s, a, c)
  <2>1. Window(Joined(u, w, y) \o fr, s, a, c)
    BY <1>2, <1>3, WindowExtend
  <2>2. QED
    BY <1>1, <2>1, Zenon
<1>4. QED
  BY <1>3

(* Nothing is on its way.                                                  *)
LEMMA EmptyParts ==
  ASSUME NEW S, NEW u \in Seq(S), NEW w \in Seq(S), NEW y \in Seq(S)
  PROVE  Joined(u, <<>>, y) = u \o y /\ Joined(u, w, <<>>) = u \o w
<1>1. u \o <<>> = u
  BY ConcatEmptySeq
<1>2. (u \o w) \o <<>> = u \o w
  BY ConcatEmptySeq, ConcatProperties
<1>3. QED
  BY <1>1, <1>2, Zenon DEF Joined

(* A message goes from one buffer to the next, or is added to the last.    *)
LEMMA HandOver ==
  ASSUME NEW S, NEW u \in Seq(S), NEW v \in Seq(S), v # <<>>
  PROVE  /\ Head(v) \in S /\ Tail(v) \in Seq(S) /\ Append(u, Head(v)) \in Seq(S)
         /\ Append(u, Head(v)) \o Tail(v) = u \o v
OBVIOUS

LEMMA AddedLast ==
  ASSUME NEW S, NEW u \in Seq(S), NEW v \in Seq(S), NEW m \in S
  PROVE  /\ u \o Append(v, m) = Append(u \o v, m)
         /\ Append(u, m) \o <<>> = Append(u \o <<>>, m)
OBVIOUS

-----------------------------------------------------------------------------
(* Steps.                                                                  *)

(* There are two sides.                                                    *)
LEMMA TwoSides ==
  ASSUME NEW s \in Sides
  PROVE  /\ Peer(s) \in Sides /\ Peer(s) # s /\ Peer(Peer(s)) = s
         /\ \A t \in Sides : t = s \/ t = Peer(s)
BY DEF Sides, Peer

(* An update of one side leaves the other alone.                           *)
LEMMA Update ==
  ASSUME NEW D, NEW f \in [Sides -> D], NEW s \in Sides, NEW x \in D
  PROVE  /\ [f EXCEPT ![s] = x] \in [Sides -> D]
         /\ [f EXCEPT ![s] = x][s] = x
         /\ [f EXCEPT ![s] = x][Peer(s)] = f[Peer(s)]
BY TwoSides

(* The parts of a descriptor, and what is sent to a side, have their types. *)
LEMMA Parts ==
  ASSUME Typed, NEW s \in Sides
  PROVE  /\ sk[s] \in Descriptor
         /\ sk[s].pc \in {"off", "accept", "ready", "loop", "write", "flush"}
         /\ sk[s].crypt \in BOOLEAN
         /\ sk[s].key \in SUBSET {"eslkey", "addr", "other"}
         /\ sk[s].recv \in Seq(PieceType) /\ sk[s].send \in Seq(PieceType)
         /\ sk[s].proc \in Seq(Msg)
         /\ sk[s].then \in {"none", "read", "readb", "write", "verify"}
         /\ wire[s] \in Seq(PieceType) /\ got[s] \in Seq(Msg)
         /\ sent[s] \in Nat /\ early[s] \in BOOLEAN /\ stale[s] \in BOOLEAN
         /\ conns \in Nat
BY DEF Typed, Descriptor

(* A step of s does nothing to the descriptor of its peer, nor to what     *)
(* that was given, and clears no history.                                  *)
Local(s) ==
  /\ sk'[Peer(s)] = sk[Peer(s)]
  /\ conns' = conns
  /\ got'[Peer(s)] = got[Peer(s)]
  /\ early'[Peer(s)] = early[Peer(s)]
  /\ early[s] => early'[s]
  /\ stale' = stale

(* A side stays connected when its stream and what it was given are the    *)
(* same.                                                                   *)
LEMMA StaysConnected ==
  ASSUME Typed, Typed', NEW t \in Sides, conns' = conns, sent'[t] = sent[t],
         Connected(t), Keys(t)', sk'[t].crypt = sk[t].crypt,
         \A a, b \in Nat : Window(Stream(t), t, a, b) => Window(Stream(t)', t, a, b),
         Open(Peer(t))' => Open(Peer(t)),
         (sk[Peer(t)].pc = "accept")' => sk[Peer(t)].pc = "accept",
         Proper(t)' => Proper(t) /\ Given(t)' = Given(t)
  PROVE  Connected(t)'
<1>1. PICK f \in 0 .. sent[t] + 1, b \in 0 .. PIECES * (sent[t] + 1) : Reads(t, f, b)
  BY DEF Connected
<1>2. sent[t] \in Nat /\ sk[t].crypt \in BOOLEAN
  BY Parts
<1>3. f \in Nat /\ b \in Nat /\ PIECES * f \in Nat
  BY <1>1, <1>2 DEF PIECES
<1>4. Window(Stream(t), t, PIECES * f, b)'
  <2>1. Window(Stream(t)', t, PIECES * f, b)
    BY <1>1, <1>3 DEF Reads
  <2>2. QED
    BY <2>1 DEF Window, Piece, Message, NoMessage, PIECES, EslKey, AddrKey, Merged
<1>5. Reads(t, f, b)'
  <2>1. (sk[t].crypt <=> f > 0)'
    BY <1>1, Zenon DEF Reads
  <2>2. /\ Open(Peer(t))' => b = PIECES * (sent'[t] + 1)
        /\ (sk[Peer(t)].pc = "accept")' => b = 0
    BY <1>1, Zenon DEF Reads
  <2>3. ASSUME Proper(t)'
        PROVE  Numbered(Given(t))' /\ Len(Given(t)') = (IF f = 0 THEN 0 ELSE f - 1)
    <3>1. Numbered(Given(t)) /\ Len(Given(t)) = (IF f = 0 THEN 0 ELSE f - 1)
          /\ Given(t)' = Given(t)
      BY <1>1, <2>3 DEF Reads
    <3>2. QED
      BY <3>1 DEF Numbered, Message
  <2>4. QED
    BY <1>4, <2>1, <2>2, <2>3 DEF Reads, PIECES
<1>6. QED
  BY <1>1, <1>5 DEF Connected, PIECES

(* What is to be shown of a step of s: the calls of its peer are the same. *)
LEMMA LocalStep ==
  ASSUME EInv, NEW s \in Sides, Local(s), Typed', Bounded', Calls(s)',
         sent'[s] = sent[s], sent[Peer(s)] <= sent'[Peer(s)],
         sk'[s].pc = "off" => Ordered(s)',
         sk'[s].pc # "off" => Connected(s)',
         sk[Peer(s)].pc # "off" => Connected(Peer(s))'
  PROVE  EInv'
<1> DEFINE p == Peer(s)
<1>1. p \in Sides /\ Peer(p) = s /\ \A t \in Sides : t = s \/ t = p
  BY TwoSides
<1> HIDE DEF p
<1>2. /\ sk'[p] = sk[p] /\ conns' = conns /\ got'[p] = got[p] /\ early'[p] = early[p]
      /\ stale' = stale /\ sent[p] <= sent'[p]
  BY DEF Local, p
<1>3. Calls(p)'
  <2>1. Calls(p)
    BY <1>1 DEF EInv
  <2>2. QED
    BY <1>1, <1>2, <2>1, Zenon DEF Calls, Open
<1>4. (sk[p].pc = "off" => Ordered(p))'
  <2>1. SUFFICES ASSUME sk'[p].pc = "off", Proper(p)'
                 PROVE  (Len(got[p]) <= sent[p] /\ Numbered(got[p]))'
    BY DEF Ordered
  <2>2. Len(got[p]) <= sent[p] /\ Numbered(got[p])
    BY <1>1, <1>2, <2>1 DEF EInv, Ordered, Proper
  <2>3. Numbered(got[p])'
    BY <1>2, <2>2 DEF Numbered, Message
  <2>4. Len(got[p]) \in Nat /\ sent[p] \in Nat /\ sent'[p] \in Nat
    BY <1>1, LenProperties DEF EInv, Typed
  <2>5. QED
    BY <1>2, <2>2, <2>3, <2>4
<1>5. (sk[p].pc # "off" => Connected(p))'
  BY <1>2 DEF p
<1>6. QED
  BY <1>1, <1>3, <1>4, <1>5 DEF EInv

(* Steps that leave the streams alone: beginning to read, giving up.       *)
LEMMA QuietStep ==
  ASSUME EInv, NEW s \in Sides, Local(s), Typed', Calls(s)', Open(s), Open(s)',
         wire' = wire, sent' = sent,
         sk'[s].recv = sk[s].recv, sk'[s].send = sk[s].send,
         sk'[s].key = sk[s].key, sk'[s].crypt = sk[s].crypt,
         Proper(s)' => Given(s)' = Given(s)
  PROVE  EInv'
<1> DEFINE p == Peer(s)
<1>1. p \in Sides /\ Peer(p) = s /\ Peer(s) = p
  BY TwoSides DEF p
<1> HIDE DEF p
<1>2. /\ sk'[p] = sk[p] /\ conns' = conns /\ got'[p] = got[p] /\ early'[p] = early[p]
      /\ stale' = stale /\ (early[s] => early'[s])
  BY DEF Local, p
<1>3. Typed /\ Bounded'
  BY DEF EInv, Bounded
<1>4. sk[s].pc # "off" /\ sk'[s].pc # "off" /\ sk[s].pc # "accept" /\ sk'[s].pc # "accept"
  BY DEF Open
<1>5. Stream(s)' = Stream(s) /\ Stream(p)' = Stream(p)
  BY <1>1, <1>2, Zenon DEF Stream
<1>6. Connected(s)'
  <2>1. Connected(s) /\ Keys(s)'
    BY <1>4 DEF EInv, Connected, Keys
  <2>2. /\ Open(p)' => Open(p)
        /\ (sk[p].pc = "accept")' => sk[p].pc = "accept"
    BY <1>2, Zenon DEF Open
  <2>3. Proper(s)' => Proper(s)
    BY <1>2 DEF Proper
  <2>4. QED
    BY <1>1, <1>2, <1>3, <1>5, <2>1, <2>2, <2>3, StaysConnected
<1>7. sk[p].pc # "off" => Connected(p)'
  <2>1. SUFFICES ASSUME sk[p].pc # "off" PROVE Connected(p)'
    OBVIOUS
  <2>2. Connected(p) /\ Keys(p)'
    BY <1>1, <1>2, <2>1 DEF EInv, Connected, Keys
  <2>3. /\ Proper(p)' => Proper(p)
        /\ Given(p)' = Given(p)
    BY <1>2 DEF Proper, Given
  <2>4. QED
    BY <1>1, <1>2, <1>3, <1>4, <1>5, <2>2, <2>3, StaysConnected
<1>8. QED
  <2>1. sent[p] \in Nat /\ sent[p] <= sent'[p]
    BY <1>1, <1>3 DEF Typed
  <2>2. QED
    BY <1>1, <1>3, <1>4, <1>6, <1>7, <2>1, LocalStep

(* A call of esl_readb begins.                                             *)
LEMMA BeginsReading ==
  ASSUME EInv, NEW s \in Sides, Ready(s), NEW th \in {"read", "readb", "write", "verify"},
         sk' = [sk EXCEPT ![s] = Reading(sk[s], th)],
         wire' = wire, conns' = conns, sent' = sent, stale' = stale, cut' = cut,
         early' = IF th \in {"write", "verify"} THEN [early EXCEPT ![s] = TRUE] ELSE early,
         got' = IF th = "readb" THEN [got EXCEPT ![s] = Given(s)] ELSE got,
         th = "write" => sent[Peer(s)] < MaxData
  PROVE  EInv'
<1> DEFINE p == Peer(s)
           R == Reading(sk[s], th)
<1>1. p \in Sides /\ Typed
  BY TwoSides DEF EInv
<1>2. /\ R \in Descriptor /\ R.pc = "loop" /\ R.then = th
      /\ R.recv = sk[s].recv /\ R.send = sk[s].send /\ R.crypt = sk[s].crypt
      /\ R.key = sk[s].key /\ R.proc = IF th = "read" THEN sk[s].proc ELSE <<>>
  <2>1. sk[s] \in Descriptor
    BY <1>1, Parts
  <2>2. <<>> \in Seq(Msg)
    OBVIOUS
  <2>3. QED
    BY <2>1, <2>2 DEF Reading, Descriptor
<1> HIDE DEF R
<1>3. sk' \in [Sides -> Descriptor] /\ sk'[s] = R /\ sk'[p] = sk[p]
  <2>1. sk' = [sk EXCEPT ![s] = R]
    BY DEF R
  <2>2. sk \in [Sides -> Descriptor]
    BY <1>1 DEF Typed
  <2>3. R \in Descriptor
    BY <1>2
  <2>4. QED
    BY <2>1, <2>2, <2>3, Update
<1>4. got[s] \in Seq(Msg) /\ sk[s].proc \in Seq(Msg) /\ Given(s) \in Seq(Msg)
  BY <1>1, Parts DEF Given
<1>5. /\ got' \in [Sides -> Seq(Msg)] /\ got'[p] = got[p]
      /\ got'[s] = IF th = "readb" THEN Given(s) ELSE got[s]
  BY <1>1, <1>4, Update DEF Typed
<1>6. /\ early' \in [Sides -> BOOLEAN] /\ early'[p] = early[p]
      /\ early'[s] = IF th \in {"write", "verify"} THEN TRUE ELSE early[s]
  <2>1. /\ [early EXCEPT ![s] = TRUE] \in [Sides -> BOOLEAN]
        /\ [early EXCEPT ![s] = TRUE][s] = TRUE
        /\ [early EXCEPT ![s] = TRUE][Peer(s)] = early[Peer(s)]
    BY <1>1, Update, Zenon DEF Typed
  <2>2. QED
    BY <1>1, <2>1, Zenon DEF Typed
<1>7. Typed'
  BY <1>1, <1>3, <1>5, <1>6 DEF Typed
<1>8. Local(s)
  BY <1>3, <1>5, <1>6 DEF Local, p
<1>9. Open(s) /\ Open(s)'
  BY <1>2, <1>3 DEF Ready, Open
<1>10. Calls(s)'
  BY <1>2, <1>3, <1>6, <1>9 DEF Calls, Open
<1>11. Proper(s)' => Given(s)' = Given(s)
  <2>1. SUFFICES ASSUME ~early'[s] PROVE Given(s)' = Given(s)
    BY DEF Proper
  <2>2. th \notin {"write", "verify"}
    BY <1>6, <2>1
  <2>3. CASE th = "read"
    BY <1>2, <1>3, <1>5, <2>3 DEF Given
  <2>4. CASE th = "readb"
    <3>1. sk'[s].proc = <<>> /\ got'[s] = Given(s)
      BY <1>2, <1>3, <1>5, <2>4
    <3>2. Given(s) \o <<>> = Given(s)
      BY <1>4, ConcatEmptySeq
    <3>3. QED
      BY <3>1, <3>2, Zenon DEF Given
  <2>5. QED
    BY <2>2, <2>3, <2>4
<1>12. QED
  BY <1>2, <1>3, <1>7, <1>8, <1>9, <1>10, <1>11, QuietStep

(* A call ends, with or without having written all.                        *)
LEMMA Returns ==
  ASSUME EInv, NEW s \in Sides, Open(s),
         sk' = [sk EXCEPT ![s].pc = "ready"], NEW c \in BOOLEAN,
         cut' = IF c THEN [cut EXCEPT ![s] = TRUE] ELSE cut,
         UNCHANGED <<wire, conns, sent, got, early, stale>>
  PROVE  EInv'
<1> DEFINE p == Peer(s)
           R == [sk[s] EXCEPT !.pc = "ready"]
<1>1. p \in Sides /\ Typed
  BY TwoSides DEF EInv
<1>2. /\ R \in Descriptor /\ R.pc = "ready" /\ R.then = sk[s].then
      /\ R.recv = sk[s].recv /\ R.send = sk[s].send /\ R.crypt = sk[s].crypt
      /\ R.key = sk[s].key /\ R.proc = sk[s].proc
  <2>1. sk[s] \in Descriptor
    BY <1>1, Parts
  <2>2. QED
    BY <2>1 DEF Descriptor
<1>3. sk' = [sk EXCEPT ![s] = R]
  BY <1>1 DEF Typed
<1> HIDE DEF R
<1>4. sk' \in [Sides -> Descriptor] /\ sk'[s] = R /\ sk'[p] = sk[p]
  <2>1. sk \in [Sides -> Descriptor]
    BY <1>1 DEF Typed
  <2>2. QED
    BY <1>2, <1>3, <2>1, Update, SMTT(20)
<1>5. cut' \in [Sides -> BOOLEAN]
  <2>1. /\ [cut EXCEPT ![s] = TRUE] \in [Sides -> BOOLEAN]
        /\ [cut EXCEPT ![s] = TRUE][s] = TRUE
        /\ [cut EXCEPT ![s] = TRUE][Peer(s)] = cut[Peer(s)]
    BY <1>1, Update, ZenonT(30) DEF Typed
  <2>2. QED
    BY <1>1, <2>1, Zenon DEF Typed
<1>6. Typed'
  BY <1>1, <1>4, <1>5 DEF Typed
<1>7. Local(s)
  BY <1>4 DEF Local, p
<1>8. Calls(s)' /\ Open(s)'
  BY <1>2, <1>4 DEF Calls, Open
<1>9. Given(s)' = Given(s)
  BY <1>2, <1>4 DEF Given
<1>10. QED
  BY <1>2, <1>4, <1>6, <1>7, <1>8, <1>9, QuietStep

(* What write() takes fits the connection.                                 *)
LEMMA RoomFits ==
  ASSUME Typed, Bounded, NEW s \in Sides, NEW S, NEW buf \in Seq(S)
  PROVE  /\ Room(s, buf) \in 0 .. Len(buf)
         /\ Len(wire[Peer(s)]) + Room(s, buf) <= CAP
         /\ \A n \in Written(s, buf) :
              n \in 0 .. Len(buf) /\ Len(wire[Peer(s)]) + n <= CAP
<1>1. Peer(s) \in Sides
  BY TwoSides
<1>2. Len(buf) \in Nat /\ Len(wire[Peer(s)]) \in Nat /\ Len(wire[Peer(s)]) <= CAP
  BY <1>1, LenProperties DEF Typed, Bounded
<1>3. CAP \in Nat
  BY EslAssumption
<1>4. /\ Room(s, buf) \in 0 .. Len(buf)
      /\ Len(wire[Peer(s)]) + Room(s, buf) <= CAP
  <2>1. CASE Open(Peer(s)) \/ sk[Peer(s)].pc = "accept"
    <3>1. Room(s, buf) = IF Len(buf) < CAP - Len(wire[Peer(s)])
                         THEN Len(buf) ELSE CAP - Len(wire[Peer(s)])
      BY <2>1, Zenon DEF Room
    <3>2. CASE Len(buf) < CAP - Len(wire[Peer(s)])
      <4>1. Room(s, buf) = Len(buf)
        BY <3>1, <3>2, Zenon
      <4>2. QED
        BY <1>2, <1>3, <3>2, <4>1
    <3>3. CASE ~(Len(buf) < CAP - Len(wire[Peer(s)]))
      <4>1. Room(s, buf) = CAP - Len(wire[Peer(s)])
        BY <3>1, <3>3, Zenon
      <4>2. QED
        BY <1>2, <1>3, <3>3, <4>1
    <3>4. QED
      BY <3>2, <3>3
  <2>2. CASE ~(Open(Peer(s)) \/ sk[Peer(s)].pc = "accept")
    <3>1. Room(s, buf) = 0
      BY <2>2, Zenon DEF Room
    <3>2. QED
      BY <1>2, <1>3, <3>1
  <2>3. QED
    BY <2>1, <2>2
<1>5. QED
  BY <1>2, <1>3, <1>4 DEF Written

(* Steps of s that write the first n pieces of buf, which is its send_buff *)
(* and maybe a frame: the stream of the peer becomes longer by that.       *)
LEMMA WriteStep ==
  ASSUME EInv, NEW s \in Sides, Local(s), Typed', Calls(s)', Keys(s)', Open(s)',
         sk[s].pc # "off",
         NEW buf \in Seq(PieceType), NEW n \in 0 .. Len(buf),
         Len(wire[Peer(s)]) + n <= CAP,
         sk'[s].send = SubSeq(buf, n + 1, Len(buf)),
         wire'[Peer(s)] = wire[Peer(s)] \o SubSeq(buf, 1, n), wire'[s] = wire[s],
         sk'[s].recv = sk[s].recv, sk'[s].crypt = sk[s].crypt, sk'[s].proc = sk[s].proc,
         got'[s] = got[s], sent'[s] = sent[s],
         sent[Peer(s)] <= sent'[Peer(s)], sent'[Peer(s)] <= MaxData,
         \A a, b \in Nat :
           /\ Window(Stream(Peer(s)), Peer(s), a, b)
           /\ Open(s) => b = PIECES * (sent[Peer(s)] + 1)
           /\ sk[s].pc = "accept" => b = 0
           => Window(Joined(sk[Peer(s)].recv, wire[Peer(s)], buf), Peer(s), a,
                     PIECES * (sent'[Peer(s)] + 1))
  PROVE  EInv'
<1> DEFINE p == Peer(s)
<1>1. p \in Sides /\ Peer(p) = s /\ Peer(s) = p /\ \A t \in Sides : t = s \/ t = p
  BY TwoSides DEF p
<1> HIDE DEF p
<1>2. /\ sk'[p] = sk[p] /\ conns' = conns /\ got'[p] = got[p] /\ early'[p] = early[p]
      /\ stale' = stale /\ (early[s] => early'[s])
  BY <1>1 DEF Local
<1>3. Typed /\ sk[s].pc # "off" /\ sk'[s].pc # "off" /\ sk'[s].pc # "accept"
  BY DEF Open, EInv
<1>4. Bounded'
  <2>1. SubSeq(buf, 1, n) \in Seq(PieceType) /\ Len(SubSeq(buf, 1, n)) = n
    BY Cut
  <2>2. wire[p] \in Seq(PieceType) /\ Len(wire'[p]) = Len(wire[p]) + n
    <3>1. wire[p] \in Seq(PieceType) /\ wire'[p] = wire[p] \o SubSeq(buf, 1, n)
      BY <1>1, <1>3, Parts
    <3>2. Len(wire[p] \o SubSeq(buf, 1, n)) = Len(wire[p]) + Len(SubSeq(buf, 1, n))
      BY <2>1, <3>1, ConcatProperties
    <3>3. QED
      BY <2>1, <3>1, <3>2, Zenon
  <2>3. Len(wire[s]) <= CAP /\ sent[s] <= MaxData
    BY DEF EInv, Bounded
  <2>4. QED
    BY <1>1, <2>2, <2>3 DEF Bounded
<1>5. Connected(s)'
  <2>1. Stream(s)' = Stream(s) /\ Given(s)' = Given(s)
    BY <1>1, <1>2, Zenon DEF Stream, Given
  <2>2. Connected(s)
    BY <1>3 DEF EInv
  <2>3. /\ Open(p)' => Open(p)
        /\ (sk[p].pc = "accept")' => sk[p].pc = "accept"
    BY <1>2, Zenon DEF Open
  <2>4. Proper(s)' => Proper(s)
    BY <1>2 DEF Proper
  <2>5. QED
    BY <1>1, <1>2, <1>3, <2>1, <2>2, <2>3, <2>4, StaysConnected
<1>6. ASSUME sk[p].pc # "off" PROVE Connected(p)'
  <2>1. Connected(p)
    BY <1>1, <1>6 DEF EInv
  <2>2. PICK f \in 0 .. sent[p] + 1, b \in 0 .. PIECES * (sent[p] + 1) : Reads(p, f, b)
    BY <2>1 DEF Connected
  <2>3. sent[p] \in Nat /\ sent'[p] \in Nat
    BY <1>1, <1>3 DEF Typed
  <2>a. PICK c \in Nat : c = PIECES * (sent'[p] + 1)
    BY <2>3 DEF PIECES
  <2>4. f \in Nat /\ b \in Nat /\ c \in Nat /\ PIECES * f \in Nat /\ f \in 0 .. sent'[p] + 1
    BY <1>1, <2>2, <2>3, <2>a DEF PIECES
  <2>5. Window(Joined(sk[p].recv, wire[p], buf), p, PIECES * f, c)
    BY <1>1, <2>2, <2>4, <2>a DEF Reads
  <2>6. Window(Stream(p)', p, PIECES * f, c)
    <3>1. sk[p].recv \in Seq(PieceType) /\ wire[p] \in Seq(PieceType)
      BY <1>1, <1>3, Parts
    <3>2. Window(Joined(sk[p].recv, wire[p] \o SubSeq(buf, 1, n),
                        SubSeq(buf, n + 1, Len(buf))), p, PIECES * f, c)
      BY <2>5, <3>1, WrittenWindow
    <3>3. Stream(p)' = Joined(sk[p].recv, wire[p] \o SubSeq(buf, 1, n),
                              SubSeq(buf, n + 1, Len(buf)))
      BY <1>1, <1>2, Zenon DEF Stream
    <3>4. QED
      BY <3>2, <3>3, Zenon
  <2>7. Window(Stream(p), p, PIECES * f, c)'
    <3>1. conns' = conns
      BY <1>2
    <3>2. QED
      BY ONLY <2>6, <3>1
         DEF Window, Piece, Message, NoMessage, PIECES, EslKey, AddrKey, Merged
  <2>8. /\ (sk[p].crypt <=> f > 0)'
        /\ (Open(Peer(p)) => c = PIECES * (sent[p] + 1))'
        /\ (sk[Peer(p)].pc = "accept" => c = 0)'
    <3>1. (sk[p].crypt <=> f > 0)'
      BY <1>2, <2>2, Zenon DEF Reads
    <3>2. (Open(Peer(p)) => c = PIECES * (sent[p] + 1))'
      BY <2>a, Zenon
    <3>3. (sk[Peer(p)].pc = "accept" => c = 0)'
      BY <1>1, <1>3, Zenon
    <3>4. QED
      BY <3>1, <3>2, <3>3, Zenon
  <2>9. (Proper(p) => Numbered(Given(p)) /\ Len(Given(p)) = (IF f = 0 THEN 0 ELSE f - 1))'
    BY <1>2, <2>2 DEF Reads, Proper, Given, Numbered, Message
  <2>10. Keys(p)'
    BY <1>2, <2>1 DEF Connected, Keys
  <2>11. Reads(p, f, c)'
    BY <2>7, <2>8, <2>9 DEF Reads, PIECES
  <2>12. QED
    BY <2>3, <2>4, <2>10, <2>11, <2>a DEF Connected, PIECES
<1>7. QED
  BY <1>1, <1>3, <1>4, <1>5, <1>6, LocalStep

(* The shape of a step that writes.                                        *)
LEMMA WroteBuf ==
  ASSUME Typed, NEW s \in Sides, NEW x \in Seq(PieceType),
         sk' \in [Sides -> Descriptor], sk'[Peer(s)] = sk[Peer(s)],
         wire' = [wire EXCEPT ![Peer(s)] = wire[Peer(s)] \o x],
         sent' \in [Sides -> Nat], UNCHANGED <<conns, got, early, stale, cut>>
  PROVE  /\ Typed' /\ Local(s) /\ wire'[s] = wire[s]
         /\ wire'[Peer(s)] = wire[Peer(s)] \o x
<1>1. /\ wire' \in [Sides -> Seq(PieceType)] /\ wire'[s] = wire[s]
      /\ wire'[Peer(s)] = wire[Peer(s)] \o x
  <2>1. wire \in [Sides -> Seq(PieceType)]
    BY DEF Typed
  <2>2. wire[Peer(s)] \o x \in Seq(PieceType)
    BY <2>1, TwoSides
  <2>3. QED
    BY <2>1, <2>2, TwoSides
<1>2. Typed'
  BY <1>1 DEF Typed
<1>3. Local(s)
  BY DEF Local
<1>4. QED
  BY <1>1, <1>2, <1>3

(* esl_write_data.                                                         *)
LEMMA WritesData ==
  ASSUME EInv, NEW s \in Sides, sk[s].pc \in {"ready", "write"}, sk[s].crypt,
         sent[Peer(s)] < MaxData, WriteData(s, sk[s]),
         UNCHANGED <<conns, got, early, stale, cut>>
  PROVE  EInv'
<1> DEFINE p == Peer(s)
<1>1. p \in Sides /\ Peer(s) = p
  BY TwoSides DEF p
<1> HIDE DEF p
<1>2. Typed /\ Bounded /\ sk[s].pc # "off" /\ sk[s].pc # "accept" /\ Open(s)
  BY DEF EInv, Open
<1>3. sk[s].key = Merged
  BY <1>2 DEF EInv, Connected, Keys
<1>4. sk[s] \in Descriptor /\ sk[s].send \in Seq(PieceType) /\ sent[p] \in Nat
      /\ conns \in Nat
  BY <1>1, <1>2, Parts
<1> DEFINE fr == Frame("DATA", sk[s].key, Message(sent[p] + 1))
<1>5. fr \in Seq(PieceType) /\ Window(fr, p, PIECES * (sent[p] + 1), PIECES * (sent[p] + 2))
  <2>1. Message(sent[p] + 1) \in Msg /\ Merged \in SUBSET {"eslkey", "addr", "other"}
    BY <1>4 DEF Message, Msg, Merged
  <2>2. fr \in Seq(PieceType)
    BY <1>3, <2>1, FrameType
  <2>3. sent[p] + 1 \in Nat \ {0} /\ (sent[p] + 1) + 1 = sent[p] + 2
    BY <1>4
  <2>4. Window(Frame("DATA", Merged, Message(sent[p] + 1)), p, PIECES * (sent[p] + 1),
               PIECES * ((sent[p] + 1) + 1))
    BY <1>4, <2>3, FrameWindow
  <2>5. QED
    BY <1>3, <2>2, <2>3, <2>4, Zenon
<1> HIDE DEF fr
<1>6. PICK buf \in Seq(PieceType) : buf = sk[s].send \o fr
  <2>1. (sk[s].send \o fr) \in Seq(PieceType)
    BY <1>4, <1>5, ConcatProperties
  <2>2. QED
    BY <2>1, Zenon
<1>7. PICK n \in Written(s, buf) : WriteBuf(s, [sk[s] EXCEPT !.pc = "flush"], fr, n)
  <2>1. \E n \in Written(s, sk[s].send \o fr) :
          WriteBuf(s, [sk[s] EXCEPT !.pc = "flush"], fr, n)
    BY <1>1, Zenon DEF WriteData, fr
  <2>2. QED
    BY <1>6, <2>1, Zenon
<1>8. n \in 0 .. Len(buf) /\ Len(wire[p]) + n <= CAP
  BY <1>1, <1>2, <1>6, <1>7, RoomFits
<1>9. sent'[p] = sent[p] + 1 /\ sent'[s] = sent[s] /\ sent' \in [Sides -> Nat]
  <2>1. sent' = [sent EXCEPT ![p] = sent[p] + 1] /\ sent \in [Sides -> Nat] /\ p # s
    BY <1>1, <1>2, TwoSides DEF WriteData, Typed
  <2>2. QED
    BY <1>1, <1>4, <2>1
<1>10. /\ SubSeq(buf, 1, n) \in Seq(PieceType)
       /\ SubSeq(buf, n + 1, Len(buf)) \in Seq(PieceType)
  BY <1>6, <1>8, Cut
<1> DEFINE R == [[sk[s] EXCEPT !.pc = "flush"] EXCEPT !.send = SubSeq(buf, n + 1, Len(buf))]
<1>11. /\ sk' = [sk EXCEPT ![s] = R]
       /\ wire' = [wire EXCEPT ![p] = wire[p] \o SubSeq(buf, 1, n)]
  <2>1. (sk[s].send \o fr) = [sk[s] EXCEPT !.pc = "flush"].send \o fr
    BY <1>4 DEF Descriptor
  <2>2. QED
    BY <1>1, <1>6, <1>7, <2>1 DEF WriteBuf
<1>12. R \in Descriptor
  BY <1>4, <1>10 DEF Descriptor
<1>13. /\ R.pc = "flush" /\ R.send = SubSeq(buf, n + 1, Len(buf)) /\ R.recv = sk[s].recv
       /\ R.crypt = sk[s].crypt /\ R.proc = sk[s].proc /\ R.key = sk[s].key
  BY <1>4 DEF Descriptor
<1> HIDE DEF R
<1>14. /\ Typed' /\ Local(s) /\ sk'[s] = R /\ wire'[s] = wire[s]
       /\ wire'[p] = wire[p] \o SubSeq(buf, 1, n)
  <2>1. /\ n \in 0 .. Len(buf) /\ sent' \in [Sides -> Nat]
        /\ wire' = [wire EXCEPT ![Peer(s)] = wire[Peer(s)] \o SubSeq(buf, 1, n)]
    BY <1>1, <1>8, <1>9, <1>11
  <2>2. sk' = [sk EXCEPT ![s] = R] /\ sk \in [Sides -> Descriptor]
    BY <1>2, <1>11 DEF Typed
  <2>3. sk' \in [Sides -> Descriptor] /\ sk'[s] = R /\ sk'[Peer(s)] = sk[Peer(s)]
    BY <1>12, <2>2, TwoSides
  <2>4. PICK x \in Seq(PieceType) : x = SubSeq(buf, 1, n)
    BY <1>10, Zenon
  <2>5. wire' = [wire EXCEPT ![Peer(s)] = wire[Peer(s)] \o x]
    BY <2>1, <2>4, Zenon
  <2>6. /\ Typed' /\ Local(s) /\ wire'[s] = wire[s]
        /\ wire'[Peer(s)] = wire[Peer(s)] \o x
    BY <1>2, <2>1, <2>3, <2>5, WroteBuf
  <2>7. QED
    BY <1>1, <2>3, <2>4, <2>6, Zenon
<1>15. Open(s)' /\ Calls(s)' /\ Keys(s)'
  BY <1>3, <1>13, <1>14 DEF Open, Calls, Keys
<1>16. ASSUME NEW a \in Nat, NEW b \in Nat, Window(Stream(p), p, a, b),
              b = PIECES * (sent[p] + 1)
       PROVE  Window(Joined(sk[p].recv, wire[p], buf), p, a, PIECES * (sent'[p] + 1))
  <2>1. /\ sk[p].recv \in Seq(PieceType) /\ wire[p] \in Seq(PieceType)
        /\ PIECES * (sent[p] + 2) \in Nat /\ sent'[p] + 1 = sent[p] + 2
    BY <1>1, <1>2, <1>4, <1>9, Parts DEF PIECES
  <2>2. Window(Joined(sk[p].recv, wire[p], sk[s].send), p, a, b)
    BY <1>1, <1>16, TwoSides DEF Stream
  <2>3. Window(fr, p, b, PIECES * (sent[p] + 2))
    BY <1>5, <1>16
  <2>4. Window(Joined(sk[p].recv, wire[p], sk[s].send \o fr), p, a, PIECES * (sent[p] + 2))
    BY <1>4, <1>5, <2>1, <2>2, <2>3, WindowAdded
  <2>5. QED
    BY <1>6, <2>1, <2>4, Zenon
<1>17. sent[p] <= sent'[p] /\ sent'[p] <= MaxData
  BY <1>1, <1>4, <1>9, EslAssumption
<1>18. QED
  BY <1>1, <1>2, <1>6, <1>8, <1>9, <1>13, <1>14, <1>15, <1>16,
     <1>17, WriteStep

(* shnet_write_flush.                                                      *)
LEMMA Flushes ==
  ASSUME EInv, NEW s \in Sides, Flush(s)
  PROVE  EInv'
<1> DEFINE p == Peer(s)
<1>1. p \in Sides /\ Peer(s) = p /\ Peer(p) = s
  BY TwoSides DEF p
<1> HIDE DEF p
<1>2. Typed /\ Bounded /\ sk[s].pc = "flush" /\ sk[s].pc # "off" /\ Open(s)
  BY DEF EInv, Open, Flush
<1>3. sk[s].crypt /\ Keys(s)
  BY <1>2 DEF EInv, Calls, Connected
<1>4. sk[s] \in Descriptor /\ sk[s].send \in Seq(PieceType) /\ sent[p] \in Nat
  BY <1>1, <1>2, Parts
<1>5. PICK buf \in Seq(PieceType) : buf = sk[s].send
  BY <1>4, Zenon
<1>6. PICK n \in 0 .. Len(buf) : n = Room(s, buf) /\ Len(wire[p]) + n <= CAP
  BY <1>1, <1>2, <1>5, RoomFits
<1>7. PICK x \in Seq(PieceType) : x = SubSeq(buf, 1, n)
  BY <1>5, <1>6, Cut
<1>8. PICK y \in Seq(PieceType) : y = SubSeq(buf, n + 1, Len(buf))
  BY <1>5, <1>6, Cut
<1>9. PICK pc \in {"ready", "flush"} : pc = IF n = Len(buf) THEN "ready" ELSE "flush"
  OBVIOUS
<1> DEFINE R == [sk[s] EXCEPT !.send = y, !.pc = pc]
<1>10. sk' = [sk EXCEPT ![s] = R]
  <2>1. sk' = [sk EXCEPT ![s].send = y, ![s].pc = pc]
    BY <1>5, <1>6, <1>8, <1>9, Zenon DEF Flush
  <2>2. sk \in [Sides -> Descriptor]
    BY <1>2 DEF Typed
  <2>3. QED
    BY ONLY <2>1, <2>2, s \in Sides DEF Descriptor
<1>11. wire' = [wire EXCEPT ![Peer(s)] = wire[Peer(s)] \o x]
  BY <1>5, <1>6, <1>7, Zenon DEF Flush
<1>12. R \in Descriptor
  BY <1>4, <1>8, <1>9 DEF Descriptor
<1>13. /\ R.pc = pc /\ R.send = y /\ R.recv = sk[s].recv
       /\ R.crypt = sk[s].crypt /\ R.proc = sk[s].proc /\ R.key = sk[s].key
  BY <1>4 DEF Descriptor
<1> HIDE DEF R
<1>14. sk' \in [Sides -> Descriptor] /\ sk'[s] = R /\ sk'[Peer(s)] = sk[Peer(s)]
  <2>1. sk \in [Sides -> Descriptor]
    BY <1>2 DEF Typed
  <2>2. QED
    BY <1>10, <1>12, <2>1, TwoSides
<1>15. sent' = sent /\ got' = got /\ UNCHANGED <<conns, got, early, stale, cut>>
  BY DEF Flush
<1>16. /\ Typed' /\ Local(s) /\ wire'[s] = wire[s]
       /\ wire'[Peer(s)] = wire[Peer(s)] \o x
  <2>1. sent' \in [Sides -> Nat]
    BY <1>2, <1>15 DEF Typed
  <2>2. QED
    BY <1>2, <1>7, <1>11, <1>14, <1>15, <2>1, WroteBuf
<1>17. Open(s)' /\ Calls(s)' /\ Keys(s)'
  BY <1>3, <1>9, <1>13, <1>14 DEF Open, Calls, Keys
<1>18. ASSUME NEW a \in Nat, NEW b \in Nat, Window(Stream(p), p, a, b),
              b = PIECES * (sent[p] + 1)
       PROVE  Window(Joined(sk[p].recv, wire[p], buf), p, a, PIECES * (sent'[p] + 1))
  BY <1>1, <1>5, <1>15, <1>18, Zenon DEF Stream
<1>19. sent[p] <= sent'[p] /\ sent'[p] <= MaxData
  BY <1>1, <1>2, <1>4, <1>15 DEF Bounded
<1>20. wire'[p] = wire[p] \o SubSeq(buf, 1, n) /\ sk'[s].send = SubSeq(buf, n + 1, Len(buf))
  BY <1>1, <1>7, <1>8, <1>13, <1>14, <1>16, Zenon
<1>21. QED
  BY <1>1, <1>2, <1>5, <1>6, <1>13, <1>14, <1>15, <1>16, <1>17, <1>18, <1>19, <1>20,
     WriteStep

(* esl_accept, when it keeps the connection: it is the first to write to   *)
(* the client.                                                             *)
LEMMA Accepts ==
  ASSUME EInv, sk["server"].pc = "accept", NEW key \in {{}, EslKey, {"other"}},
         WriteBuf("server", [sk["server"] EXCEPT !.pc = "ready", !.key = key],
                  Frame("PRIV", AddrKey, NoMessage),
                  Room("server", Frame("PRIV", AddrKey, NoMessage))),
         UNCHANGED <<conns, sent, got, early, stale, cut>>
  PROVE  EInv'
<1>1. PICK s \in Sides : s = "server"
  BY DEF Sides
<1>2. PICK p \in Sides : p = "client"
  BY DEF Sides
<1>3. Peer(s) = p /\ Peer(p) = s
  BY <1>1, <1>2 DEF Peer
<1>4. Typed /\ Bounded /\ sk[s].pc # "off" /\ ~Open(s) /\ sk[s].pc = "accept"
  BY <1>1 DEF EInv, Open
<1>5. ~sk[s].crypt /\ sk[s].send = <<>> /\ sent[p] = 0
  BY <1>3, <1>4 DEF EInv, Calls
<1>6. sk[s] \in Descriptor
  BY <1>4, Parts
<1>7. key \in SUBSET {"eslkey", "addr", "other"}
  BY DEF EslKey
<1>8. /\ Frame("PRIV", AddrKey, NoMessage) \in Seq(PieceType)
      /\ Window(Frame("PRIV", AddrKey, NoMessage), "client", 0, PIECES)
  <2>1. NoMessage \in Msg /\ AddrKey \in SUBSET {"eslkey", "addr", "other"}
    BY DEF NoMessage, Msg, AddrKey
  <2>2. Frame("PRIV", AddrKey, NoMessage) \in Seq(PieceType)
    BY <2>1, FrameType
  <2>3. 1 \in Nat \ {0}
    OBVIOUS
  <2>4. QED
    BY <2>2, <2>3, FrameWindow
<1>9. PICK buf \in Seq(PieceType) : buf = Frame("PRIV", AddrKey, NoMessage)
  BY <1>8, Zenon
<1>10. PICK n \in 0 .. Len(buf) : n = Room(s, buf) /\ Len(wire[p]) + n <= CAP
  BY <1>3, <1>4, <1>9, RoomFits
<1>11. PICK x \in Seq(PieceType) : x = SubSeq(buf, 1, n)
  BY <1>9, <1>10, Cut
<1>12. PICK y \in Seq(PieceType) : y = SubSeq(buf, n + 1, Len(buf))
  BY <1>9, <1>10, Cut
<1> DEFINE Q == [sk[s] EXCEPT !.pc = "ready", !.key = key]
           R == [Q EXCEPT !.send = y]
<1>13. Q.send \o buf = buf
  <2>1. Q.send = <<>>
    BY <1>5, <1>6 DEF Descriptor
  <2>2. <<>> \o buf = buf
    BY <1>9, ConcatEmptySeq
  <2>3. QED
    BY <2>1, <2>2, Zenon
<1>14. /\ sk' = [sk EXCEPT ![s] = R]
       /\ wire' = [wire EXCEPT ![Peer(s)] = wire[Peer(s)] \o x]
  <2>1. WriteBuf(s, Q, buf, n)
    BY <1>1, <1>9, <1>10, Zenon
  <2>2. QED
    BY <1>11, <1>12, <1>13, <2>1, Zenon DEF WriteBuf
<1>15. R \in Descriptor
  BY <1>6, <1>7, <1>12 DEF Descriptor
<1>16. /\ R.pc = "ready" /\ R.send = y /\ R.recv = sk[s].recv
       /\ R.crypt = sk[s].crypt /\ R.proc = sk[s].proc /\ R.key = key
  BY <1>6 DEF Descriptor
<1> HIDE DEF R
<1>17. sk' \in [Sides -> Descriptor] /\ sk'[s] = R /\ sk'[Peer(s)] = sk[Peer(s)]
  <2>1. sk \in [Sides -> Descriptor]
    BY <1>4 DEF Typed
  <2>2. QED
    BY <1>14, <1>15, <2>1, TwoSides
<1>18. /\ Typed' /\ Local(s) /\ wire'[s] = wire[s]
       /\ wire'[Peer(s)] = wire[Peer(s)] \o x
  <2>1. sent' \in [Sides -> Nat]
    BY <1>4 DEF Typed
  <2>2. QED
    BY <1>4, <1>11, <1>14, <1>17, <2>1, WroteBuf
<1>19. Open(s)' /\ Calls(s)' /\ Keys(s)'
  BY <1>1, <1>5, <1>16, <1>17 DEF Open, Calls, Keys
<1>20. ASSUME NEW a \in Nat, NEW b \in Nat, Window(Stream(p), p, a, b), b = 0
       PROVE  Window(Joined(sk[p].recv, wire[p], buf), p, a, PIECES * (sent'[p] + 1))
  <2>1. sk[p].recv \in Seq(PieceType) /\ wire[p] \in Seq(PieceType)
        /\ <<>> \in Seq(PieceType)
    BY <1>4, Parts
  <2>2. Window(Joined(sk[p].recv, wire[p], <<>>), p, a, b)
    BY <1>3, <1>5, <1>20, Zenon DEF Stream
  <2>3. PIECES * (sent'[p] + 1) = PIECES /\ PIECES \in Nat
    BY <1>5 DEF PIECES
  <2>4. Window(buf, p, b, PIECES)
    BY <1>2, <1>8, <1>9, <1>20, Zenon
  <2>5. Window(Joined(sk[p].recv, wire[p], <<>> \o buf), p, a, PIECES)
    BY <1>9, <2>1, <2>2, <2>3, <2>4, WindowAdded
  <2>6. <<>> \o buf = buf
    BY <1>9, ConcatEmptySeq
  <2>7. QED
    BY <2>3, <2>5, <2>6, Zenon
<1>21. sent[p] <= sent'[p] /\ sent'[p] <= MaxData
  BY <1>4, <1>5 DEF Bounded
<1>22. wire'[p] = wire[p] \o SubSeq(buf, 1, n) /\ sk'[s].send = SubSeq(buf, n + 1, Len(buf))
  BY <1>3, <1>11, <1>12, <1>16, <1>17, <1>18, Zenon
<1>23. QED
  BY <1>3, <1>4, <1>9, <1>10, <1>16, <1>17, <1>18, <1>19, <1>20, <1>21, <1>22, WriteStep

(* A step that reads all that has arrived leaves the peer as it was.       *)
LEMMA ReadStep ==
  ASSUME EInv, NEW s \in Sides, Local(s), Typed', Calls(s)', Open(s), Open(s)',
         Connected(s)', sent' = sent, wire' = [wire EXCEPT ![s] = <<>>],
         sk'[s].send = sk[s].send
  PROVE  EInv'
<1> DEFINE p == Peer(s)
<1>1. p \in Sides /\ Peer(p) = s /\ Peer(s) = p /\ p # s /\ \A t \in Sides : t = s \/ t = p
  BY TwoSides DEF p
<1> HIDE DEF p
<1>2. /\ sk'[p] = sk[p] /\ conns' = conns /\ got'[p] = got[p] /\ early'[p] = early[p]
      /\ stale' = stale
  BY <1>1 DEF Local
<1>3. Typed /\ Bounded /\ wire'[s] = <<>> /\ wire'[p] = wire[p]
  BY <1>1 DEF EInv, Typed
<1>4. Bounded'
  BY <1>1, <1>3, EslAssumption DEF Bounded
<1>5. sk'[s].pc # "off" /\ sk'[s].pc # "accept" /\ sent[p] \in Nat
  BY <1>1, <1>3 DEF Open, Typed
<1>6. ASSUME sk[p].pc # "off" PROVE Connected(p)'
  <2>1. Connected(p) /\ Keys(p)'
    BY <1>1, <1>2, <1>6 DEF EInv, Connected, Keys
  <2>2. /\ Proper(p)' => Proper(p)
        /\ Given(p)' = Given(p)
    BY <1>2 DEF Proper, Given
  <2>3. Stream(p)' = Stream(p)
    BY <1>1, <1>2, <1>3, Zenon DEF Stream
  <2>4. QED
    BY <1>1, <1>2, <1>3, <1>5, <2>1, <2>2, <2>3, StaysConnected
<1>7. QED
  BY <1>1, <1>4, <1>5, <1>6, LocalStep

(* The first part of what is numbered is numbered.                         *)
LEMMA NumberedPrefix ==
  ASSUME NEW u \in Seq(Msg), NEW v \in Seq(Msg), NEW g, Numbered(u \o v), Len(u \o v) = g
  PROVE  Len(u) <= g /\ Numbered(u)
<1>1. /\ Len(u \o v) = Len(u) + Len(v) /\ Len(u) \in Nat /\ Len(v) \in Nat
      /\ \A i \in 1 .. Len(u) : (u \o v)[i] = u[i]
  BY ConcatProperties, LenProperties
<1>2. QED
  BY <1>1 DEF Numbered

LEMMA ClosedType ==
  ASSUME NEW q \in Seq(Msg)
  PROVE  Unused \in Descriptor /\ [Unused EXCEPT !.proc = q] \in Descriptor
<1>1. Unused \in Descriptor
  <2>1. <<>> \in Seq(PieceType) /\ <<>> \in Seq(Msg)
    OBVIOUS
  <2>2. {} \in SUBSET {"eslkey", "addr", "other"} /\ FALSE \in BOOLEAN
    OBVIOUS
  <2>3. QED
    BY <2>1, <2>2 DEF Unused, Descriptor
<1>2. QED
  BY <1>1 DEF Descriptor

(* What a side was given is in order, at any time.                         *)
LEMMA ConnectedOrdered ==
  ASSUME EInv, NEW s \in Sides
  PROVE  Ordered(s)
<1>1. Typed /\ (sk[s].pc = "off" => Ordered(s)) /\ (sk[s].pc # "off" => Connected(s))
  BY DEF EInv
<1>2. SUFFICES ASSUME Connected(s), Proper(s)
               PROVE  Len(got[s]) <= sent[s] /\ Numbered(got[s])
  BY <1>1 DEF Ordered
<1>3. got[s] \in Seq(Msg) /\ sk[s].proc \in Seq(Msg) /\ sent[s] \in Nat
  BY <1>1, Parts
<1>4. PICK f \in 0 .. sent[s] + 1, b \in 0 .. PIECES * (sent[s] + 1) : Reads(s, f, b)
  BY <1>2 DEF Connected
<1>5. Numbered(Given(s)) /\ Len(Given(s)) = (IF f = 0 THEN 0 ELSE f - 1)
  BY <1>2, <1>4 DEF Reads
<1>6. PICK g \in 0 .. sent[s] : g = IF f = 0 THEN 0 ELSE f - 1
  BY <1>3, <1>4
<1>7. Len(got[s]) <= g /\ Numbered(got[s])
  BY <1>3, <1>5, <1>6, NumberedPrefix, Zenon DEF Given
<1>8. Len(got[s]) \in Nat /\ Len(got[s]) <= sent[s]
  BY <1>3, <1>6, <1>7, LenProperties
<1>9. QED
  BY <1>7, <1>8

(* A connection ends: what s was given was in order, and its peer has what *)
(* is on its way.                                                          *)
LEMMA Shuts ==
  ASSUME EInv, NEW s \in Sides, sk[s].pc # "off",
         NEW R \in {Closed(sk[s]), Unused}, Shut(s, R),
         UNCHANGED <<conns, sent, got, early, stale, cut>>
  PROVE  EInv'
<1> DEFINE p == Peer(s)
<1>1. p \in Sides /\ Peer(p) = s /\ Peer(s) = p /\ p # s /\ \A t \in Sides : t = s \/ t = p
  BY TwoSides DEF p
<1> HIDE DEF p
<1>2. Typed /\ Bounded /\ Connected(s)
  BY DEF EInv
<1>3. sk[s] \in Descriptor /\ got[s] \in Seq(Msg) /\ sk[s].proc \in Seq(Msg) /\ sent[s] \in Nat
  BY <1>2, Parts
<1>4. R \in Descriptor
  BY <1>3, ClosedType DEF Closed
<1>5. R.pc = "off" /\ R.recv = <<>> /\ R.send = <<>> /\ R.crypt = FALSE /\ R.key = {}
  BY DEF Closed, Unused
<1>6. sk' = [sk EXCEPT ![s] = R] /\ wire' = [wire EXCEPT ![s] = <<>>]
  BY DEF Shut
<1>7. sk' \in [Sides -> Descriptor] /\ sk'[s] = R /\ sk'[p] = sk[p]
  <2>1. sk \in [Sides -> Descriptor]
    BY <1>2 DEF Typed
  <2>2. QED
    BY <1>1, <1>4, <1>6, <2>1
<1>8. wire' \in [Sides -> Seq(PieceType)] /\ wire'[s] = <<>> /\ wire'[p] = wire[p]
  BY <1>1, <1>2, <1>6 DEF Typed
<1>9. Typed' /\ Bounded'
  <2>1. Typed'
    BY <1>2, <1>7, <1>8 DEF Typed
  <2>2. Bounded'
    BY <1>1, <1>2, <1>8, EslAssumption DEF Bounded
  <2>3. QED
    BY <2>1, <2>2
<1>10. Local(s)
  BY <1>1, <1>7 DEF Local
<1>11. Calls(s)' /\ sk'[s].pc = "off"
  BY <1>5, <1>7 DEF Calls, Open
<1>12. Ordered(s)'
  <2>1. Ordered(s)
    BY ConnectedOrdered
  <2>2. QED
    BY <2>1 DEF Ordered, Proper, Numbered, Message
<1>13. ASSUME sk[p].pc # "off" PROVE Connected(p)'
  <2>1. Connected(p)
    BY <1>1, <1>13 DEF EInv
  <2>2. PICK f \in 0 .. sent[p] + 1, b \in 0 .. PIECES * (sent[p] + 1) : Reads(p, f, b)
    BY <2>1 DEF Connected
  <2>3. sent[p] \in Nat /\ sk[p].recv \in Seq(PieceType) /\ wire[p] \in Seq(PieceType)
        /\ sk[s].send \in Seq(PieceType)
    BY <1>1, <1>2, Parts
  <2>4. f \in Nat /\ b \in Nat /\ PIECES * f \in Nat
    BY <2>2, <2>3 DEF PIECES
  <2>5. PICK u \in Seq(PieceType) : u = sk[p].recv \o wire[p]
    <3>1. (sk[p].recv \o wire[p]) \in Seq(PieceType)
      BY <2>3, ConcatProperties
    <3>2. QED
      BY <3>1, Zenon
  <2>6. Window(u \o sk[s].send, p, PIECES * f, b)
    BY <1>1, <2>2, <2>5, Zenon DEF Reads, Stream, Joined
  <2>7. PICK c \in Nat : c = PIECES * f + Len(u)
    <3>1. Len(u) \in Nat
      BY <2>5, LenProperties
    <3>2. (PIECES * f + Len(u)) \in Nat
      BY <2>4, <3>1
    <3>3. QED
      BY <3>2, Zenon
  <2>8. Window(u, p, PIECES * f, c) /\ c <= b
    BY <2>3, <2>4, <2>5, <2>6, <2>7, WindowPrefix
  <2>9. Stream(p)' = u
    <3>1. Stream(p)' = Joined(sk[p].recv, wire[p], <<>>)
      BY <1>1, <1>5, <1>7, <1>8, Zenon DEF Stream
    <3>2. QED
      BY <2>3, <2>5, <3>1, EmptyParts
  <2>10. Window(Stream(p), p, PIECES * f, c)'
    <3>1. conns' = conns /\ Window(Stream(p)', p, PIECES * f, c)
      BY <2>8, <2>9, Zenon
    <3>2. QED
      BY ONLY <3>1 DEF Window, Piece, Message, NoMessage, PIECES, EslKey, AddrKey, Merged
  <2>11. ~Open(Peer(p))' /\ (sk[Peer(p)].pc # "accept")'
    BY <1>1, <1>11 DEF Open
  <2>12. (sk[p].crypt <=> f > 0)'
    BY <1>7, <2>2, Zenon DEF Reads
  <2>13. (Proper(p) => Numbered(Given(p)) /\ Len(Given(p)) = (IF f = 0 THEN 0 ELSE f - 1))'
    BY <1>7, <2>2 DEF Reads, Proper, Given, Numbered, Message
  <2>14. Reads(p, f, c)'
    BY <2>10, <2>11, <2>12, <2>13, Zenon DEF Reads
  <2>15. Keys(p)'
    BY <1>7, <2>1 DEF Connected, Keys
  <2>16. f \in 0 .. sent'[p] + 1 /\ c \in 0 .. PIECES * (sent'[p] + 1)
    BY <2>2, <2>3, <2>7, <2>8 DEF PIECES
  <2>17. QED
    BY <2>14, <2>15, <2>16, Zenon DEF Connected
<1>14. sent[p] \in Nat /\ sent[p] <= sent'[p]
  BY <1>1, <1>2 DEF Typed
<1>15. QED
  BY <1>1, <1>9, <1>10, <1>11, <1>12, <1>13, <1>14, LocalStep

(* recv_buff takes all that has arrived: the end of a call, or a frame     *)
(* that is not complete.                                                   *)
LEMMA Takes ==
  ASSUME EInv, NEW s \in Sides, Local(s), Typed', Calls(s)', Open(s), Open(s)',
         sent' = sent, wire' = [wire EXCEPT ![s] = <<>>],
         sk'[s].recv = Received(s), sk'[s].send = sk[s].send,
         sk'[s].key = sk[s].key, sk'[s].crypt = sk[s].crypt,
         Given(s)' = Given(s)
  PROVE  EInv'
<1> DEFINE p == Peer(s)
<1>1. p \in Sides /\ Peer(p) = s /\ Peer(s) = p /\ p # s
  BY TwoSides DEF p
<1> HIDE DEF p
<1>2. /\ sk'[p] = sk[p] /\ conns' = conns /\ stale' = stale /\ (early[s] => early'[s])
  BY <1>1 DEF Local
<1>3. Typed /\ wire'[s] = <<>> /\ sk[s].pc # "off"
  BY DEF EInv, Typed, Open
<1>4. Stream(s)' = Stream(s)
  <2>1. /\ sk[s].recv \in Seq(PieceType) /\ wire[s] \in Seq(PieceType)
        /\ sk[p].send \in Seq(PieceType)
    BY <1>1, <1>3, Parts
  <2>2. Received(s) \in Seq(PieceType)
    BY <2>1, ConcatProperties DEF Received
  <2>3. Stream(s)' = Joined(Received(s), <<>>, sk[p].send)
    BY <1>1, <1>2, <1>3, Zenon DEF Stream
  <2>4. Joined(Received(s), <<>>, sk[p].send) = Received(s) \o sk[p].send
    BY <2>1, <2>2, EmptyParts
  <2>5. QED
    BY <1>1, <2>3, <2>4, Zenon DEF Stream, Joined, Received
<1>5. Connected(s) /\ Keys(s)'
  BY <1>3 DEF EInv, Connected, Keys
<1>6. /\ Open(p)' => Open(p)
      /\ (sk[p].pc = "accept")' => sk[p].pc = "accept"
  BY <1>2, Zenon DEF Open
<1>7. Proper(s)' => Proper(s)
  BY <1>2 DEF Proper
<1>8. Connected(s)'
  BY <1>1, <1>2, <1>3, <1>4, <1>5, <1>6, <1>7, StaysConnected
<1>9. QED
  BY <1>8, ReadStep

(* The frame that esl_readb looks at, and what is left behind it.          *)
LEMMA LooksAt ==
  ASSUME EInv, NEW s \in Sides, Complete(s), NEW f \in 0 .. sent[s] + 1,
         NEW b \in 0 .. PIECES * (sent[s] + 1), Reads(s, f, b)
  PROVE  /\ First(s) = Piece(s, PIECES * f + 1)
         /\ f <= sent[s]
         /\ Rest(s) \in Seq(PieceType)
         /\ Window(Rest(s) \o sk[Peer(s)].send, s, PIECES * (f + 1), b)
<1> DEFINE p == Peer(s)
<1>1. p \in Sides /\ Peer(s) = p /\ Typed
  BY TwoSides DEF p, EInv
<1> HIDE DEF p
<1>2. /\ sk[s].recv \in Seq(PieceType) /\ wire[s] \in Seq(PieceType)
      /\ sk[p].send \in Seq(PieceType) /\ sent[s] \in Nat
  BY <1>1, Parts
<1>3. PICK u \in Seq(PieceType) : u = Received(s)
  <2>1. Received(s) \in Seq(PieceType)
    BY <1>2, ConcatProperties DEF Received
  <2>2. QED
    BY <2>1, Zenon
<1>4. PICK v \in Seq(PieceType) : v = sk[p].send
  BY <1>2, Zenon
<1>5. PICK a \in Nat : a = PIECES * f
  <2>1. PIECES * f \in Nat
    BY <1>2 DEF PIECES
  <2>2. QED
    BY <2>1, Zenon
<1>6. Window(u \o v, s, a, b)
  BY <1>1, <1>3, <1>4, <1>5, Zenon DEF Reads, Stream, Joined, Received
<1>7. Len(u) \in Nat /\ Len(u) >= 3 /\ PIECES \in Nat /\ PIECES <= Len(u) /\ b \in Nat
  BY <1>2, <1>3, LenProperties DEF Complete, PIECES
<1>8. Window(u, s, a, a + Len(u)) /\ a + Len(u) <= b
  BY <1>3, <1>4, <1>6, <1>7, WindowPrefix
<1>9. First(s) = Piece(s, PIECES * f + 1)
  <2>1. u[1] = Piece(s, a + 1)
    BY <1>5, <1>7, <1>8 DEF Window
  <2>2. QED
    BY <1>3, <1>5, <2>1, Zenon DEF First
<1>10. f <= sent[s]
  BY <1>2, <1>5, <1>7, <1>8 DEF PIECES
<1>11. /\ SubSeq(u, PIECES + 1, Len(u)) \in Seq(PieceType)
       /\ Window(SubSeq(u, PIECES + 1, Len(u)) \o v, s, a + PIECES, b)
  BY <1>3, <1>4, <1>6, <1>7, WindowDrop
<1>12. a + PIECES = PIECES * (f + 1)
  BY <1>2, <1>5 DEF PIECES
<1>13. QED
  BY <1>1, <1>3, <1>4, <1>9, <1>10, <1>11, <1>12, Zenon DEF Rest

(* A frame has been read.                                                  *)
LEMMA ReadFrame ==
  ASSUME EInv, NEW s \in Sides, Complete(s), NEW f \in 0 .. sent[s] + 1,
         NEW b \in 0 .. PIECES * (sent[s] + 1), Reads(s, f, b),
         Local(s), Typed', Calls(s)', Open(s)',
         sent' = sent, wire' = [wire EXCEPT ![s] = <<>>],
         sk'[s].recv = Rest(s), sk'[s].send = sk[s].send,
         sk'[s].key = Merged, sk'[s].crypt,
         Proper(s)' => Numbered(Given(s))' /\ Len(Given(s)') = f
  PROVE  EInv'
<1> DEFINE p == Peer(s)
<1>1. p \in Sides /\ Peer(p) = s /\ Peer(s) = p /\ p # s
  BY TwoSides DEF p
<1> HIDE DEF p
<1>2. sk'[p] = sk[p] /\ conns' = conns
  BY <1>1 DEF Local
<1>3. Typed /\ wire'[s] = <<>> /\ Open(s)
  BY DEF EInv, Typed, Open, Complete
<1>4. sent[s] \in Nat /\ sk[p].send \in Seq(PieceType)
  BY <1>1, <1>3, Parts
<1>5. /\ f <= sent[s] /\ Rest(s) \in Seq(PieceType)
      /\ Window(Rest(s) \o sk[p].send, s, PIECES * (f + 1), b)
  BY <1>1, LooksAt
<1>6. PICK g \in 0 .. sent[s] + 1 : g = f + 1
  BY <1>4, <1>5
<1>7. Window(Stream(s), s, PIECES * g, b)'
  <2>1. Stream(s)' = Joined(Rest(s), <<>>, sk[p].send)
    BY <1>1, <1>2, <1>3, Zenon DEF Stream
  <2>2. Joined(Rest(s), <<>>, sk[p].send) = Rest(s) \o sk[p].send
    BY <1>4, <1>5, EmptyParts
  <2>3. conns' = conns /\ Window(Stream(s)', s, PIECES * g, b)
    BY <1>2, <1>5, <1>6, <2>1, <2>2, Zenon
  <2>4. QED
    BY ONLY <2>3 DEF Window, Piece, Message, NoMessage, PIECES, EslKey, AddrKey, Merged
<1>8. (sk[s].crypt <=> g > 0)'
  <2>1. g > 0
    BY <1>4, <1>6
  <2>2. QED
    BY <2>1, Zenon
<1>9. /\ (Open(Peer(s)) => b = PIECES * (sent[s] + 1))'
      /\ (sk[Peer(s)].pc = "accept" => b = 0)'
  BY <1>1, <1>2, Zenon DEF Reads, Open
<1>10. (Proper(s) => Numbered(Given(s)) /\ Len(Given(s)) = (IF g = 0 THEN 0 ELSE g - 1))'
  <2>1. f = IF g = 0 THEN 0 ELSE g - 1
    BY <1>4, <1>6
  <2>2. QED
    BY <2>1, Zenon
<1>11. Reads(s, g, b)'
  BY <1>7, <1>8, <1>9, <1>10, Zenon DEF Reads
<1>12. Keys(s)'
  BY DEF Keys
<1>13. Connected(s)'
  BY <1>6, <1>11, <1>12, Zenon DEF Connected
<1>14. QED
  BY <1>3, <1>13, ReadStep

(* The shape of a step that reads.                                         *)
LEMMA TookAll ==
  ASSUME Typed, NEW s \in Sides, NEW R \in Descriptor,
         sk' = [sk EXCEPT ![s] = R], wire' = [wire EXCEPT ![s] = <<>>],
         got' \in [Sides -> Seq(Msg)], got'[Peer(s)] = got[Peer(s)],
         UNCHANGED <<conns, sent, early, stale, cut>>
  PROVE  Typed' /\ Local(s) /\ sk'[s] = R
<1>1. sk \in [Sides -> Descriptor] /\ wire \in [Sides -> Seq(PieceType)]
      /\ <<>> \in Seq(PieceType)
  BY DEF Typed
<1>2. sk' \in [Sides -> Descriptor] /\ sk'[s] = R /\ sk'[Peer(s)] = sk[Peer(s)]
  BY <1>1, TwoSides
<1>3. wire' \in [Sides -> Seq(PieceType)]
  BY <1>1
<1>4. Typed'
  BY <1>2, <1>3 DEF Typed
<1>5. Local(s)
  BY <1>2 DEF Local
<1>6. QED
  BY <1>2, <1>4, <1>5

(* esl_read_ctrl: the first frame, of either side, completes the key.      *)
LEMMA ReadsCtrl ==
  ASSUME EInv, NEW s \in Sides, LoopCtrl(s)
  PROVE  EInv'
<1>1. Complete(s) /\ sk[s].pc = "loop" /\ sk[s].pc # "off" /\ Typed /\ Open(s)
  BY DEF LoopCtrl, Complete, EInv, Open
<1>2. Connected(s)
  BY <1>1 DEF EInv
<1>3. PICK f \in 0 .. sent[s] + 1, b \in 0 .. PIECES * (sent[s] + 1) : Reads(s, f, b)
  BY <1>2 DEF Connected
<1>4. First(s) = Piece(s, PIECES * f + 1) /\ Rest(s) \in Seq(PieceType)
  BY <1>1, <1>3, LooksAt
<1>5. sk[s] \in Descriptor /\ sent[s] \in Nat
  BY <1>1, Parts
<1>6. f = 0
  <2>1. ASSUME f # 0 PROVE First(s).mode = "DATA"
    <3>1. ~(PIECES * f + 1 <= PIECES)
      BY <1>5, <2>1 DEF PIECES
    <3>2. QED
      BY <1>4, <3>1 DEF Piece
  <2>2. QED
    BY <2>1 DEF LoopCtrl
<1>7. /\ First(s).mode = (IF s = "server" THEN "CERT" ELSE "PRIV")
      /\ First(s).key = (IF s = "server" THEN EslKey ELSE AddrKey)
  <2>1. PIECES * f + 1 <= PIECES
    BY <1>6 DEF PIECES
  <2>2. QED
    BY <1>4, <2>1 DEF Piece
<1>8. ~sk[s].crypt
  BY <1>3, <1>6 DEF Reads
<1>9. CASE First(s).mode = "CERT" /\ sk[s].key # {} /\ sk[s].key # First(s).key
  <2>1. Shut(s, Closed(sk[s])) /\ UNCHANGED <<conns, sent, got, early, stale, cut>>
    BY <1>9, Zenon DEF LoopCtrl
  <2>2. QED
    BY <1>1, <2>1, Shuts
<1>10. CASE ~(First(s).mode = "CERT" /\ sk[s].key # {} /\ sk[s].key # First(s).key)
  <2>1. PICK k \in SUBSET {"eslkey", "addr", "other"} :
          k = Xor(First(s).key, IF First(s).mode = "CERT" THEN AddrKey ELSE sk[s].key)
    BY <1>5, <1>7 DEF Xor, Descriptor, EslKey, AddrKey
  <2>2. k = Merged
    <3>1. sk[s].key = EslKey \/ s = "server"
      BY <1>2, <1>8 DEF Connected, Keys
    <3>2. QED
      BY <1>7, <2>1, <3>1 DEF Xor, Merged, EslKey, AddrKey
  <2> DEFINE R == [sk[s] EXCEPT !.key = k, !.crypt = TRUE, !.recv = Rest(s)]
  <2>3. sk' = [sk EXCEPT ![s] = R] /\ wire' = [wire EXCEPT ![s] = <<>>]
    BY <1>10, <2>1, Zenon DEF LoopCtrl
  <2>4. UNCHANGED <<conns, sent, got, early, stale, cut>>
    BY DEF LoopCtrl
  <2>5. R \in Descriptor
    BY <1>4, <1>5, <2>1 DEF Descriptor
  <2>6. /\ R.pc = sk[s].pc /\ R.then = sk[s].then /\ R.key = k /\ R.crypt = TRUE
        /\ R.recv = Rest(s) /\ R.send = sk[s].send /\ R.proc = sk[s].proc
    BY <1>5 DEF Descriptor
  <2> HIDE DEF R
  <2>7. Typed' /\ Local(s) /\ sk'[s] = R
    <3>1. got' \in [Sides -> Seq(Msg)] /\ got'[Peer(s)] = got[Peer(s)]
      BY <1>1, <2>4 DEF Typed
    <3>2. QED
      BY <1>1, <2>3, <2>4, <2>5, <3>1, TookAll
  <2>8. Open(s)' /\ Calls(s)'
    <3>1. Calls(s)
      BY DEF EInv
    <3>2. QED
      BY <1>1, <2>4, <2>6, <2>7, <3>1 DEF Open, Calls
  <2>9. Proper(s)' => Numbered(Given(s))' /\ Len(Given(s)') = f
    BY <1>3, <1>6, <2>4, <2>6, <2>7 DEF Reads, Proper, Given, Numbered, Message
  <2>10. QED
    BY <1>1, <1>3, <2>2, <2>3, <2>4, <2>6, <2>7, <2>8, <2>9, ReadFrame
<1>11. QED
  BY <1>9, <1>10

(* The next message is added to those that are numbered.                   *)
LEMMA NumberedNext ==
  ASSUME NEW u \in Seq(Msg), NEW k \in Nat, Numbered(u), Len(u) = k, conns \in Nat
  PROVE  /\ Message(k + 1) \in Msg
         /\ Numbered(Append(u, Message(k + 1))) /\ Len(Append(u, Message(k + 1))) = k + 1
<1>1. Message(k + 1) \in Msg
  BY DEF Message, Msg
<1>2. PICK m \in Msg : m = Message(k + 1)
  BY <1>1, Zenon
<1>3. /\ Len(Append(u, m)) = k + 1
      /\ \A i \in 1 .. k : Append(u, m)[i] = u[i]
      /\ Append(u, m)[k + 1] = m
  BY AppendProperties
<1>4. ASSUME NEW i \in 1 .. k + 1 PROVE Append(u, m)[i] = Message(i)
  <2>1. CASE i = k + 1
    BY <1>2, <1>3, <2>1
  <2>2. CASE i # k + 1
    <3>1. i \in 1 .. k
      BY <1>4, <2>2
    <3>2. QED
      BY <1>3, <3>1 DEF Numbered
  <2>3. QED
    BY <2>1, <2>2
<1>5. Numbered(Append(u, m))
  BY <1>3, <1>4 DEF Numbered
<1>6. QED
  BY <1>1, <1>2, <1>3, <1>5, Zenon

(* A complete data frame is the next message, and has the reader's key.    *)
LEMMA DataFrame ==
  ASSUME EInv, NEW s \in Sides, Complete(s), First(s).mode = "DATA",
         NEW f \in 0 .. sent[s] + 1, NEW b \in 0 .. PIECES * (sent[s] + 1), Reads(s, f, b)
  PROVE  f > 0 /\ First(s).key = sk[s].key /\ First(s).msg = Message(f)
<1>1. sk[s].pc # "off" /\ Typed
  BY DEF Complete, EInv
<1>2. First(s) = Piece(s, PIECES * f + 1)
  BY LooksAt
<1>3. sent[s] \in Nat
  BY <1>1, Parts
<1>4. f # 0
  <2>1. ASSUME f = 0 PROVE First(s).mode # "DATA"
    <3>1. PIECES * f + 1 <= PIECES
      BY <2>1 DEF PIECES
    <3>2. QED
      BY <1>2, <3>1 DEF Piece
  <2>2. QED
    BY <2>1
<1>5. ~(PIECES * f + 1 <= PIECES) /\ ((PIECES * f + 1) - 1) \div PIECES = f /\ f > 0
  <2>1. f \in Nat /\ f > 0
    BY <1>3, <1>4
  <2>2. QED
    BY ONLY <2>1 DEF PIECES
<1>6. First(s).key = Merged /\ First(s).msg = Message(f)
  <2>1. First(s) = [mode |-> "DATA", key |-> Merged, msg |-> Message(f)]
    <3>1. Piece(s, PIECES * f + 1) =
            [mode |-> "DATA", key |-> Merged, msg |-> Message(((PIECES * f + 1) - 1) \div PIECES)]
      BY <1>5, Zenon DEF Piece
    <3>2. QED
      BY <1>2, <1>5, <3>1, Zenon
  <2>2. QED
    BY <2>1
<1>7. sk[s].crypt
  BY <1>5 DEF Reads
<1>8. sk[s].key = Merged
  BY <1>1, <1>7 DEF EInv, Connected, Keys
<1>9. QED
  BY <1>5, <1>6, <1>8

(* esl_read_data.                                                          *)
LEMMA ReadsData ==
  ASSUME EInv, NEW s \in Sides, LoopData(s)
  PROVE  EInv'
<1>1. Complete(s) /\ sk[s].pc = "loop" /\ sk[s].pc # "off" /\ Typed /\ Open(s)
      /\ First(s).mode = "DATA"
  BY DEF LoopData, Complete, EInv, Open
<1>2. Connected(s) /\ Calls(s)
  BY <1>1 DEF EInv
<1>3. PICK f \in 0 .. sent[s] + 1, b \in 0 .. PIECES * (sent[s] + 1) : Reads(s, f, b)
  BY <1>2 DEF Connected
<1>4. Rest(s) \in Seq(PieceType)
  BY <1>1, <1>3, LooksAt
<1>5. f > 0 /\ First(s).key = sk[s].key /\ First(s).msg = Message(f)
  BY <1>1, <1>3, DataFrame
<1>6. /\ sk[s] \in Descriptor /\ sent[s] \in Nat /\ conns \in Nat
      /\ sk[s].proc \in Seq(Msg) /\ got[s] \in Seq(Msg)
  BY <1>1, Parts
<1>7. PICK m \in Msg : m = Message(f)
  <2>1. Message(f) \in Msg
    BY <1>5, <1>6 DEF Message, Msg
  <2>2. QED
    BY <2>1, Zenon
<1>8. PICK q \in Seq(Msg) : q = IF sk[s].then = "read" THEN Append(sk[s].proc, m)
                                                      ELSE sk[s].proc
  <2>1. Append(sk[s].proc, m) \in Seq(Msg)
    BY <1>6, <1>7, AppendProperties
  <2>2. QED
    BY <1>6, <2>1, Zenon
<1> DEFINE R == [sk[s] EXCEPT !.recv = Rest(s), !.proc = q]
<1>9. sk' = [sk EXCEPT ![s] = R] /\ wire' = [wire EXCEPT ![s] = <<>>]
  BY <1>5, <1>7, <1>8, Zenon DEF LoopData
<1>10. got' = IF sk[s].then = "readb" THEN [got EXCEPT ![s] = Append(got[s], m)] ELSE got
  BY <1>5, <1>7, Zenon DEF LoopData
<1>11. UNCHANGED <<conns, sent, early, stale, cut>>
  BY DEF LoopData
<1>12. R \in Descriptor
  BY <1>4, <1>6, <1>8 DEF Descriptor
<1>13. /\ R.pc = sk[s].pc /\ R.then = sk[s].then /\ R.key = sk[s].key
       /\ R.crypt = sk[s].crypt /\ R.recv = Rest(s) /\ R.send = sk[s].send /\ R.proc = q
  BY <1>6 DEF Descriptor
<1> HIDE DEF R
<1>14. /\ got' \in [Sides -> Seq(Msg)] /\ got'[Peer(s)] = got[Peer(s)]
       /\ got'[s] = IF sk[s].then = "readb" THEN Append(got[s], m) ELSE got[s]
  <2>1. got \in [Sides -> Seq(Msg)] /\ Append(got[s], m) \in Seq(Msg)
    BY <1>1, <1>6, <1>7 DEF Typed
  <2>2. QED
    BY <1>10, <2>1, TwoSides
<1>15. Typed' /\ Local(s) /\ sk'[s] = R
  BY <1>1, <1>9, <1>11, <1>12, <1>14, TookAll
<1>16. Open(s)' /\ sk[s].crypt /\ sk[s].key = Merged
  <2>1. sk[s].crypt
    BY <1>3, <1>5 DEF Reads
  <2>2. QED
    BY <1>1, <1>2, <1>13, <1>15, <2>1 DEF Open, Connected, Keys
<1>17. Calls(s)'
  <2>1. sk[s].then = "readb" => q = <<>>
    BY <1>1, <1>2, <1>8 DEF Calls
  <2>2. QED
    BY <1>1, <1>2, <1>11, <1>13, <1>15, <1>16, <2>1 DEF Open, Calls
<1>18. ASSUME Proper(s)' PROVE Numbered(Given(s))' /\ Len(Given(s)') = f
  <2>1. PICK k \in Nat : f = k + 1
    BY <1>5, <1>6
  <2>2. Numbered(Given(s)) /\ Len(Given(s)) = k /\ Given(s) \in Seq(Msg)
    <3>1. Proper(s)
      BY <1>11, <1>18 DEF Proper
    <3>2. (IF f = 0 THEN 0 ELSE f - 1) = k
      BY <2>1
    <3>3. Given(s) \in Seq(Msg)
      BY <1>6, ConcatProperties DEF Given
    <3>4. QED
      BY <1>3, <3>1, <3>2, <3>3, Zenon DEF Reads
  <2>3. Numbered(Append(Given(s), m)) /\ Len(Append(Given(s), m)) = f
    BY <1>6, <1>7, <2>1, <2>2, NumberedNext
  <2>4. Given(s)' = Append(Given(s), m)
    <3>1. sk[s].then \in {"read", "readb"}
      BY <1>1, <1>2, <1>11, <1>18 DEF Calls, Proper
    <3>2. CASE sk[s].then = "read"
      <4>1. Given(s)' = got[s] \o Append(sk[s].proc, m)
        BY <1>8, <1>13, <1>14, <1>15, <3>2 DEF Given
      <4>2. got[s] \o Append(sk[s].proc, m) = Append(got[s] \o sk[s].proc, m)
        <5>1. ASSUME NEW u \in Seq(Msg), NEW v \in Seq(Msg), NEW w \in Msg
              PROVE  u \o Append(v, w) = Append(u \o v, w)
          BY ONLY u \in Seq(Msg), v \in Seq(Msg), w \in Msg
        <5>2. got[s] \in Seq(Msg) /\ sk[s].proc \in Seq(Msg) /\ m \in Msg
          BY <1>6, <1>7
        <5>3. QED
          BY ONLY <5>1, <5>2
      <4>3. QED
        BY <4>1, <4>2, Zenon DEF Given
    <3>3. CASE sk[s].then = "readb"
      <4>1. sk[s].proc = <<>> /\ q = <<>>
        BY <1>1, <1>2, <1>8, <3>3 DEF Calls
      <4>2. Given(s)' = Append(got[s], m) \o <<>>
        <5>1. sk'[s].proc = <<>> /\ got'[s] = Append(got[s], m)
          BY <1>13, <1>14, <1>15, <3>3, <4>1, Zenon
        <5>2. QED
          BY <5>1, Zenon DEF Given
      <4>3. Append(got[s], m) \o <<>> = Append(got[s] \o <<>>, m)
        BY <1>6, <1>7, AddedLast
      <4>4. QED
        BY <4>1, <4>2, <4>3, Zenon DEF Given
    <3>4. QED
      BY <3>1, <3>2, <3>3
  <2>5. QED
    BY <1>11, <2>3, <2>4 DEF Numbered, Message
<1>19. QED
  BY <1>1, <1>3, <1>9, <1>11, <1>13, <1>15, <1>16, <1>17, <1>18, ReadFrame

(* esl_readb ends; esl_read takes the first message of proc_buff.          *)
LEMMA EndsReading ==
  ASSUME EInv, NEW s \in Sides, LoopEnd(s)
  PROVE  EInv'
<1>1. sk[s].pc = "loop" /\ Typed /\ Open(s) /\ Calls(s)
  BY DEF LoopEnd, EInv, Open
<1>2. /\ sk[s] \in Descriptor /\ sk[s].proc \in Seq(Msg) /\ got[s] \in Seq(Msg)
      /\ sk[s].recv \in Seq(PieceType) /\ wire[s] \in Seq(PieceType)
  BY <1>1, Parts
<1>3. Received(s) \in Seq(PieceType)
  BY <1>2, ConcatProperties DEF Received
<1>4. UNCHANGED <<conns, sent, early, stale, cut>> /\ wire' = [wire EXCEPT ![s] = <<>>]
  BY DEF LoopEnd
<1>5. PICK pc \in {"write", "ready"} : pc = IF sk[s].then = "write" THEN "write" ELSE "ready"
  OBVIOUS
<1>6. PICK q \in Seq(Msg) : q = IF sk[s].then = "read" /\ sk[s].proc # <<>>
                               THEN Tail(sk[s].proc) ELSE sk[s].proc
  <2>1. sk[s].proc # <<>> => Tail(sk[s].proc) \in Seq(Msg)
    BY <1>2, HandOver
  <2>2. QED
    BY <1>2, <2>1, Zenon
<1>7. PICK g \in Seq(Msg) : g = IF sk[s].then = "read" /\ sk[s].proc # <<>>
                               THEN Append(got[s], Head(sk[s].proc)) ELSE got[s]
  <2>1. sk[s].proc # <<>> => Append(got[s], Head(sk[s].proc)) \in Seq(Msg)
    BY <1>2, HandOver
  <2>2. QED
    BY <1>2, <2>1, Zenon
<1>8. g \o q = got[s] \o sk[s].proc
  <2>1. CASE sk[s].then = "read" /\ sk[s].proc # <<>>
    <3>1. Append(got[s], Head(sk[s].proc)) \o Tail(sk[s].proc) = got[s] \o sk[s].proc
      <4>1. ASSUME NEW u \in Seq(Msg), NEW v \in Seq(Msg), v # <<>>
            PROVE  Append(u, Head(v)) \o Tail(v) = u \o v
        BY ONLY u \in Seq(Msg), v \in Seq(Msg), v # <<>>
      <4>2. QED
        BY ONLY <1>2, <2>1, <4>1
    <3>2. QED
      BY <1>6, <1>7, <2>1, <3>1, Zenon
  <2>2. CASE ~(sk[s].then = "read" /\ sk[s].proc # <<>>)
    BY <1>6, <1>7, <2>2, Zenon
  <2>3. QED
    BY <2>1, <2>2
<1> DEFINE R == [sk[s] EXCEPT !.pc = pc, !.then = "none", !.recv = Received(s), !.proc = q]
<1>9. R \in Descriptor
  BY <1>2, <1>3, <1>5, <1>6 DEF Descriptor
<1>10. /\ R.pc = pc /\ R.then = "none" /\ R.key = sk[s].key
       /\ R.crypt = sk[s].crypt /\ R.recv = Received(s) /\ R.send = sk[s].send /\ R.proc = q
  BY <1>2 DEF Descriptor
<1>11. sk' = [sk EXCEPT ![s] = R]
  <2> DEFINE ended == [sk[s] EXCEPT !.pc = pc, !.then = "none", !.recv = Received(s)]
  <2>1. sk' = [sk EXCEPT ![s] = IF sk[s].then = "read" /\ sk[s].proc # <<>>
                                THEN [ended EXCEPT !.proc = Tail(sk[s].proc)] ELSE ended]
    BY <1>5, Zenon DEF LoopEnd
  <2>2. ended = [ended EXCEPT !.proc = sk[s].proc]
    BY <1>2 DEF Descriptor
  <2>3. R = [ended EXCEPT !.proc = q]
    BY <1>2 DEF Descriptor
  <2> HIDE DEF ended, R
  <2>4. R = IF sk[s].then = "read" /\ sk[s].proc # <<>>
            THEN [ended EXCEPT !.proc = Tail(sk[s].proc)] ELSE ended
    BY <1>6, <2>2, <2>3, Zenon
  <2>5. QED
    BY <2>1, <2>4, Zenon
<1> HIDE DEF R
<1>12. got' \in [Sides -> Seq(Msg)] /\ got'[s] = g /\ got'[Peer(s)] = got[Peer(s)]
  <2>1. got' = IF sk[s].then = "read" /\ sk[s].proc # <<>> THEN [got EXCEPT ![s] = g] ELSE got
    BY <1>7, Zenon DEF LoopEnd
  <2>2. got \in [Sides -> Seq(Msg)]
    BY <1>1 DEF Typed
  <2>3. QED
    BY <1>7, <2>1, <2>2, TwoSides
<1>13. Typed' /\ Local(s) /\ sk'[s] = R
  BY <1>1, <1>4, <1>9, <1>11, <1>12, TookAll
<1>14. Open(s)' /\ Calls(s)'
  BY <1>1, <1>4, <1>5, <1>10, <1>13 DEF Open, Calls
<1>15. Given(s)' = Given(s)
  BY <1>8, <1>10, <1>12, <1>13, Zenon DEF Given
<1>16. QED
  BY <1>1, <1>4, <1>10, <1>13, <1>14, <1>15, Takes

(* A frame that is not complete.                                           *)
LEMMA WaitsForMore ==
  ASSUME EInv, NEW s \in Sides, LoopWait(s)
  PROVE  EInv'
<1>1. sk[s].pc = "loop" /\ Typed /\ Open(s) /\ Calls(s)
  BY DEF LoopWait, EInv, Open
<1>2. /\ sk[s] \in Descriptor
      /\ sk[s].recv \in Seq(PieceType) /\ wire[s] \in Seq(PieceType)
  BY <1>1, Parts
<1>3. Received(s) \in Seq(PieceType)
  BY <1>2, ConcatProperties DEF Received
<1>4. /\ UNCHANGED <<conns, sent, got, early, stale, cut>>
      /\ wire' = [wire EXCEPT ![s] = <<>>]
  BY DEF LoopWait
<1> DEFINE R == [sk[s] EXCEPT !.recv = Received(s)]
<1>5. R \in Descriptor
  BY <1>2, <1>3 DEF Descriptor
<1>6. /\ R.pc = sk[s].pc /\ R.then = sk[s].then /\ R.key = sk[s].key
      /\ R.crypt = sk[s].crypt /\ R.recv = Received(s) /\ R.send = sk[s].send
      /\ R.proc = sk[s].proc
  BY <1>2 DEF Descriptor
<1>7. sk' = [sk EXCEPT ![s] = R]
  <2>1. sk \in [Sides -> Descriptor]
    BY <1>1 DEF Typed
  <2>2. QED
    BY <2>1 DEF LoopWait
<1> HIDE DEF R
<1>8. Typed' /\ Local(s) /\ sk'[s] = R
  <2>1. got' \in [Sides -> Seq(Msg)] /\ got'[Peer(s)] = got[Peer(s)]
    BY <1>1, <1>4 DEF Typed
  <2>2. QED
    BY <1>1, <1>4, <1>5, <1>7, <2>1, TookAll
<1>9. Open(s)' /\ Calls(s)'
  BY <1>1, <1>4, <1>6, <1>8 DEF Open, Calls
<1>10. Given(s)' = Given(s)
  BY <1>4, <1>6, <1>8, Zenon DEF Given
<1>11. QED
  BY <1>1, <1>4, <1>6, <1>8, <1>9, <1>10, Takes

LEMMA BothSides ==
  ASSUME NEW D, NEW x \in D, NEW y \in D
  PROVE  /\ [client |-> x, server |-> y] \in [Sides -> D]
         /\ [client |-> x, server |-> y]["client"] = x
         /\ [client |-> x, server |-> y]["server"] = y
BY DEF Sides

(* A new connection.                                                       *)
LEMMA Connects ==
  ASSUME EInv, Connect
  PROVE  EInv'
<1>1. Typed /\ \A s \in Sides : sk[s].pc = "off" /\ Calls(s)
  BY DEF EInv, Connect
<1>2. "client" \in Sides /\ "server" \in Sides /\ Sides = {"client", "server"}
      /\ Peer("client") = "server" /\ Peer("server") = "client"
  BY DEF Sides, Peer
<1>3. /\ sk["client"] \in Descriptor /\ sk["server"] \in Descriptor
      /\ sk["client"].recv = <<>> /\ sk["server"].recv = <<>> /\ sk["server"].send = <<>>
      /\ ~sk["client"].crypt /\ ~sk["server"].crypt /\ sk["server"].key = {}
      /\ sk["client"].proc \in Seq(Msg) /\ sk["server"].proc \in Seq(Msg)
  BY <1>1, <1>2, Parts DEF Calls, Open
<1>4. PICK fr \in Seq(PieceType) :
        /\ fr = Frame("CERT", EslKey, NoMessage) /\ Len(fr) = PIECES
        /\ Window(fr, "server", 0, PIECES)
  <2>1. NoMessage \in Msg /\ EslKey \in SUBSET {"eslkey", "addr", "other"}
        /\ 1 \in Nat \ {0}
    BY DEF NoMessage, Msg, EslKey
  <2>2. /\ Frame("CERT", EslKey, NoMessage) \in Seq(PieceType)
        /\ Len(Frame("CERT", EslKey, NoMessage)) = PIECES
    BY <2>1, FrameType
  <2>3. Window(Frame("CERT", EslKey, NoMessage), "server", 0, PIECES)
    BY <2>1, FrameWindow
  <2>4. QED
    BY <2>2, <2>3, Zenon
<1>5. PICK n \in 0 .. Len(fr) : n = (IF CAP < PIECES THEN CAP ELSE PIECES) /\ n <= CAP
  BY <1>4, EslAssumption DEF PIECES
<1>6. PICK x \in Seq(PieceType) : x = SubSeq(fr, 1, n) /\ Len(x) = n
  BY <1>4, <1>5, Cut
<1>7. PICK y \in Seq(PieceType) : y = SubSeq(fr, n + 1, PIECES) /\ x \o y = fr
  <2>1. SubSeq(fr, n + 1, Len(fr)) \in Seq(PieceType)
        /\ SubSeq(fr, 1, n) \o SubSeq(fr, n + 1, Len(fr)) = fr
    BY <1>4, <1>5, Cut
  <2>2. QED
    BY <1>4, <1>6, <2>1, Zenon
<1> DEFINE C == [sk["client"] EXCEPT !.pc = "ready", !.key = EslKey, !.send = y]
           V == [sk["server"] EXCEPT !.pc = "accept"]
<1>8. sk' = [client |-> C, server |-> V] /\ wire' = [client |-> <<>>, server |-> x]
  BY <1>4, <1>5, <1>6, <1>7, Zenon DEF Connect
<1>9. C \in Descriptor /\ V \in Descriptor
  <2>1. EslKey \in SUBSET {"eslkey", "addr", "other"}
    BY DEF EslKey
  <2>2. QED
    BY <1>3, <1>7, <2>1 DEF Descriptor
<1>10. /\ C.pc = "ready" /\ C.key = EslKey /\ C.send = y /\ C.recv = <<>>
       /\ ~C.crypt /\ C.proc = sk["client"].proc
       /\ V.pc = "accept" /\ V.key = {} /\ V.send = <<>> /\ V.recv = <<>>
       /\ ~V.crypt /\ V.proc = sk["server"].proc
  BY <1>3 DEF Descriptor
<1> HIDE DEF C, V
<1>11. sk' \in [Sides -> Descriptor] /\ sk'["client"] = C /\ sk'["server"] = V
  BY <1>2, <1>8, <1>9
<1>12. wire' \in [Sides -> Seq(PieceType)] /\ wire'["client"] = <<>> /\ wire'["server"] = x
  <2>1. PICK e \in Seq(PieceType) : e = <<>>
    <3>1. <<>> \in Seq(PieceType)
      OBVIOUS
    <3>2. QED
      BY <3>1, Zenon
  <2>2. wire' = [client |-> e, server |-> x]
    BY <1>8, <2>1, Zenon
  <2>3. wire' \in [Sides -> Seq(PieceType)] /\ wire'["client"] = e /\ wire'["server"] = x
    BY <1>6, <2>1, <2>2, BothSides
  <2>4. QED
    BY <2>1, <2>3, Zenon
<1>13. /\ conns' = conns + 1 /\ sent' = [s \in Sides |-> 0] /\ got' = [s \in Sides |-> <<>>]
       /\ early' = [s \in Sides |-> FALSE] /\ stale' = [s \in Sides |-> sk[s].proc # <<>>]
       /\ cut' = [s \in Sides |-> FALSE]
  BY DEF Connect
<1>14. Typed'
  <2>1. sent' \in [Sides -> Nat] /\ got' \in [Sides -> Seq(Msg)] /\ conns' \in Nat
    BY <1>1, <1>13 DEF Typed
  <2>2. /\ early' \in [Sides -> BOOLEAN] /\ stale' \in [Sides -> BOOLEAN]
        /\ cut' \in [Sides -> BOOLEAN]
    BY <1>13, Zenon
  <2>3. QED
    BY <1>11, <1>12, <2>1, <2>2 DEF Typed
<1>14a. ASSUME NEW s \in Sides
        PROVE  (Proper(s) => Numbered(Given(s)) /\ Len(Given(s)) = 0)'
  <2>1. SUFFICES ASSUME Proper(s)' PROVE (Numbered(Given(s)) /\ Len(Given(s)) = 0)'
    OBVIOUS
  <2>2. stale'[s] = (sk[s].proc # <<>>) /\ got'[s] = <<>>
    BY <1>13
  <2>3. sk[s].proc = <<>> /\ sk'[s].proc = sk[s].proc
    BY <1>2, <1>10, <1>11, <2>1, <2>2, Zenon DEF Proper
  <2>4. Given(s)' = <<>>
    <3>1. Given(s)' = <<>> \o <<>>
      BY <2>2, <2>3, Zenon DEF Given
    <3>2. <<>> \o <<>> = <<>>
      OBVIOUS
    <3>3. QED
      BY <3>1, <3>2, Zenon
  <2>5. Len(Given(s)') = 0
    BY <2>4
  <2>6. QED
    BY <2>4, <2>5 DEF Numbered
<1>15. Bounded'
  BY <1>2, <1>5, <1>6, <1>12, <1>13, EslAssumption DEF Bounded
<1>16. Calls("client")' /\ Calls("server")'
  BY <1>2, <1>10, <1>11, <1>13 DEF Calls, Open
<1>17. Connected("client")'
  <2>1. Stream("client")' = <<>>
    <3>1. Stream("client")' = Joined(<<>>, <<>>, <<>>)
      BY <1>2, <1>10, <1>11, <1>12, Zenon DEF Stream
    <3>2. <<>> \o <<>> = <<>>
      OBVIOUS
    <3>3. QED
      BY <3>1, <3>2, Zenon DEF Joined
  <2>2. Window(Stream("client"), "client", PIECES * 0, 0)'
    BY <2>1 DEF Window, PIECES
  <2>3. (Proper("client") => Numbered(Given("client")) /\ Len(Given("client")) = 0)'
    BY <1>14a, <1>2, Zenon
  <2>4. Reads("client", 0, 0)'
    BY <1>2, <1>10, <1>11, <1>13, <2>2, <2>3 DEF Reads, Open
  <2>5. Keys("client")'
    BY <1>10, <1>11 DEF Keys
  <2>6. 0 \in 0 .. sent'["client"] + 1 /\ 0 \in 0 .. PIECES * (sent'["client"] + 1)
    BY <1>2, <1>13 DEF PIECES
  <2>7. QED
    BY <2>4, <2>5, <2>6, Zenon DEF Connected
<1>18. Connected("server")'
  <2>1. Stream("server")' = fr
    <3>1. Stream("server")' = Joined(<<>>, x, y)
      BY <1>2, <1>10, <1>11, <1>12, Zenon DEF Stream
    <3>2. <<>> \o x = x
      BY <1>6, ConcatEmptySeq
    <3>3. QED
      BY <1>7, <3>1, <3>2, Zenon DEF Joined
  <2>2. Window(Stream("server"), "server", PIECES * 0, PIECES)'
    <3>1. Window(Stream("server")', "server", 0, PIECES)
      BY <1>4, <2>1, Zenon
    <3>2. QED
      BY ONLY <3>1 DEF Window, Piece, Message, NoMessage, PIECES, EslKey, AddrKey, Merged
  <2>3. (Proper("server") => Numbered(Given("server")) /\ Len(Given("server")) = 0)'
    BY <1>14a, <1>2, Zenon
  <2>4. Reads("server", 0, PIECES)'
    BY <1>2, <1>10, <1>11, <1>13, <2>2, <2>3 DEF Reads, Open, PIECES
  <2>5. Keys("server")'
    BY <1>10, <1>11 DEF Keys
  <2>6. 0 \in 0 .. sent'["server"] + 1 /\ PIECES \in 0 .. PIECES * (sent'["server"] + 1)
    BY <1>2, <1>13 DEF PIECES
  <2>7. QED
    BY <2>4, <2>5, <2>6, Zenon DEF Connected
<1>19. QED
  BY <1>2, <1>10, <1>11, <1>14, <1>15, <1>16, <1>17, <1>18 DEF EInv

-----------------------------------------------------------------------------
(* The invariant.                                                          *)

LEMMA EslInit == Init => EInv
<1>1. SUFFICES ASSUME Init PROVE EInv
  OBVIOUS
<1>2. ASSUME NEW s \in Sides
      PROVE  /\ sk[s] = Unused /\ wire[s] = <<>> /\ sent[s] = 0 /\ got[s] = <<>>
             /\ sk[s].pc = "off"
  BY <1>1 DEF Init, Unused
<1>3. Typed
  <2>1. <<>> \in Seq(Msg) /\ <<>> \in Seq(PieceType)
    OBVIOUS
  <2>2. Unused \in Descriptor
    <3>1. Unused = [Unused EXCEPT !.proc = <<>>]
      BY DEF Unused
    <3>2. QED
      BY <2>1, <3>1, ClosedType, Zenon
  <2>3. sk \in [Sides -> Descriptor]
    BY <1>1, <2>2 DEF Init
  <2>4. wire \in [Sides -> Seq(PieceType)] /\ got \in [Sides -> Seq(Msg)]
    BY <1>1, <2>1, Zenon DEF Init
  <2>5. sent \in [Sides -> Nat] /\ conns \in Nat
    BY <1>1 DEF Init
  <2>6. early \in [Sides -> BOOLEAN] /\ stale \in [Sides -> BOOLEAN] /\ cut \in [Sides -> BOOLEAN]
    BY <1>1, Zenon DEF Init
  <2>7. QED
    BY <2>3, <2>4, <2>5, <2>6 DEF Typed
<1>4. Bounded
  BY <1>2, EslAssumption DEF Bounded
<1>5. ASSUME NEW s \in Sides PROVE Calls(s) /\ Ordered(s)
  BY <1>2, <1>5 DEF Calls, Open, Unused, Ordered, Numbered
<1>6. QED
  BY <1>2, <1>3, <1>4, <1>5 DEF EInv

LEMMA EslNext ==
  ASSUME EInv, [Next]_vars
  PROVE  EInv'
<1>1. Typed /\ \A s \in Sides : Calls(s)
  BY DEF EInv
<1>2. CASE Connect
  BY <1>2, Connects
<1>3. CASE Accept
  <2>1. sk["server"].pc = "accept" /\ sk["server"].pc # "off" /\ "server" \in Sides
        /\ UNCHANGED <<conns, sent, got, early, stale, cut>>
    BY <1>3 DEF Accept, Sides
  <2>2. CASE Shut("server", Unused)
    BY <2>1, <2>2, Shuts
  <2>3. CASE ~Shut("server", Unused)
    <3>1. PICK key \in {{}, EslKey, {"other"}} :
            WriteBuf("server", [sk["server"] EXCEPT !.pc = "ready", !.key = key],
                     Frame("PRIV", AddrKey, NoMessage),
                     Room("server", Frame("PRIV", AddrKey, NoMessage)))
      BY <1>3, <2>3, Zenon DEF Accept
    <3>2. QED
      BY <2>1, <3>1, Accepts
  <2>4. QED
    BY <2>2, <2>3
<1>4. ASSUME NEW s \in Sides, Close(s) PROVE EInv'
  BY <1>4, Shuts DEF Close, Ready
<1>5. ASSUME NEW s \in Sides, Write(s) PROVE EInv'
  <2>1. sent[Peer(s)] < MaxData
    <3>1. sent["client"] \in Nat /\ sent["server"] \in Nat /\ MaxData \in Nat
      BY <1>1, EslAssumption DEF Typed, Sides
    <3>2. QED
      BY <1>5, <3>1 DEF Write, Peer
  <2>2. CASE sk[s].crypt
    <3>1. WriteData(s, sk[s]) /\ UNCHANGED <<conns, got, early, stale, cut>>
          /\ sk[s].pc \in {"ready", "write"}
      BY <1>5, <2>2 DEF Write, Ready
    <3>2. QED
      BY <2>1, <2>2, <3>1, WritesData
  <2>3. CASE ~sk[s].crypt
    <3>1. /\ Ready(s) /\ sk' = [sk EXCEPT ![s] = Reading(sk[s], "write")]
          /\ early' = [early EXCEPT ![s] = TRUE]
          /\ UNCHANGED <<wire, sent, conns, got, stale, cut>>
      BY <1>5, <2>3, Zenon DEF Write
    <3>2. QED
      BY <2>1, <3>1, BeginsReading
  <2>4. QED
    BY <2>2, <2>3
<1>6. ASSUME NEW s \in Sides, Verify(s) PROVE EInv'
  <2>1. /\ Ready(s) /\ sk' = [sk EXCEPT ![s] = Reading(sk[s], "verify")]
        /\ early' = [early EXCEPT ![s] = TRUE]
        /\ UNCHANGED <<wire, sent, conns, got, stale, cut>>
    BY <1>6, Zenon DEF Verify
  <2>2. QED
    BY <2>1, BeginsReading
<1>7. ASSUME NEW s \in Sides, Read(s) PROVE EInv'
  <2>1. /\ Ready(s) /\ sk' = [sk EXCEPT ![s] = Reading(sk[s], "read")]
        /\ UNCHANGED <<wire, sent, conns, got, early, stale, cut>>
    BY <1>7, Zenon DEF Read
  <2>2. QED
    BY <2>1, BeginsReading
<1>8. ASSUME NEW s \in Sides, ReadB(s) PROVE EInv'
  <2>1. /\ Ready(s) /\ sk' = [sk EXCEPT ![s] = Reading(sk[s], "readb")]
        /\ got' = [got EXCEPT ![s] = Given(s)]
        /\ UNCHANGED <<wire, sent, conns, early, stale, cut>>
    BY <1>8, Zenon DEF ReadB, Given
  <2>2. QED
    BY <2>1, BeginsReading
<1>9. ASSUME NEW s \in Sides, WriteResume(s) PROVE EInv'
  <2>1. sk[s].pc = "write" /\ sent[Peer(s)] < MaxData /\ Open(s)
    BY <1>1, <1>9 DEF WriteResume, Calls, Open
  <2>2. CASE sk[s].crypt
    <3>1. WriteData(s, sk[s]) /\ UNCHANGED <<conns, got, early, stale, cut>>
      BY <1>9, <2>2, Zenon DEF WriteResume
    <3>2. QED
      BY <2>1, <2>2, <3>1, WritesData
  <2>3. CASE ~sk[s].crypt
    <3>1. /\ sk' = [sk EXCEPT ![s].pc = "ready"]
          /\ UNCHANGED <<wire, sent, conns, got, early, stale, cut>>
      BY <1>9, <2>3, Zenon DEF WriteResume
    <3>2. FALSE \in BOOLEAN /\ cut' = IF FALSE THEN [cut EXCEPT ![s] = TRUE] ELSE cut
      BY <3>1, Zenon
    <3>3. QED
      BY <2>1, <3>1, <3>2, Returns
  <2>4. QED
    BY <2>2, <2>3
<1>10. ASSUME NEW s \in Sides, FlushFails(s) PROVE EInv'
  <2>1. /\ sk' = [sk EXCEPT ![s].pc = "ready"] /\ Open(s)
        /\ UNCHANGED <<wire, sent, conns, got, early, stale>>
    BY <1>10 DEF FlushFails, Open
  <2>2. TRUE \in BOOLEAN /\ cut' = IF TRUE THEN [cut EXCEPT ![s] = TRUE] ELSE cut
    BY <1>10, Zenon DEF FlushFails
  <2>3. QED
    BY <2>1, <2>2, Returns
<1>11. CASE UNCHANGED vars
  <2>1. /\ sk' = sk /\ wire' = wire /\ conns' = conns /\ sent' = sent /\ got' = got
        /\ early' = early /\ stale' = stale /\ cut' = cut
    BY <1>11 DEF vars
  <2>2. Typed' /\ Bounded'
    BY <2>1, Zenon DEF EInv, Typed, Bounded
  <2>3. ASSUME NEW s \in Sides PROVE Calls(s)' /\ (sk[s].pc = "off" => Ordered(s))'
    <3>1. Calls(s) /\ (sk[s].pc = "off" => Ordered(s))
      BY DEF EInv
    <3>2. Calls(s)'
      BY <2>1, <3>1, Zenon DEF Calls, Open
    <3>3. (sk[s].pc = "off" => Ordered(s))'
      BY <2>1, <3>1 DEF Ordered, Proper, Numbered, Message
    <3>4. QED
      BY <3>2, <3>3
  <2>4. ASSUME NEW s \in Sides, sk[s].pc # "off" PROVE Connected(s)'
    <3>1. Connected(s)
      BY <2>4 DEF EInv
    <3>2. Keys(s)' /\ Stream(s)' = Stream(s) /\ Given(s)' = Given(s)
      BY <2>1, <3>1, Zenon DEF Connected, Keys, Stream, Given
    <3>3. /\ Open(Peer(s))' => Open(Peer(s))
          /\ (sk[Peer(s)].pc = "accept")' => sk[Peer(s)].pc = "accept"
          /\ Proper(s)' => Proper(s)
      BY <2>1, Zenon DEF Open, Proper
    <3>4. QED
      BY <1>1, <2>1, <2>2, <3>1, <3>2, <3>3, StaysConnected
  <2>5. QED
    BY <2>1, <2>2, <2>3, <2>4 DEF EInv
<1>12. QED
  BY <1>2, <1>3, <1>4, <1>5, <1>6, <1>7, <1>8, <1>9, <1>10, <1>11, Flushes, EndsReading,
     WaitsForMore, ReadsCtrl, ReadsData DEF Next, Step

LEMMA EslInvariant == Spec => []EInv
<1>1. Init => EInv
  BY EslInit
<1>2. EInv /\ [Next]_vars => EInv'
  BY EslNext
<1>3. QED
  BY <1>1, <1>2, PTL DEF Spec

(* The descriptors and the buffers keep their types and bounds: what       *)
(* write() takes never exceeds the connection, and no side writes more     *)
(* messages than it may.                                                   *)
THEOREM EslTypes == Spec => []TypeOK
<1>1. EInv => TypeOK
  <2>1. SUFFICES ASSUME EInv, NEW s \in Sides
                 PROVE  /\ sk[s].pc \in {"off", "accept", "ready", "loop", "write", "flush"}
                        /\ sk[s].key \subseteq {"eslkey", "addr", "other"}
                        /\ Len(wire[s]) <= CAP /\ sent[s] <= MaxData
    BY DEF TypeOK
  <2>2. Typed /\ Len(wire[s]) <= CAP /\ sent[s] <= MaxData
    BY <2>1 DEF EInv, Bounded
  <2>3. QED
    BY <2>1, <2>2, Parts
<1>2. QED
  BY <1>1, EslInvariant, PTL

(* A data frame is decoded with the key it was encoded with, whichever     *)
(* side's handshake frame is read first and however frames are cut:        *)
(* esl_read_data never closes a connection for a wrong checksum.           *)
THEOREM EslDecodes == Spec => []Decodes
<1>1. EInv => Decodes
  <2>1. SUFFICES ASSUME EInv, NEW s \in Sides, Complete(s), First(s).mode = "DATA"
                 PROVE  First(s).key = sk[s].key
    BY DEF Decodes
  <2>2. Connected(s)
    BY <2>1 DEF EInv, Complete
  <2>3. PICK f \in 0 .. sent[s] + 1, b \in 0 .. PIECES * (sent[s] + 1) : Reads(s, f, b)
    BY <2>2 DEF Connected
  <2>4. QED
    BY <2>1, <2>3, DataFrame
<1>2. QED
  BY <1>1, EslInvariant, PTL

(* The application is given the messages of its connection once and in the *)
(* order they were written, whichever of esl_read and esl_readb it calls.  *)
THEOREM EslInOrder == Spec => []InOrder
<1>1. EInv => InOrder
  <2>1. SUFFICES ASSUME EInv, NEW s \in Sides, Proper(s)
                 PROVE  /\ Len(got[s]) <= sent[s]
                        /\ got[s] = [k \in 1 .. Len(got[s]) |-> Message(k)]
    BY DEF InOrder
  <2>2. Len(got[s]) <= sent[s] /\ Numbered(got[s])
    BY <2>1, ConnectedOrdered DEF Ordered
  <2>3. got[s] \in Seq(Msg)
    BY <2>1, Parts DEF EInv
  <2>4. PICK u \in Seq(Msg) : u = got[s]
    BY <2>3, Zenon
  <2>5. u = [k \in 1 .. Len(u) |-> u[k]]
    BY <2>4, LenProperties
  <2>6. \A k \in 1 .. Len(u) : u[k] = Message(k)
    BY <2>2, <2>4 DEF Numbered
  <2>7. u = [k \in 1 .. Len(u) |-> Message(k)]
    BY <2>5, <2>6
  <2>8. QED
    BY <2>2, <2>4, <2>7, Zenon
<1>2. QED
  BY <1>1, EslInvariant, PTL
=============================================================================

------------------------------- MODULE ShEsl -------------------------------
(***************************************************************************)
(* The encrypted socket layer (net/shnet_esl.c) over the buffered sockets  *)
(* of shnet_read.c, shnet_write.c, shnet_connect.c, shnet_accept.c and     *)
(* shnet_close.c: a client and a server, one connection after the other    *)
(* on the same descriptors, each side a process with one thread.           *)
(*                                                                         *)
(* Frames cross the connection in pieces.  The layer buffers what it reads *)
(* (recv_buff), what it decoded for esl_read (proc_buff) and what it could *)
(* not write yet (send_buff).  One step of esl_readb is one turn of its    *)
(* loop.  A key is a set of secrets, and shkey_xor their symmetric         *)
(* difference.  The connection itself is external: bytes arrive in order   *)
(* and are lost only with the connection.                                  *)
(***************************************************************************)
EXTENDS Naturals, Sequences

CONSTANTS
  CAP,          \* pieces the connection holds in one direction
  MaxData,      \* bound on the messages written in a connection
  MaxConns      \* bound on the connections

ASSUME EslAssumption ==
  /\ CAP \in Nat \ {0} /\ MaxData \in Nat /\ MaxConns \in Nat

Sides == {"client", "server"}

Peer(s) == IF s = "client" THEN "server" ELSE "client"

VARIABLES
  sk,           \* _sk_table of each side's descriptor, and its call
  wire,         \* wire[s]: the pieces on their way to s
  conns,        \* number of connections made
  sent,         \* history: sent[s] messages were written for s
  got,          \* history: the messages that s was given
  early,        \* history: s wrote or verified before the handshake
  stale,        \* history: a connection of s began with old data
  cut           \* history: s gave up a write with a frame half written

vars == <<sk, wire, conns, sent, got, early, stale, cut>>

(* The keys: the one the client chose, the one made of its address.        *)
EslKey == {"eslkey"}

AddrKey == {"addr"}

Xor(k, l) == (k \ l) \union (l \ k)

(* A frame is cut in three: less than the four bytes esl_readb looks at,   *)
(* less than the frame, and the rest.                                      *)
PIECES == 3

Frame(mode, key, msg) ==
  [k \in 1..PIECES |-> [mode |-> mode, key |-> key, msg |-> msg]]

(* A message: the connection it was written in and its number.             *)
Message(n) == [conn |-> conns, n |-> n]

NoMessage == [conn |-> 0, n |-> 0]

(* A descriptor that is not in use; then: what esl_readb was called for.   *)
Unused ==
  [pc |-> "off", crypt |-> FALSE, key |-> {}, recv |-> <<>>, send |-> <<>>,
   proc |-> <<>>, then |-> "none"]

Init ==
  /\ sk = [s \in Sides |-> Unused]
  /\ wire = [s \in Sides |-> <<>>]
  /\ conns = 0
  /\ sent = [s \in Sides |-> 0]
  /\ got = [s \in Sides |-> <<>>]
  /\ early = [s \in Sides |-> FALSE]
  /\ stale = [s \in Sides |-> FALSE]
  /\ cut = [s \in Sides |-> FALSE]

-----------------------------------------------------------------------------
(* Sockets.                                                                *)

Open(s) == sk[s].pc \notin {"off", "accept"}

Ready(s) == sk[s].pc = "ready"

(* A mutant of Room for TypeOK: the result of write() is not looked at.    *)
RoomIgnored(s, buf) == Len(buf)

(* How many of the pieces in buf can be written to the peer of s.          *)
Room(s, buf) ==
  LET room == CAP - Len(wire[Peer(s)])
  IN  IF Open(Peer(s)) \/ sk[Peer(s)].pc = "accept"
      THEN (IF Len(buf) < room THEN Len(buf) ELSE room)
      ELSE 0

(* write() takes some of buf, or nothing when there is no room.            *)
Written(s, buf) == IF Room(s, buf) = 0 THEN {0} ELSE 1..Room(s, buf)

(* shnet_write_buf: the frame is added to send_buff and n pieces of that   *)
(* are written; r is the descriptor with the new call.                     *)
WriteBuf(s, r, frame, n) ==
  LET buf == r.send \o frame
  IN  /\ sk' = [sk EXCEPT ![s] = [r EXCEPT !.send = SubSeq(buf, n + 1, Len(buf))]]
      /\ wire' = [wire EXCEPT ![Peer(s)] = @ \o SubSeq(buf, 1, n)]

(* shnet_close: send_buff and recv_buff are freed, proc_buff is not.       *)
Closed(r) == [Unused EXCEPT !.proc = r.proc]

(* What the peer has not read of a connection is still there for it; what  *)
(* was on its way to s is lost.  r: the descriptor that s uses next.       *)
Shut(s, r) ==
  /\ sk' = [sk EXCEPT ![s] = r]
  /\ wire' = [wire EXCEPT ![s] = <<>>]

(* The application closes its side.                                        *)
Close(s) ==
  /\ Ready(s)
  /\ Shut(s, Closed(sk[s]))
  /\ UNCHANGED <<conns, sent, got, early, stale, cut>>

-----------------------------------------------------------------------------
(* The handshake.                                                          *)

(* esl_connect: the descriptor gets the client's key, which goes to the    *)
(* server; the connection waits in the server's queue.                     *)
Connect ==
  /\ conns < MaxConns
  /\ \A s \in Sides : sk[s].pc = "off"
  /\ conns' = conns + 1
  /\ LET frame == Frame("CERT", EslKey, NoMessage)
         n     == IF CAP < PIECES THEN CAP ELSE PIECES
         c     == sk["client"]
     IN  /\ sk' = [client |-> [c EXCEPT !.pc = "ready", !.key = EslKey,
                                        !.send = SubSeq(frame, n + 1, PIECES)],
                   server |-> [sk["server"] EXCEPT !.pc = "accept"]]
         /\ wire' = [client |-> <<>>, server |-> SubSeq(frame, 1, n)]
  /\ sent' = [s \in Sides |-> 0]
  /\ got' = [s \in Sides |-> <<>>]
  /\ early' = [s \in Sides |-> FALSE]
  /\ stale' = [s \in Sides |-> sk[s].proc # <<>>]
  /\ cut' = [s \in Sides |-> FALSE]

(* esl_accept: the server sends the key of the address; its own key is     *)
(* that of the listening socket, blank, unless the application gives the   *)
(* connection one (esl_key_set).  esl_control has no return statement: its *)
(* result is what shnet_write_buf left, an error when the client is gone;  *)
(* esl_accept then returns without the connection and does not close it:   *)
(* nobody uses that descriptor again, and the next connection has another. *)
Accept ==
  LET frame == Frame("PRIV", AddrKey, NoMessage)
  IN  /\ sk["server"].pc = "accept"
      /\ \/ \E key \in {{}, EslKey, {"other"}} :
                WriteBuf("server", [sk["server"] EXCEPT !.pc = "ready", !.key = key],
                         frame, Room("server", frame))
         \/ ~Open("client") /\ Shut("server", Unused)
      /\ UNCHANGED <<conns, sent, got, early, stale, cut>>

-----------------------------------------------------------------------------
(* Writing.                                                                *)

(* A mutant of Reading for InOrder: proc_buff is appended to the caller's  *)
(* buffer and not cleared.                                                 *)
ReadingKeeps(r, then) == [r EXCEPT !.pc = "loop", !.then = then]

(* esl_readb begins: unless it reads into proc_buff, what that holds goes  *)
(* to the caller's buffer, or nowhere.                                     *)
Reading(r, then) ==
  [r EXCEPT !.pc = "loop", !.then = then, !.proc = IF then = "read" THEN @ ELSE <<>>]

(* esl_write_data: the message is encoded with the key of the descriptor.  *)
(* r is the descriptor as it is when the data is written.                  *)
WriteData(s, r) ==
  /\ LET frame == Frame("DATA", r.key, Message(sent[Peer(s)] + 1))
     IN  \E n \in Written(s, r.send \o frame) :
           WriteBuf(s, [r EXCEPT !.pc = "flush"], frame, n)
  /\ sent' = [sent EXCEPT ![Peer(s)] = @ + 1]

(* esl_write before the handshake first reads, into no buffer.  MaxData    *)
(* bounds the calls.                                                       *)
Write(s) ==
  /\ Ready(s) /\ sent["client"] + sent["server"] < MaxData
  /\ IF sk[s].crypt
     THEN WriteData(s, sk[s]) /\ UNCHANGED early
     ELSE /\ sk' = [sk EXCEPT ![s] = Reading(@, "write")]
          /\ early' = [early EXCEPT ![s] = TRUE]
          /\ UNCHANGED <<wire, sent>>
  /\ UNCHANGED <<conns, got, stale, cut>>

(* ... and writes only if that has completed the handshake.                *)
WriteResume(s) ==
  /\ sk[s].pc = "write"
  /\ IF sk[s].crypt
     THEN WriteData(s, sk[s])
     ELSE sk' = [sk EXCEPT ![s].pc = "ready"] /\ UNCHANGED <<wire, sent>>
  /\ UNCHANGED <<conns, got, early, stale, cut>>

(* esl_verify does so too.                                                 *)
Verify(s) ==
  /\ Ready(s) /\ ~sk[s].crypt
  /\ sk' = [sk EXCEPT ![s] = Reading(@, "verify")]
  /\ early' = [early EXCEPT ![s] = TRUE]
  /\ UNCHANGED <<wire, conns, sent, got, stale, cut>>

(* shnet_write_flush: more is written; the call ends when all is.          *)
Flush(s) ==
  LET buf == sk[s].send
      n   == Room(s, buf)
  IN  /\ sk[s].pc = "flush"
      /\ n > 0 \/ buf = <<>>
      /\ sk' = [sk EXCEPT ![s].send = SubSeq(buf, n + 1, Len(buf)),
                          ![s].pc = IF n = Len(buf) THEN "ready" ELSE "flush"]
      /\ wire' = [wire EXCEPT ![Peer(s)] = @ \o SubSeq(buf, 1, n)]
      /\ UNCHANGED <<conns, sent, got, early, stale, cut>>

(* Three minutes without room, or an error as the peer has closed: what is *)
(* left stays in send_buff.                                                *)
FlushFails(s) ==
  /\ sk[s].pc = "flush"
  /\ sk[s].send # <<>> /\ Room(s, sk[s].send) = 0
  /\ sk' = [sk EXCEPT ![s].pc = "ready"]
  /\ cut' = [cut EXCEPT ![s] = TRUE]
  /\ UNCHANGED <<wire, conns, sent, got, early, stale>>

-----------------------------------------------------------------------------
(* Reading.                                                                *)

(* esl_read: decoded data goes to proc_buff.                               *)
Read(s) ==
  /\ Ready(s)
  /\ sk' = [sk EXCEPT ![s] = Reading(@, "read")]
  /\ UNCHANGED <<wire, conns, sent, got, early, stale, cut>>

(* esl_readb: it goes to the buffer of the application, after what         *)
(* esl_read left.                                                          *)
ReadB(s) ==
  /\ Ready(s)
  /\ sk' = [sk EXCEPT ![s] = Reading(@, "readb")]
  /\ got' = [got EXCEPT ![s] = @ \o sk[s].proc]
  /\ UNCHANGED <<wire, conns, sent, early, stale, cut>>

(* What shnet_read_buf returns: recv_buff with all that has arrived.       *)
Received(s) == sk[s].recv \o wire[s]

(* A mutant of LoopEnd for ReadEnds: the loop is left only with part of a  *)
(* frame, so a read without data waits for some.                           *)
LoopEndData(s) ==
  /\ sk[s].pc = "loop"
  /\ Len(Received(s)) = 1
  /\ sk' = [sk EXCEPT ![s] =
       [@ EXCEPT !.pc = IF sk[s].then = "write" THEN "write" ELSE "ready",
                 !.then = "none", !.recv = Received(s)]]
  /\ wire' = [wire EXCEPT ![s] = <<>>]
  /\ UNCHANGED <<conns, sent, got, early, stale, cut>>

(* esl_readb ends when it sees less than four bytes, or shnet_read_buf has *)
(* nothing as the connection ended.  esl_read then returns a part of       *)
(* proc_buff, here one message.                                            *)
LoopEnd(s) ==
  LET r     == sk[s]
      ended == [r EXCEPT !.pc = IF r.then = "write" THEN "write" ELSE "ready",
                         !.then = "none", !.recv = Received(s)]
      some  == r.then = "read" /\ r.proc # <<>>
  IN  /\ r.pc = "loop"
      /\ Len(Received(s)) < 2
      /\ wire' = [wire EXCEPT ![s] = <<>>]
      /\ sk' = [sk EXCEPT ![s] =
                  IF some THEN [ended EXCEPT !.proc = Tail(r.proc)] ELSE ended]
      /\ got' = IF some THEN [got EXCEPT ![s] = Append(@, Head(r.proc))] ELSE got
      /\ UNCHANGED <<conns, sent, early, stale, cut>>

(* A frame that is not complete: the loop turns until the rest arrives.    *)
LoopWait(s) ==
  /\ sk[s].pc = "loop"
  /\ wire[s] # <<>>
  /\ Len(Received(s)) \in 2..(PIECES - 1)
  /\ sk' = [sk EXCEPT ![s].recv = Received(s)]
  /\ wire' = [wire EXCEPT ![s] = <<>>]
  /\ UNCHANGED <<conns, sent, got, early, stale, cut>>

(* The frame esl_readb looks at, and the rest of recv_buff.                *)
First(s) == Received(s)[1]

Rest(s) == SubSeq(Received(s), PIECES + 1, Len(Received(s)))

Complete(s) == sk[s].pc = "loop" /\ Len(Received(s)) >= PIECES

(* A mutant of LoopCtrl for Decodes: the server merges the client's key    *)
(* with its own instead of the key of the address.                         *)
LoopCtrlOwnKey(s) ==
  /\ Complete(s)
  /\ First(s).mode \in {"CERT", "PRIV"}
  /\ sk' = [sk EXCEPT ![s] =
       [@ EXCEPT !.key = Xor(First(s).key, @), !.crypt = TRUE, !.recv = Rest(s)]]
  /\ wire' = [wire EXCEPT ![s] = <<>>]
  /\ UNCHANGED <<conns, sent, got, early, stale, cut>>

(* esl_read_ctrl.  The server closes the connection when it has a key and  *)
(* the client sent another.                                                *)
LoopCtrl(s) ==
  LET r     == sk[s]
      cert  == First(s).mode = "CERT"
      own   == IF cert THEN AddrKey ELSE r.key
  IN  /\ Complete(s)
      /\ First(s).mode \in {"CERT", "PRIV"}
      /\ IF cert /\ r.key # {} /\ r.key # First(s).key
         THEN Shut(s, Closed(sk[s]))
         ELSE /\ sk' = [sk EXCEPT ![s] =
                   [r EXCEPT !.key = Xor(First(s).key, own), !.crypt = TRUE,
                             !.recv = Rest(s)]]
              /\ wire' = [wire EXCEPT ![s] = <<>>]
      /\ UNCHANGED <<conns, sent, got, early, stale, cut>>

(* A mutant of LoopData for Delivered: recv_buff is cleared, not trimmed.  *)
LoopDataClears(s) ==
  LET msg == First(s).msg
  IN  /\ Complete(s)
      /\ First(s).mode = "DATA"
      /\ sk' = [sk EXCEPT ![s] =
           [@ EXCEPT !.recv = <<>>,
                     !.proc = IF sk[s].then = "read" THEN Append(@, msg) ELSE @]]
      /\ wire' = [wire EXCEPT ![s] = <<>>]
      /\ got' = IF sk[s].then = "readb" THEN [got EXCEPT ![s] = Append(@, msg)]
                                        ELSE got
      /\ UNCHANGED <<conns, sent, early, stale, cut>>

(* esl_read_data.  The connection is closed when the checksum of the       *)
(* decoded data is wrong.                                                  *)
LoopData(s) ==
  LET r   == sk[s]
      msg == First(s).msg
  IN  /\ Complete(s)
      /\ First(s).mode = "DATA"
      /\ IF First(s).key # r.key
         THEN Shut(s, Closed(sk[s])) /\ UNCHANGED got
         ELSE /\ sk' = [sk EXCEPT ![s] =
                   [r EXCEPT !.recv = Rest(s),
                             !.proc = IF r.then = "read" THEN Append(r.proc, msg) ELSE r.proc]]
              /\ wire' = [wire EXCEPT ![s] = <<>>]
              /\ got' = IF r.then = "readb" THEN [got EXCEPT ![s] = Append(@, msg)]
                                            ELSE got
      /\ UNCHANGED <<conns, sent, early, stale, cut>>

-----------------------------------------------------------------------------
Step(s) ==
  \/ WriteResume(s) \/ Flush(s) \/ FlushFails(s)
  \/ LoopEnd(s) \/ LoopWait(s) \/ LoopCtrl(s) \/ LoopData(s)

Next ==
  \/ Connect
  \/ Accept
  \/ \E s \in Sides :
       \/ Close(s) \/ Write(s) \/ Verify(s) \/ Read(s) \/ ReadB(s)
       \/ Step(s)

(* Calls go on, connections are accepted, and both applications keep       *)
(* reading.                                                                *)
Spec ==
  /\ Init /\ [][Next]_vars
  /\ WF_vars(Accept)
  /\ \A s \in Sides : WF_vars(Step(s)) /\ SF_vars(Read(s) \/ ReadB(s))

-----------------------------------------------------------------------------
(* Properties.                                                             *)

(* Types of the descriptors and the wire.                                  *)
TypeOK ==
  \A s \in Sides :
    /\ sk[s].pc \in {"off", "accept", "ready", "loop", "write", "flush"}
    /\ sk[s].key \subseteq {"eslkey", "addr", "other"}
    /\ Len(wire[s]) <= CAP
    /\ sent[s] <= MaxData

(* s has neither written nor verified before the handshake was complete    *)
(* (both read into no buffer, and drop the data behind the handshake), and *)
(* its descriptor had no data of a connection before.                      *)
Proper(s) == ~early[s] /\ ~stale[s]

(* However frames are cut on their way, and whichever of esl_read and      *)
(* esl_readb the application calls (proc_buff is handed from one to the    *)
(* other), it is given the messages of this connection once and in the     *)
(* order they were written.                                                *)
InOrder ==
  \A s \in Sides :
    Proper(s) => /\ Len(got[s]) <= sent[s]
                 /\ got[s] = [k \in 1..Len(got[s]) |-> Message(k)]

(* Whichever side's handshake frame is read first, and whatever key the    *)
(* server required, a data frame that has arrived was encoded with the key *)
(* its reader has: esl_read_data never closes a connection for a wrong     *)
(* checksum.                                                               *)
Decodes ==
  \A s \in Sides :
    Complete(s) /\ First(s).mode = "DATA" => First(s).key = sk[s].key

(* The connection has ended, or the peer gave up a write half way.         *)
Torn(s) == cut[Peer(s)] \/ ~Open(s) \/ ~Open(Peer(s))

(* What esl_write wrote is given to the application of the peer while both *)
(* sides stay connected and read.                                          *)
Delivered ==
  \A s \in Sides :
    Len(got[s]) < sent[s] ~> (Len(got[s]) >= sent[s] \/ ~Proper(s) \/ Torn(s))

(* esl_readb returns, although it turns until a frame is complete: what is *)
(* missing of it arrives unless the connection is lost.  (With part of a   *)
(* frame in recv_buff and the connection reset the loop never ends, as     *)
(* shnet_read_buf reports the reset only when it has no data.)             *)
ReadEnds == \A s \in Sides : sk[s].pc = "loop" ~> (sk[s].pc # "loop" \/ Torn(s))
=============================================================================

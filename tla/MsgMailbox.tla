----------------------------- MODULE MsgMailbox -----------------------------
(***************************************************************************)
(* What a message queue with one receiver promises its callers: a bounded  *)
(* first-in first-out mailbox.  A full mailbox refuses a message or, with  *)
(* the overflow flag, gives up its oldest one; an empty mailbox says so;   *)
(* the receiver gets exactly what the sender sent.                         *)
(***************************************************************************)
EXTENDS Naturals, Sequences

CONSTANTS
  Capacity,    \* messages the mailbox holds
  Senders,
  Contents,
  NoSender,    \* source of the message "nothing received yet"
  MayBeTooBig  \* whether callers try messages larger than the queue

VARIABLES
  box,         \* the unread messages, oldest first
  overflow,
  ret,         \* result of the last call
  got          \* the last message received

vars == <<box, overflow, ret, got>>

Init ==
  /\ box = <<>>
  /\ overflow = FALSE
  /\ ret = "0"
  /\ got = [src |-> NoSender, bytes |-> {}]

Send(m) ==
  /\ UNCHANGED <<overflow, got>>
  /\ \/ /\ Len(box) < Capacity
        /\ box' = Append(box, m)
        /\ ret' = "0"
     \/ /\ Len(box) = Capacity
        /\ overflow
        /\ box' = Append(Tail(box), m)
        /\ ret' = "0"
     \/ /\ Len(box) = Capacity
        /\ ~overflow
        /\ ret' = "SHERR_AGAIN"
        /\ UNCHANGED box

SendTooBig ==
  /\ MayBeTooBig
  /\ ret' = "SHERR_INVAL"
  /\ UNCHANGED <<box, overflow, got>>

Receive ==
  /\ UNCHANGED overflow
  /\ \/ /\ box = <<>>
        /\ ret' = "SHERR_NOMSG"
        /\ UNCHANGED <<box, got>>
     \/ /\ box # <<>>
        /\ box' = Tail(box)
        /\ got' = [src |-> Head(box).src, bytes |-> {Head(box).val}]
        /\ ret' = "0"

SetOverflow(value) ==
  /\ overflow' = value
  /\ UNCHANGED <<box, ret, got>>

Next ==
  \/ \E src \in Senders, v \in Contents : Send([src |-> src, val |-> v])
  \/ SendTooBig
  \/ Receive
  \/ \E value \in BOOLEAN : SetOverflow(value)

Spec == Init /\ [][Next]_vars

=============================================================================

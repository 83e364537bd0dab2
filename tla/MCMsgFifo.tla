----------------------------- MODULE MCMsgFifo ------------------------------
(***************************************************************************)
(* The message queue as the library's daemons use it: one receiver, and    *)
(* messages of one size of which the data area holds a whole table.  The   *)
(* queue is then a mailbox.                                                *)
(***************************************************************************)
EXTENDS ShMsgQueue, Sequences

(* The unread messages in the order shmsg_read_map meets them.             *)
BoxOf ==
  [k \in 1 .. Cardinality(Occupied(q)) |->
     LET i == (q.read_idx + k - 1) % MAX_MESSAGES_PER_QUEUE
     IN [src |-> q.msg[i].src, val |-> q.msg[i].val]]

Mailbox == INSTANCE MsgMailbox WITH
  Capacity <- MAX_MESSAGES_PER_QUEUE,
  Senders <- Peers,
  Contents <- Values,
  NoSender <- Blank,
  MayBeTooBig <- \E size \in Sizes : size >= DATA_SIZE,
  box <- BoxOf,
  overflow <- q.overflow

(* Every call of shmsg_write, shmsg_read and shmsgctl is a call of the     *)
(* mailbox: order, content, refusal and overflow are those of MsgMailbox.  *)
IsMailbox == Mailbox!Spec

=============================================================================

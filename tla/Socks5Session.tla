--------------------------- MODULE Socks5Session ---------------------------
(***************************************************************************)
(* What one ss-local session promises its SOCKS5 client and its upstream, *)
(* with bytes and buffering abstracted away:                              *)
(*   - the client first gets the method reply, then exactly one reply to  *)
(*     its request;                                                       *)
(*   - only a request answered with success opens the relay, and nothing  *)
(*     reaches the upstream before the success reply has been sent;       *)
(*   - payload flows in either direction only while relaying;             *)
(*   - a closed session is closed for good.                               *)
(***************************************************************************)
EXTENDS Sequences, SequencesExt

CONSTANTS
  MethodReply,     \* the method-selection reply (05 00)
  SuccessReply,    \* the reply that opens the relay (05 00 00 01 ...)
  RefusalReplies   \* replies after which the session ends

VARIABLES
  phase,     \* "greeting", "request", "relay" or "closed"
  replies,   \* handshake replies delivered to the client, in order
  down,      \* payload delivered to the client after the replies
  up         \* everything delivered to the upstream

vars == <<phase, replies, down, up>>

Init ==
  /\ phase = "greeting"
  /\ replies = <<>> /\ down = <<>> /\ up = <<>>

(* The greeting is answered and the session waits for the request. *)
Greet ==
  /\ phase = "greeting"
  /\ phase' = "request"
  /\ replies' = Append(replies, MethodReply)
  /\ UNCHANGED <<down, up>>

(* The request is refused; the refusal may or may not reach the client. *)
Refuse ==
  /\ phase = "request"
  /\ phase' = "closed"
  /\ \E r \in RefusalReplies : replies' \in {replies, Append(replies, r)}
  /\ UNCHANGED <<down, up>>

(* The request is accepted: success reply, and possibly the first part   *)
(* of the payload forwarded at once; the relay may fail in that same     *)
(* step, which closes the session.                                        *)
Accept ==
  /\ phase = "request"
  /\ phase' \in {"relay", "closed"}
  /\ replies' = Append(replies, SuccessReply)
  /\ IsPrefix(up, up')
  /\ UNCHANGED down

(* More bytes are delivered to the upstream, or to the client. *)
Forward ==
  /\ phase = "relay"
  /\ IsStrictPrefix(up, up')
  /\ UNCHANGED <<phase, replies, down>>

Return ==
  /\ phase = "relay"
  /\ IsStrictPrefix(down, down')
  /\ UNCHANGED <<phase, replies, up>>

(* Either side may end the session at any time. *)
Close ==
  /\ phase # "closed"
  /\ phase' = "closed"
  /\ UNCHANGED <<replies, down, up>>

Next == Greet \/ Refuse \/ Accept \/ Forward \/ Return \/ Close

Spec == Init /\ [][Next]_vars

=============================================================================

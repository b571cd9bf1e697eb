---------------------------- MODULE RemoteTimers ----------------------------
(***************************************************************************)
(* The two libev timers of one ss-local remote, against a discrete clock. *)
(*                                                                         *)
(* new_remote (local.c 691-693) initialises                               *)
(*   send_ctx->watcher: after = timeout, repeat = 0         (connect)     *)
(*   recv_ctx->watcher: after = timeout, repeat = timeout*60 (idle)       *)
(* The send timer is started when connect() is issued (262) and stopped   *)
(* when the connect completes (625), which also starts the recv timer     *)
(* (626).  remote_recv_cb restarts the recv timer with ev_timer_again     *)
(* before it reads (556).  Either timer firing runs remote_timeout_cb,    *)
(* which tears the session down (537-548), and so does every error or    *)
(* EOF path of the session callbacks.                                      *)
(*                                                                         *)
(* A timer is its remaining time, or Off.  The clock advances one second  *)
(* at a time, and never past an armed timer's expiry: a due timer's       *)
(* callback runs before time moves on (libev invokes every expired timer  *)
(* in the next loop iteration).  The session's payload and io are kept    *)
(* only as far as they decide when remote_recv_cb can run: the recv       *)
(* watcher is stopped while downstream data waits for the client.        *)
(* The connect path is the one taken with fast open off or for a direct   *)
(* remote (254-262); the fast-open path starts no timer and is checked in *)
(* LocalSession.                                                           *)
(***************************************************************************)
EXTENDS Integers

CONSTANTS
  T,             \* listener->timeout, in seconds
  MaxRecvCalls   \* bound on the calls of remote_recv_cb in one behaviour

ASSUME T \in Nat \ {0} /\ MaxRecvCalls \in Nat

Off == -1

RecvRepeatZero == 0

(* The repeat of the recv timer, timeout * 60 (692-693). *)
RecvRepeat == T * 60

(* The clock only matters up to one second past the longest deadline; the *)
(* ages saturate there.                                                     *)
AgeCap == RecvRepeat + 1

VARIABLES
  stage,           \* server->stage: 0, 1 or 5
  alive,           \* server and remote not yet freed
  connecting,      \* connect() issued (262), remote not yet connected
  connected,       \* remote->send_ctx->connected
  send_timer,      \* remote->send_ctx->watcher: seconds left, or Off
  recv_timer,      \* remote->recv_ctx->watcher: seconds left, or Off
  server_recv_io,  \* server->recv_ctx->io armed
  remote_send_io,  \* remote->send_ctx->io armed
  remote_recv_io,  \* remote->recv_ctx->io armed
  server_send_io,  \* server->send_ctx->io armed (downstream data pending)
  since_connect,   \* seconds since connect() was issued
  since_recv,      \* seconds since the connect completed or remote_recv_cb last ran
  recv_calls       \* calls of remote_recv_cb so far

timers == <<send_timer, recv_timer>>
io == <<server_recv_io, remote_send_io, remote_recv_io, server_send_io>>
ages == <<since_connect, since_recv, recv_calls>>
vars == <<stage, alive, connecting, connected, timers, io, ages>>

(* libev: ev_timer_again restarts a timer at now + repeat when repeat > 0, *)
(* whether it was active or not, and stops it otherwise.                    *)
TimerAgain(repeat) == IF repeat > 0 THEN repeat ELSE Off

(* close_and_free_remote and close_and_free_server: every timer and       *)
(* watcher is stopped and both structs are freed (715-725, 782-790).       *)
CloseAndFree ==
  /\ alive' = FALSE
  /\ send_timer' = Off /\ recv_timer' = Off
  /\ server_recv_io' = FALSE /\ remote_send_io' = FALSE
  /\ remote_recv_io' = FALSE /\ server_send_io' = FALSE
  /\ UNCHANGED <<stage, connecting, connected, ages>>

(* accept_cb: new_server, and only the server's reader armed (860-878). *)
Init ==
  /\ stage = 0 /\ alive = TRUE
  /\ connecting = FALSE /\ connected = FALSE
  /\ send_timer = Off /\ recv_timer = Off
  /\ server_recv_io = TRUE /\ remote_send_io = FALSE
  /\ remote_recv_io = FALSE /\ server_send_io = FALSE
  /\ since_connect = 0 /\ since_recv = 0 /\ recv_calls = 0

(* server_recv_cb, stage 0: the method reply is sent and the session      *)
(* waits for the request; a read error or EOF closes it.  No timer.       *)
Greeting ==
  /\ alive /\ server_recv_io /\ stage = 0
  /\ \/ stage' = 1 /\ UNCHANGED <<alive, connecting, connected, timers, io, ages>>
     \/ CloseAndFree

(* server_recv_cb, stage 1: connect_to_remote creates the remote with its *)
(* two timers initialised but not started (new_remote), the fake reply is *)
(* sent and the stage becomes 5; a bad request, an unresolved remote, a   *)
(* short reply or UDP ASSOCIATE closes the session.                       *)
Request ==
  /\ alive /\ server_recv_io /\ stage = 1
  /\ \/ stage' = 5 /\ UNCHANGED <<alive, connecting, connected, timers, io, ages>>
     \/ CloseAndFree

(* server_recv_cb, stage 5, first client data (250-262): connect() is     *)
(* issued, the server's reader is stopped, the remote's writer and the    *)
(* connect timer are started.                                              *)
StartConnect ==
  /\ send_timer' = T
  /\ connecting' = TRUE /\ since_connect' = 0
  /\ server_recv_io' = FALSE /\ remote_send_io' = TRUE
  /\ UNCHANGED <<stage, alive, connected, recv_timer, remote_recv_io,
                 server_send_io, since_recv, recv_calls>>

(* server_recv_cb in stage 5 (206-329).  EOF or a read error closes the   *)
(* session.  Data before the connect starts it.  Data after it is sent to *)
(* the remote: a send error closes, EAGAIN or a short send stops the      *)
(* server's reader and arms the remote's writer; a full send changes     *)
(* nothing this model keeps.  Client traffic never touches a timer.      *)
server_recv_cb ==
  /\ alive /\ server_recv_io /\ stage = 5
  /\ \/ CloseAndFree
     \/ /\ ~connecting /\ ~connected
        /\ StartConnect
     \/ /\ connected
        /\ server_recv_io' = FALSE /\ remote_send_io' = TRUE
        /\ UNCHANGED <<stage, alive, connecting, connected, timers,
                       remote_recv_io, server_send_io, ages>>

(* remote_send_cb while not connected (619-642): getpeername succeeds,    *)
(* the connect timer is stopped, the idle timer started with after =     *)
(* timeout and the remote's reader armed; then the buffered request      *)
(* bytes are sent (644-673): fully, which re-arms the server's reader,    *)
(* partly or EAGAIN, which keeps the writer armed, or with an error,      *)
(* which closes.  A failed getpeername closes the session.                *)
ConnectDoneNoIdleTimer ==
  /\ connecting' = FALSE /\ connected' = TRUE
  /\ send_timer' = Off /\ recv_timer' = recv_timer
  /\ remote_recv_io' = TRUE /\ since_recv' = 0
  /\ \/ server_recv_io' = TRUE /\ remote_send_io' = FALSE
     \/ UNCHANGED <<server_recv_io, remote_send_io>>
  /\ UNCHANGED <<stage, alive, server_send_io, since_connect, recv_calls>>

ConnectDone ==
  /\ connecting' = FALSE /\ connected' = TRUE
  /\ send_timer' = Off /\ recv_timer' = T
  /\ remote_recv_io' = TRUE /\ since_recv' = 0
  /\ \/ server_recv_io' = TRUE /\ remote_send_io' = FALSE
     \/ UNCHANGED <<server_recv_io, remote_send_io>>
  /\ UNCHANGED <<stage, alive, server_send_io, since_connect, recv_calls>>

remote_send_cb ==
  /\ alive /\ remote_send_io
  /\ \/ CloseAndFree
     \/ connecting /\ ConnectDone
     \/ /\ connected
        /\ server_recv_io' = TRUE /\ remote_send_io' = FALSE
        /\ UNCHANGED <<stage, alive, connecting, connected, timers,
                       remote_recv_io, server_send_io, ages>>

(* remote_recv_cb (550-611).  ev_timer_again on the recv timer comes      *)
(* first, whatever recv then returns.  EOF, a read error, a failed       *)
(* decrypt or a send error closes the session; EAGAIN on the read or a    *)
(* full send to the client leaves the watchers as they are; EAGAIN or a   *)
(* short send to the client stops the remote's reader and arms the        *)
(* server's writer.                                                        *)
remote_recv_cb ==
  /\ alive /\ remote_recv_io /\ recv_calls < MaxRecvCalls
  /\ \/ CloseAndFree
     \/ /\ recv_timer' = TimerAgain(RecvRepeat) /\ since_recv' = 0
        /\ recv_calls' = recv_calls + 1
        /\ \/ UNCHANGED io
           \/ remote_recv_io' = FALSE /\ server_send_io' = TRUE
                /\ UNCHANGED <<server_recv_io, remote_send_io>>
        /\ UNCHANGED <<stage, alive, connecting, connected, send_timer,
                       since_connect>>

(* server_send_cb with downstream data pending (500-535): a full send     *)
(* re-arms the remote's reader, an error closes the session.              *)
server_send_cb ==
  /\ alive /\ server_send_io
  /\ \/ CloseAndFree
     \/ /\ server_send_io' = FALSE /\ remote_recv_io' = TRUE
        /\ UNCHANGED <<stage, alive, connecting, connected, timers,
                       server_recv_io, remote_send_io, ages>>

(* remote_timeout_cb, run for whichever timer expired (537-548). *)
remote_timeout_cb ==
  /\ alive /\ (send_timer = 0 \/ recv_timer = 0)
  /\ CloseAndFree

(* One second passes.  It cannot pass an armed timer's expiry; before the *)
(* connect no state of the model depends on time.                         *)
Dec(t) == IF t = Off THEN Off ELSE t - 1
Older(a) == IF a < AgeCap THEN a + 1 ELSE a

Tick ==
  /\ alive /\ (connecting \/ connected)
  /\ send_timer # 0 /\ recv_timer # 0
  /\ send_timer' = Dec(send_timer) /\ recv_timer' = Dec(recv_timer)
  /\ since_connect' = IF connecting THEN Older(since_connect) ELSE since_connect
  /\ since_recv' = IF connected THEN Older(since_recv) ELSE since_recv
  /\ UNCHANGED <<stage, alive, connecting, connected, io, recv_calls>>

(* After the teardown the session has no watcher left. *)
Terminated == ~alive /\ UNCHANGED vars

Next ==
  \/ Greeting \/ Request \/ server_recv_cb \/ remote_send_cb
  \/ remote_recv_cb \/ server_send_cb \/ remote_timeout_cb
  \/ Tick \/ Terminated

Spec == Init /\ [][Next]_vars

(* Time passes, and libev runs the callback of a due timer. *)
FairSpec == Spec /\ WF_vars(Tick) /\ WF_vars(remote_timeout_cb)

-----------------------------------------------------------------------------
(* Properties *)

(* Deadlines of the two timers: a connect that has been pending for more *)
(* than timeout seconds, and a connected remote that has been quiet for  *)
(* longer than its idle deadline, are already torn down.  The idle       *)
(* deadline is timeout until remote_recv_cb first runs and timeout*60    *)
(* after that, because ev_timer_again restarts with the repeat (556).    *)
IdleBounded ==
  alive =>
    /\ connecting => since_connect <= T
    /\ connected => since_recv <= IF recv_calls = 0 THEN T ELSE RecvRepeat

(* Once the connect is issued, the session is eventually torn down, even *)
(* if neither peer ever sends or closes again: some timer stays armed    *)
(* through the connect, the handshake of the watchers and every          *)
(* ev_timer_again.                                                         *)
ConnectedEventuallyFreed == connecting ~> ~alive

(* spec.md 4.5 and scenario 5: after one upstream byte, a session stalled *)
(* for T seconds is closed within one tick of the timer.                  *)
IdleWithinT ==
  (alive /\ connected /\ recv_calls >= 1) => since_recv <= T

=============================================================================

--------------------------- MODULE LocalListener ---------------------------
(***************************************************************************)
(* The process around the sessions of src/local.c: accept_cb creating     *)
(* servers, each session's life from the request to its teardown, the     *)
(* process-wide `connections` list (cork_dllist) they are registered in,  *)
(* the process-wide `fast_open` flag they share, and the shutdown path:   *)
(* signal_cb breaks ev_run and free_connections sweeps the list.          *)
(*                                                                         *)
(* A session's relay is abstracted to its lifecycle (LocalSession has the *)
(* details); the heap is modelled object by object: every struct server   *)
(* and struct remote is live or freed, with the two cross pointers        *)
(* server->remote and remote->server, and a freed object keeps the value   *)
(* its list link had, which is what a read after free may return.         *)
(***************************************************************************)
EXTENDS Naturals, Sequences, SequencesExt, FiniteSets

CONSTANTS
  Ids,          \* the addresses malloc may hand out for a struct server
  MaxAccepts,   \* bound on accept_cb calls
  FastOpen,     \* the -fast-open option
  FreedReads    \* what a read of a freed entries.next can return:
                \* "intact" (the old link) and/or "garbage" (allocator data)

ASSUME MaxAccepts \in Nat /\ FastOpen \in BOOLEAN
ASSUME FreedReads # {} /\ FreedReads \subseteq {"intact", "garbage"}

End == "list_end"   \* &connections.head, the sentinel cork_dllist_is_end tests

VARIABLES
  phase,        \* "running" (ev_run), "sweep" (free_connections), "done", "crashed";
                \* LocalMain adds "startup", "usage" and "fatal"
  srv,          \* srv[c]: the struct server at address c is "live" or "free"
  stage,        \* stage[c]: server->stage, 0, 1 or 5
  rem,          \* rem[c]: the struct remote of session c is "live" or "free"
  srv_remote,   \* srv_remote[c]: server->remote != NULL
  rem_server,   \* rem_server[c]: remote->server != NULL
  conns,        \* the connections list, head to tail
  link,         \* link[c]: the entries.next field of the server at c
  curr,         \* free_connections' cursor
  hdr,          \* hdr[c]: session c holds an ss_addr_to_send allocation
  leaked,       \* ss_addr_to_send allocations no live session holds
  fast_open,    \* the process-wide flag
  accepts,      \* accept_cb calls so far
  read_freed,   \* a freed object has been read
  wrote_freed   \* a freed object has been written

heap == <<srv, rem, srv_remote, rem_server, conns, link, hdr, leaked,
          read_freed, wrote_freed>>
vars == <<phase, stage, curr, fast_open, accepts, heap>>

(* The entries.next of each element of a list, as cork_dllist keeps it: *)
(* the last one points at the sentinel.                                   *)
(* Seeded fault: the last element links back to the first (no sentinel). *)
LinksNoEnd(l) == [i \in 1..Len(l) |-> IF i < Len(l) THEN l[i + 1] ELSE l[1]]
Links(l) == [i \in 1..Len(l) |-> IF i < Len(l) THEN l[i + 1] ELSE End]
(* Only the elements still on the list have their link updated; a removed *)
(* element keeps the next pointer it had (cork_dllist_remove).            *)
Relink(l) ==
  [c \in Ids |-> IF c \in ToSet(l)
                 THEN Links(l)[CHOOSE i \in 1..Len(l) : l[i] = c]
                 ELSE link[c]]

-----------------------------------------------------------------------------
(* The heap as one record, so a teardown can be written as the sequence  *)
(* of frees the code performs within one callback.                       *)
H == [srv |-> srv, rem |-> rem, srv_remote |-> srv_remote,
      rem_server |-> rem_server, conns |-> conns, hdr |-> hdr,
      leaked |-> leaked, wrote_freed |-> wrote_freed]

(* free_remote: unlink from the server (a write into it), free. *)
(* Seeded fault: free_remote leaves server->remote pointing at it. *)
FreeRemoteNoUnlink(h, c) ==
  [h EXCEPT !.rem[c] = "free",
            !.wrote_freed = @ \/ (h.rem_server[c] /\ h.srv[c] = "free")]
FreeRemote(h, c) ==
  [h EXCEPT !.rem[c] = "free",
            !.srv_remote[c] = IF h.rem_server[c] THEN FALSE ELSE @,
            !.wrote_freed = @ \/ (h.rem_server[c] /\ h.srv[c] = "free")]

(* close_and_free_remote(remote): a no-op on NULL. *)
CloseAndFreeRemote(h, c, hasRemote) ==
  IF hasRemote THEN FreeRemote(h, c) ELSE h

(* Seeded fault: free_server forgets cork_dllist_remove. *)
CloseAndFreeServerNoRemove(h, c) ==
  [h EXCEPT !.srv[c] = "free",
            !.rem_server[c] = IF h.srv_remote[c] THEN FALSE ELSE @,
            !.wrote_freed = @ \/ (h.srv_remote[c] /\ h.rem[c] = "free"),
            !.hdr[c] = FALSE,
            !.leaked = IF h.hdr[c] THEN @ + 1 ELSE @]
(* close_and_free_server -> free_server: cork_dllist_remove, unlink the  *)
(* remote (a write into it), free.  ss_addr_to_send is not freed.        *)
CloseAndFreeServer(h, c) ==
  [h EXCEPT !.srv[c] = "free",
            !.conns = Remove(@, c),
            !.rem_server[c] = IF h.srv_remote[c] THEN FALSE ELSE @,
            !.wrote_freed = @ \/ (h.srv_remote[c] /\ h.rem[c] = "free"),
            !.hdr[c] = FALSE,
            !.leaked = IF h.hdr[c] THEN @ + 1 ELSE @]

(* Install a heap record as the next state. *)
SetHeap(h) ==
  /\ srv' = h.srv /\ rem' = h.rem
  /\ srv_remote' = h.srv_remote /\ rem_server' = h.rem_server
  /\ conns' = h.conns /\ hdr' = h.hdr /\ leaked' = h.leaked
  /\ wrote_freed' = h.wrote_freed
  /\ link' = Relink(h.conns)

(* The teardown every session callback performs on error, EOF or timeout: *)
(* close_and_free_remote(remote); close_and_free_server(server).          *)
Teardown(c) ==
  SetHeap(CloseAndFreeServer(CloseAndFreeRemote(H, c, srv_remote[c]), c))

-----------------------------------------------------------------------------
(* accept_cb: accept() (failure: return), new_server at a free address,  *)
(* cork_dllist_add to the tail of connections, start the recv watcher.   *)
accept_cb ==
  /\ phase = "running" /\ accepts < MaxAccepts
  /\ accepts' = accepts + 1
  /\ \/ UNCHANGED <<phase, stage, curr, fast_open, heap>>   \* accept() == -1
     \/ \E c \in Ids :
        /\ srv[c] = "free"
        /\ srv' = [srv EXCEPT ![c] = "live"]
        /\ stage' = [stage EXCEPT ![c] = 0]
        /\ srv_remote' = [srv_remote EXCEPT ![c] = FALSE]
        /\ conns' = Append(conns, c)
        /\ link' = Relink(Append(conns, c))
        /\ UNCHANGED <<phase, curr, fast_open, rem, rem_server, hdr, leaked,
                       read_freed, wrote_freed>>

(* server_recv_cb, stage 0: method reply, stage 1. *)
Greeting(c) ==
  /\ phase = "running" /\ srv[c] = "live" /\ stage[c] = 0
  /\ stage' = [stage EXCEPT ![c] = 1]
  /\ UNCHANGED <<phase, curr, fast_open, accepts, heap>>

(* connect_to_remote when getaddrinfo and socket succeed: new_remote,   *)
(* zeroed (remote->server == NULL).                                       *)
ConnectToRemote(h, c) == [h EXCEPT !.rem[c] = "live", !.rem_server[c] = FALSE]

(* server_recv_cb, stage 1.  UDP ASSOCIATE or an unsupported command:   *)
(* reply and tear down.  CONNECT: ss_addr_to_send = malloc, then a bad  *)
(* atyp or a failed connect_to_remote tears down, or new_remote and     *)
(* server->remote / remote->server are linked and the stage is 5.       *)
Request(c) ==
  /\ phase = "running" /\ srv[c] = "live" /\ stage[c] = 1
  /\ UNCHANGED <<phase, curr, fast_open, accepts, read_freed>>
  /\ \/ /\ Teardown(c)
        /\ UNCHANGED <<stage>>
     \/ LET h == [H EXCEPT !.hdr[c] = TRUE]
        IN \/ /\ SetHeap(CloseAndFreeServer(h, c))
              /\ UNCHANGED stage
           \/ /\ SetHeap([ConnectToRemote(h, c) EXCEPT !.srv_remote[c] = TRUE,
                                                  !.rem_server[c] = TRUE])
              /\ stage' = [stage EXCEPT ![c] = 5]

(* The first relay of a session under TCP Fast Open: sendto fails with  *)
(* ENOTCONN, fast_open = 0 for every later session, and this one is torn *)
(* down.                                                                  *)
FastOpenUnsupported(c) ==
  /\ phase = "running" /\ srv[c] = "live" /\ stage[c] = 5 /\ fast_open
  /\ fast_open' = FALSE
  /\ Teardown(c)
  /\ UNCHANGED <<phase, stage, curr, accepts, read_freed>>

(* Any callback of a session tearing it down (EOF, error, timeout). *)
SessionClose(c) ==
  /\ phase = "running" /\ srv[c] = "live"
  /\ Teardown(c)
  /\ UNCHANGED <<phase, stage, curr, fast_open, accepts, read_freed>>

(* signal_cb on SIGINT or SIGTERM: ev_unloop; ev_run returns and main    *)
(* calls free_connections, whose loop starts at cork_dllist_start.       *)
signal_cb ==
  /\ phase = "running"
  /\ phase' = "sweep"
  /\ curr' = IF conns = <<>> THEN End ELSE Head(conns)
  /\ UNCHANGED <<stage, fast_open, accepts, heap>>

(***************************************************************************)
(* One iteration of free_connections: remote = server->remote;            *)
(* close_and_free_server(server); close_and_free_remote(remote); then     *)
(* curr = curr->next, a read of the server just freed.  What that read    *)
(* returns is undefined: the link it held, or whatever the allocator      *)
(* wrote there, on which the next iteration faults.                       *)
(***************************************************************************)
(* Seeded fault: the sweep frees the server but not its remote. *)
SweepOneServerOnly(h, c, hasRemote) == CloseAndFreeServer(h, c)
SweepOne(h, c, hasRemote) ==
  CloseAndFreeRemote(CloseAndFreeServer(h, c), c, hasRemote)

FreeConnectionsStep ==
  /\ phase = "sweep" /\ curr # End
  /\ LET c == curr
     IN /\ SetHeap(SweepOne(H, c, srv_remote[c]))
        /\ read_freed' = TRUE
        /\ \/ "intact" \in FreedReads /\ curr' = link[c] /\ UNCHANGED phase
           \/ "garbage" \in FreedReads /\ phase' = "crashed" /\ UNCHANGED curr
  /\ UNCHANGED <<stage, fast_open, accepts>>

(* cork_dllist_is_end: the loop ends; main returns. *)
FreeConnectionsEnd ==
  /\ phase = "sweep" /\ curr = End
  /\ phase' = "done"
  /\ UNCHANGED <<stage, curr, fast_open, accepts, heap>>

(* The process has exited. *)
Exited ==
  /\ phase \in {"done", "crashed"}
  /\ UNCHANGED vars

-----------------------------------------------------------------------------
(* main before ev_run: cork_dllist_init(&connections), nothing allocated. *)
InitHeap ==
  /\ srv = [c \in Ids |-> "free"] /\ rem = [c \in Ids |-> "free"]
  /\ stage = [c \in Ids |-> 0]
  /\ srv_remote = [c \in Ids |-> FALSE] /\ rem_server = [c \in Ids |-> FALSE]
  /\ conns = <<>> /\ link = [c \in Ids |-> End] /\ curr = End
  /\ hdr = [c \in Ids |-> FALSE] /\ leaked = 0
  /\ accepts = 0
  /\ read_freed = FALSE /\ wrote_freed = FALSE

(* ev_run entered with the -fast-open option as the flag's value. *)
Init == phase = "running" /\ fast_open = FastOpen /\ InitHeap

Next ==
  \/ accept_cb \/ signal_cb
  \/ \E c \in Ids : Greeting(c) \/ Request(c) \/ FastOpenUnsupported(c)
                    \/ SessionClose(c)
  \/ FreeConnectionsStep \/ FreeConnectionsEnd \/ Exited

(* free_connections is a plain loop: once entered it keeps iterating. *)
Spec == Init /\ [][Next]_vars
FairSpec == Spec /\ WF_vars(FreeConnectionsStep) /\ WF_vars(FreeConnectionsEnd)

-----------------------------------------------------------------------------
(* The connections list holds exactly the live servers, each once, after *)
(* any interleaving of accepts, teardowns and address reuse (new_server's *)
(* cork_dllist_add against free_server's cork_dllist_remove).             *)
RegistryIsLiveSet ==
  phase # "crashed" =>
    /\ ToSet(conns) = {c \in Ids : srv[c] = "live"}
    /\ IsInjective(conns)

(* No teardown writes into an object it has already freed: free_remote  *)
(* and free_server each clear the other's back pointer, in whichever     *)
(* order a session callback or free_connections frees them.              *)
NoWriteAfterFree == ~wrote_freed

(* When free_connections returns normally every server and remote of    *)
(* the process has been freed (the shutdown sweep of spec section 5).    *)
AllFreedAtExit ==
  phase = "done" => \A c \in Ids : srv[c] = "free" /\ rem[c] = "free"

(* Once started, the shutdown sweep reaches the end of the list and main *)
(* returns (when the freed link reads back intact).                        *)
SweepTerminates == phase = "sweep" ~> phase = "done"

(* free_connections never reads a struct server it has freed. *)
NoReadAfterFree == ~read_freed

(* Tearing a session down frees everything it allocated, including the  *)
(* ss_addr_to_send buffer of its CONNECT (spec: teardown frees buffers). *)
AddrHeaderNotLeaked == leaked = 0

=============================================================================

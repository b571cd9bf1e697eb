------------------------------ MODULE LocalMain ------------------------------
(***************************************************************************)
(* The ss-local process from its entry point to the end of the event     *)
(* loop.  main (local.c 881-1139) parses the command line, fills what the *)
(* command line left unset from the -c config file, refuses an           *)
(* incomplete configuration, applies the defaults, binds the listener,   *)
(* gives every server without a port of its own the relay port, and      *)
(* enters ev_run; start_ss_local_server (1142-1260), the entry point of   *)
(* the library build, does the same from a profile.  Both write the       *)
(* process-wide fast_open that the sessions of LocalListener then read.   *)
(*                                                                         *)
(* Everything before ev_run is one step: no callback runs until the loop *)
(* is entered.  Option values are tokens, except the port and timeout    *)
(* strings, which are digit sequences because atoi and sprintf convert   *)
(* them.  read_jconf (jconf.c) is the constant ConfFiles.                *)
(***************************************************************************)
EXTENDS LocalListener

CONSTANTS
  Null,        \* the NULL char *
  Argvs,       \* command lines main is started with (fewer -s than MAX_REMOTE_NUM)
  ConfFiles,   \* ConfFiles[path]: the jconf_t read_jconf returns for -c path
  Profiles     \* the profile_t values start_ss_local_server is called with

VARIABLES
  entry,       \* [kind |-> "main", argv |-> ...] or [kind |-> "library", profile |-> ...]
  listen_ctx   \* the listen_ctx accept_cb is given, Null before main builds it

pvars == <<vars, entry, listen_ctx>>

(* The char * options main merges with the config file: -p remote_port,   *)
(* -l local_port, -k password, -t timeout (-b and -m merge the same way   *)
(* and reach nothing this model keeps).                                    *)
StrFields == {"p", "l", "k", "t"}

Digits == <<"0", "1", "2", "3", "4", "5", "6", "7", "8", "9">>
DigitVal(d) == CHOOSE i \in 0..9 : Digits[i + 1] = d

(* atoi: the value of the leading digits, 0 when there are none. *)
RECURSIVE AtoiFrom(_, _)
AtoiFrom(acc, s) ==
  IF s = <<>> \/ ~\E i \in 1..10 : Digits[i] = Head(s) THEN acc
  ELSE AtoiFrom(10 * acc + DigitVal(Head(s)), Tail(s))
Atoi(s) == AtoiFrom(0, s)

(* sprintf(buf, "%d", n) for n >= 0. *)
RECURSIVE Decimal(_)
Decimal(n) ==
  IF n < 10 THEN <<Digits[n + 1]>> ELSE Decimal(n \div 10) \o <<Digits[(n % 10) + 1]>>

(* The locals of main that the getopt loop writes (883-900). *)
ParseInit ==
  [remotes |-> <<>>, opt |-> [f \in StrFields |-> Null], fast_open |-> 0,
   conf_path |-> Null]

(* One getopt_long result (915-965): -s appends a server with no port,   *)
(* --fast-open sets the global, -c records the config path, the others   *)
(* overwrite their variable; an unknown option ('?') matches no case.    *)
Opt(st, a) ==
  CASE a.o = "s" ->
         [st EXCEPT !.remotes = Append(@, [host |-> a.arg, port |-> Null])]
    [] a.o = "fast-open" -> [st EXCEPT !.fast_open = 1]
    [] a.o = "c" -> [st EXCEPT !.conf_path = a.arg]
    [] a.o \in StrFields -> [st EXCEPT !.opt[a.o] = a.arg]
    [] OTHER -> st

Getopt(argv) == FoldLeft(Opt, ParseInit, argv)

(* Seeded fault: the config file's servers replace those of -s. *)
MergeAlways(st, conf) ==
  [st EXCEPT !.remotes = conf.remotes,
             !.opt = [f \in StrFields |-> IF @[f] = Null THEN conf[f] ELSE @[f]],
             !.fast_open = IF @ = 0 THEN conf.fast_open ELSE @]

(* The -c block (974-1004): the config file's servers only when no -s   *)
(* was given, and each option only where the command line left it NULL. *)
Merge(st, conf) ==
  [st EXCEPT !.remotes = IF Len(@) = 0 THEN conf.remotes ELSE @,
             !.opt = [f \in StrFields |-> IF @[f] = Null THEN conf[f] ELSE @[f]],
             !.fast_open = IF @ = 0 THEN conf.fast_open ELSE @]

Parsed(argv) ==
  LET st == Getopt(argv)
  IN IF st.conf_path = Null THEN st ELSE Merge(st, ConfFiles[st.conf_path])

(* 1021-1025: no server, no remote_port, no local_port or no password.  *)
Incomplete(st) ==
  \/ Len(st.remotes) = 0
  \/ \E f \in {"p", "l", "k"} : st.opt[f] = Null

(* 1027-1029: the default timeout is "10" (local_addr, 1031-1033, is not kept). *)
WithDefaults(st) ==
  [st EXCEPT !.opt["t"] = IF @ = Null THEN <<"1", "0">> ELSE @]

(* 1081-1087: while (remote_num > 0) { index = --remote_num; a NULL port *)
(* becomes remote_port; listen_ctx.remote_addr[index] = ... }.            *)
FillPorts(rs, port) ==
  [i \in DOMAIN rs |-> [rs[i] EXCEPT !.port = IF @ = Null THEN port ELSE @]]

(* 1077-1093: the listen_ctx main builds. *)
ListenCtx(st) ==
  [remotes |-> FillPorts(st.remotes, st.opt["p"]), timeout |-> Atoi(st.opt["t"])]

(* create_and_bind (133-180): getaddrinfo, then the first result that   *)
(* gets a socket and binds; -1 when getaddrinfo fails or none binds.     *)
(* listen() may fail after it.  Either failure is FATAL.                  *)
BindOutcomes == {"listening", "fatal"}

(* main up to ev_run (881-1114). *)
main_startup ==
  /\ phase = "startup" /\ entry.kind = "main"
  /\ LET st == Parsed(entry.argv)
     IN \/ /\ Incomplete(st)
           /\ phase' = "usage"
           /\ UNCHANGED <<fast_open, listen_ctx>>
        \/ /\ ~Incomplete(st)
           /\ \E b \in BindOutcomes :
                \/ b = "fatal" /\ phase' = "fatal"
                   /\ UNCHANGED <<fast_open, listen_ctx>>
                \/ b = "listening" /\ phase' = "running"
                   /\ listen_ctx' = ListenCtx(WithDefaults(st))
                   /\ fast_open' = (st.fast_open = 1)
  /\ UNCHANGED <<stage, curr, accepts, heap, entry>>

(* start_ss_local_server up to ev_run (1142-1240): one server, the      *)
(* profile's int ports printed with "%d", its timeout as is.            *)
start_ss_local_server ==
  /\ phase = "startup" /\ entry.kind = "library"
  /\ LET p == entry.profile
     IN \E b \in BindOutcomes :
          \/ b = "fatal" /\ phase' = "fatal"
             /\ UNCHANGED <<fast_open, listen_ctx>>
          \/ b = "listening" /\ phase' = "running"
             /\ listen_ctx' =
                  [remotes |-> <<[host |-> p.remote_host,
                                  port |-> Decimal(p.remote_port)]>>,
                   timeout |-> p.timeout]
             /\ fast_open' = (p.fast_open = 1)
  /\ UNCHANGED <<stage, curr, accepts, heap, entry>>

(* usage() or FATAL: exit before the loop. *)
StartupExited ==
  /\ phase \in {"usage", "fatal"}
  /\ UNCHANGED pvars

Entries ==
  {[kind |-> "main", argv |-> a] : a \in Argvs}
    \cup {[kind |-> "library", profile |-> p] : p \in Profiles}

(* The process at its entry point: the globals zero (fast_open = 0 at 83). *)
ProcessInit ==
  /\ phase = "startup" /\ fast_open = FALSE /\ InitHeap
  /\ entry \in Entries /\ listen_ctx = Null

(* The startup locals are left alone by every step of the loop. *)
InLoop(A) == A /\ UNCHANGED <<entry, listen_ctx>>

ProcessNext ==
  \/ main_startup \/ start_ss_local_server \/ StartupExited
  \/ InLoop(Next)

ProcessSpec == ProcessInit /\ [][ProcessNext]_pvars
ProcessFairSpec ==
  /\ ProcessSpec
  /\ WF_pvars(InLoop(FreeConnectionsStep)) /\ WF_pvars(InLoop(FreeConnectionsEnd))

-----------------------------------------------------------------------------
(* The configuration spec section 6 describes, computed from the entry:  *)
(* a command-line value (the last one given) over the config file's      *)
(* over the default; the -s servers in order, or the file's when there   *)
(* is none; the relay port for every server without a port of its own.  *)
Given(f) == {i \in DOMAIN entry.argv : entry.argv[i].o = f}
LastArg(f) == entry.argv[CHOOSE i \in Given(f) : \A j \in Given(f) : j <= i].arg
RefConf == IF Given("c") = {} THEN Null ELSE ConfFiles[LastArg("c")]
RefField(f) ==
  IF Given(f) # {} THEN LastArg(f)
  ELSE IF RefConf # Null /\ RefConf[f] # Null THEN RefConf[f]
  ELSE IF f = "t" THEN <<"1", "0">> ELSE Null
RefServers ==
  LET cli == SelectSeq(entry.argv, LAMBDA a : a.o = "s")
  IN IF cli # <<>> THEN [i \in DOMAIN cli |-> [host |-> cli[i].arg, port |-> Null]]
     ELSE RefConf.remotes
Seconds(s) == FoldLeft(LAMBDA acc, d : 10 * acc + DigitVal(d), 0, s)
RefCtx ==
  [remotes |-> [i \in DOMAIN RefServers |->
                  [host |-> RefServers[i].host,
                   port |-> IF RefServers[i].port # Null THEN RefServers[i].port
                            ELSE RefField("p")]],
   timeout |-> Seconds(RefField("t"))]
RefFastOpen ==
  (\E i \in DOMAIN entry.argv : entry.argv[i].o = "fast-open")
    \/ (RefConf # Null /\ RefConf.fast_open = 1)

(* When the event loop starts, listen_ctx and fast_open are the          *)
(* configuration above, whichever entry point built them: main's getopt *)
(* loop, -c merge, defaults and backwards port fill, or                 *)
(* start_ss_local_server's printed port.                                 *)
StartupKeepsPrecedence ==
  [][phase = "startup" /\ phase' = "running" =>
       IF entry.kind = "main"
       THEN listen_ctx' = RefCtx /\ fast_open' = RefFastOpen
       ELSE /\ Len(listen_ctx'.remotes) = 1
            /\ listen_ctx'.remotes[1].host = entry.profile.remote_host
            /\ Seconds(listen_ctx'.remotes[1].port) = entry.profile.remote_port
            /\ listen_ctx'.timeout = entry.profile.timeout
            /\ fast_open' = (entry.profile.fast_open = 1)]_pvars

=============================================================================

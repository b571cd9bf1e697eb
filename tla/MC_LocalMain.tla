---------------------------- MODULE MC_LocalMain ----------------------------
(* Command lines that reach each branch of main's startup: command line   *)
(* only, two servers with --fast-open, config file only, command line     *)
(* over config file, a repeated -p and -c, an unknown option, and two     *)
(* incomplete ones (no port, no password); two library profiles.          *)
EXTENDS LocalMain

CONSTANTS c1, c2, none

MC_Ids == {c1, c2}

Opt1(o, arg) == [o |-> o, arg |-> arg]
P80 == <<"8", "0">>
P443 == <<"4", "4", "3">>

MC_ConfFiles ==
  [f \in {"f1", "f2"} |->
     IF f = "f1"
     THEN [remotes |-> <<[host |-> "h3", port |-> none]>>, p |-> P443,
           l |-> "l", k |-> "k", t |-> <<"5">>, fast_open |-> 1]
     ELSE [remotes |-> <<[host |-> "h3", port |-> P80]>>, p |-> none,
           l |-> "l", k |-> none, t |-> none, fast_open |-> 0]]

MC_Argvs == {
  <<Opt1("s", "h1"), Opt1("p", P80), Opt1("l", "l"), Opt1("k", "k")>>,
  <<Opt1("s", "h1"), Opt1("s", "h2"), Opt1("p", P80), Opt1("l", "l"),
    Opt1("k", "k"), Opt1("fast-open", none)>>,
  <<Opt1("c", "f1")>>,
  <<Opt1("s", "h1"), Opt1("c", "f1"), Opt1("p", P80), Opt1("t", <<"3", "0">>)>>,
  <<Opt1("c", "f2"), Opt1("c", "f1"), Opt1("p", P80), Opt1("p", P443)>>,
  <<Opt1("s", "h2"), Opt1("?", none), Opt1("c", "f2"), Opt1("p", P443),
    Opt1("k", "k")>>,
  <<Opt1("c", "f2"), Opt1("k", "k")>>,
  <<Opt1("s", "h1"), Opt1("p", P80), Opt1("l", "l")>>}

MC_Profiles ==
  {[remote_host |-> "h1", remote_port |-> 8388, timeout |-> 60, fast_open |-> f]
     : f \in {0, 1}}
=============================================================================

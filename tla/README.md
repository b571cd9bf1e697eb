# TLA+ model of ss-local (src/local.c)

`ss-local` is the SOCKS5 front end of shadowsocks-libev. It is one
single-threaded libev loop. A client connects to the listener. The client
speaks SOCKS5 (greeting, then request). ss-local then opens a TCP connection
either to an ss-server or, for ACL-bypassed destinations, directly to the
target. After that it relays bytes in both directions, encrypting upstream and
decrypting downstream when the connection is relayed.

## Inventory of the system

| Part | Code (src/local.c) | State | Operations |
|---|---|---|---|
| Listener | `accept_cb` 860-878, `create_and_bind` 133-180 | listen fd, `listen_ctx` | accept, `new_server` |
| Client endpoint (`struct server`) | `new_server` 727-757, `free_server` 759-780 | `fd`, `stage`, `buf`, `buf_idx`, `buf_len`, recv/send io watchers, cipher ctx | `server_recv_cb` 195-498, `server_send_cb` 500-535 |
| SOCKS5 handshake | `server_recv_cb` stages 0 and 1 (330-496) | `stage` 0 → 1 → 5 | method select, CONNECT / UDP ASSOCIATE / unsupported, fake reply |
| Remote endpoint (`struct remote`) | `new_remote` 676-697, `connect_to_remote` 792-847 | `fd`, `buf`, `buf_idx`, `buf_len`, `direct`, `connected`, io watchers, two timers | `remote_recv_cb` 550-611, `remote_send_cb` 613-674, `remote_timeout_cb` 537-548 |
| Relay engine | stage 5 of `server_recv_cb` (228-329), `remote_recv_cb`, both send callbacks | the two buffers, four io watchers | partial sends, EAGAIN, back-pressure by stopping readers |
| TCP fast open | 255-298 | global `fast_open` | `sendto(MSG_FASTOPEN)` in place of `connect` |
| Timers | 537-548, 556, 619-628 | send (connect) timer, recv (idle) timer | connect deadline, idle deadline |
| Registry and teardown | `free_connections` 182-193, `close_and_free_*` 699-790 | the global `connections` list | close both sockets, free both structs |
| ACL | 432-443 | the ACL lists | direct or relayed choice |
| Cipher | `ss_encrypt` / `ss_decrypt` calls 237-241, 576-586 | `e_ctx`, `d_ctx` | encrypt, decrypt, which may fail |
| UDP relay | `udprelay_init` call in `main` | (another unit) | — |
| Startup | `main` 881-1139, `start_ss_local_server` 1142-1260, `signal_cb` 849-858 | config | option parsing, bind, run loop |

How they interact: `accept_cb` creates a `server` and arms its reader. In
stage 5 the reader of each side writes into the other side's buffer and sends
at once. If the send is short, the code stops that reader, arms the other
side's writer, and lets the writer drain `buf + buf_idx` before it re-arms the
reader. At most one buffer per direction is therefore in flight. The timers
bound the connect and the idle time of the remote. Any error or EOF closes both
sides.

## Modules

* `LocalSession.tla` models one client session from `accept_cb` until
  teardown, with its two peers as environment actions.
  * **State.** The `session` variables are `stage`, `direct`, `connected`,
    `fast_open`, the liveness of both structs, and a `crashed` flag for a NULL
    dereference. The `watchers` are the four io watchers and the two timers,
    modelled as armed or not. The `buffers` are `server->buf` and
    `remote->buf`, each a function `1..BUF_SIZE -> token` with its
    `idx`/`len`, so stale bytes stay visible. The `client` and `upstream`
    variables hold the peers' cursors and what they have received.
  * **Actions.** One action per libev callback: `server_recv_cb`,
    `server_send_cb`, `remote_recv_cb`, `remote_send_cb` and
    `remote_timeout_cb`. `Init` is the state `accept_cb` leaves. Each action
    is the whole callback, with helpers for its blocks: `HandleGreeting`,
    `HandleRequest`, `RelayToRemote`, `RemoteFlush`, `AfterConnect` and
    `CloseAndFree`.
  * **What each step may return.** A `recv` returns any size from 1 to what
    is available, or EOF. A `send` may be EAGAIN, an error, short or full.
    Resolution may fail (`ResolveMayFail`), and so may the cipher
    (`CipherMayFail`).
  * **Bytes.** A byte is an abstract token. Encryption tags a token and
    decryption removes the tag. A header byte read from an uninitialised or
    stale buffer may be any token (`Readings`).
* `MC_LocalSession.tla` gives the constants small values: 2 data tokens each
  way, and 2 destinations, one of them ACL-direct.
* `Socks5Session.tla` is the abstract contract of one session. It says nothing
  about bytes or buffers:
  * the phases are greeting, request, relay and closed;
  * the client gets one method reply, then exactly one reply to its request;
  * payload flows only in the relay phase, after the success reply;
  * a closed session stays closed.

  `LocalSession` instantiates it as `Abstract`. The refinement mapping is:
  * the phase is `server->stage`, or "closed" once the structs are freed or
    the process has crashed;
  * the replies are the first two tokens delivered to the client;
  * the payload is the rest of what the client received, plus `to_upstream`.

  `RefinesSocks5Session == Abstract!Spec` is checked as a `PROPERTY`.
* `LocalListener.tla` models the process around the sessions. Each session
  is reduced to its lifecycle: greeting, request, an optional fast-open
  ENOTCONN, then teardown. The heap is modelled object by object:
  * the state is `srv[c]`/`rem[c]` (live or freed), the cross pointers
    `server->remote` and `remote->server`, the `connections` list with each
    element's `entries.next` (`link`), the per-session `ss_addr_to_send`
    allocation, and the shared `fast_open` flag;
  * a teardown is the sequence of frees the code performs:
    `CloseAndFreeRemote` then `CloseAndFreeServer` in the session callbacks,
    and the reverse order in `free_connections`;
  * `signal_cb` ends the loop, and each `FreeConnectionsStep` is one loop
    iteration;
  * the read of `curr->next` from a freed server is undefined behaviour. It
    returns the old link (`"intact"`) or data the allocator wrote
    (`"garbage"`, after which the process faults), as chosen by the
    `FreedReads` constant.
* `MC_LocalListener.tla` (for the two listener violation runs) and
  `MC_LocalMain.tla` supply two server addresses, `c1` and `c2`. With
  `MaxAccepts = 4` accepts, both addresses are reused, so stale pointers and
  links to a reused address occur.

* `LocalMain.tla` models the process before the event loop. It extends
  `LocalListener`. Everything before `ev_run` is one step, `main_startup`
  or `start_ss_local_server`, because no callback can run until the loop
  is entered.
  * **main (881-1114).** The getopt loop is a fold of `Opt` over `argv`.
    The `-c` block is `Merge`: the config file's servers are used only when
    there was no `-s`, and each option only where the command line left it
    NULL. After that come the usage check (`Incomplete`), the default
    timeout, a bind or listen failure (FATAL), and the backwards port fill
    into `listen_ctx` (`FillPorts`, `Atoi`).
  * **start_ss_local_server.** It builds one server from a profile, and
    prints the port with `%d` (`Decimal`).
  * **Interaction with the listener.** Both entry points write the global
    `fast_open`, which the sessions of `LocalListener` then read and may
    clear. The listener's own `Init` is split so that `ProcessInit` can
    start from `phase = "startup"` with `fast_open = 0`.
  * **Data.** Option values are tokens. Port and timeout strings are digit
    sequences, because atoi and sprintf convert them. What `read_jconf`
    returns is the constant `ConfFiles`.
* `MC_LocalMain.tla` gives eight command lines and two library profiles.
  They cover:
  * the command line only;
  * two servers with `--fast-open`;
  * the config file only;
  * the command line over the config file;
  * repeated `-p` and `-c`;
  * an unknown option;
  * two incomplete configurations, one of them a config file whose server
    has its own port but no global port.
* `RemoteTimers.tla` models the two libev timers of one remote against a
  discrete clock.
  * **Timers.** A timer is the number of seconds it has left, or `Off`.
    `new_remote` (691-693) initialises both timers:
    * the send (connect) timer has after = `T` and repeat 0;
    * the recv (idle) timer has after = `T` and repeat `RecvRepeat = T * 60`.
  * **Actions.**
    * `StartConnect` (262) starts the connect timer.
    * `ConnectDone` (619-642) stops it and starts the idle timer.
    * `remote_recv_cb` first calls `TimerAgain` (556). In libev,
      `ev_timer_again` restarts the timer at now + repeat.
    * `remote_timeout_cb` fires when a timer reaches 0.
    * Every error or EOF path goes through `CloseAndFree`, which stops all
      timers and watchers.
  * **Clock.** `Tick` advances the clock one second, and never while a timer
    is due. libev runs an expired timer's callback in the next loop
    iteration.
  * **Watchers.** The four io watchers are kept because they decide when
    `remote_recv_cb` can run. A short send to the client stops the remote
    reader until `server_send_cb` drains the buffer.
  * **Ages.** `since_connect` and `since_recv` saturate at
    `AgeCap = 60T + 1`.
  * **Fast open.** Only the connect path (fast open off, or a direct remote)
    is here. The fast-open paths start no timer, and `LocalSession` checks
    them.
* `MC_RemoteTimers.tla` sets `T = 2` and `MaxRecvCalls = 2`. With these
  values the idle deadline before a read (2 s) and after one (120 s) differ,
  and the timer is restarted after a back-pressure stall.

## Runs

The bounds are `BUF_SIZE = 8`, 2 tokens of client data and 2 of upstream data.
This makes a 6-byte request plus data exceed what one read delivers. It also
allows a short send of the header and a second payload that can overwrite a
residual. Larger sizes only repeat the same interleavings.

| Run | Checks | Result |
|---|---|---|
| `relay` (fast open off, ACL on, resolve and cipher failures on) | `TypeOK`, `UpstreamIsClientStream`, `ClientStreamIntegrity`, `ReaderArmedOnlyWhenFlushed`, `TimerGuard`, `EventuallyFlushed` | passes |
| `tfo` (fast open on) | `ClientStreamIntegrity` (the type invariant is checked once, in `relay`) | passes |
| `tfo_short_sendto` | `UpstreamIsClientStream` | violated: a short `sendto` residual (288-296) is overwritten by the next client read |
| `tfo_no_deadline` | `TimerGuard` | violated: the fast-open paths start no timer (270, 296) |
| `tfo_enotconn` | `FallbackKeepsSession` | violated: ENOTCONN closes the session instead of falling back (278-286) |
| `direct_resolve_fail` | `NoNullDeref` | violated: `remote->direct = 1` on a NULL remote (435-436) |
| `fragmented_request` | `BufferBounds` | violated: `r -= 3 + addr_len` goes negative (425) |
| `listener` (`MC_LocalMain`: 8 command lines and 2 profiles, then 2 addresses and 4 accepts, freed links read back intact) | `RegistryIsLiveSet`, `NoWriteAfterFree`, `AllFreedAtExit`, `SweepTerminates`, `StartupKeepsPrecedence` | passes |
| `listener_sweep_uaf` | `NoReadAfterFree` | violated: `curr = curr->next` reads the server just freed (187) |
| `listener_addr_leak` | `AddrHeaderNotLeaked` | violated: `ss_addr_to_send` (367) is never freed |
| `timers` (T = 2, two `remote_recv_cb` calls) | `IdleBounded`, `ConnectedEventuallyFreed` | passes |
| `idle_after_read` | `IdleWithinT` | violated: after one upstream read the idle deadline is 60·T, not T (692, 556) |

`relay` and `tfo` also check `RefinesSocks5Session`.

What the properties say:

* `UpstreamIsClientStream` and `ClientStreamIntegrity` say that each peer
  receives a prefix of exactly what it should receive. Upstream that is the
  address header followed by the client data, encrypted unless the connection
  is direct. Downstream it is the replies followed by the upstream data.
* `ReaderArmedOnlyWhenFlushed` is the back-pressure rule: a reader is armed
  only when nothing of its direction is still pending.
* `TimerGuard` says that a live remote always has a deadline armed.
* `EventuallyFlushed` says that pending data is eventually delivered, unless
  the session is torn down.
* `RefinesSocks5Session` is about the order of replies and payload across all
  the callbacks.
* `RegistryIsLiveSet` says that the list holds exactly the live servers, each
  once, even when an address is reused.
* `NoWriteAfterFree` says that neither free order writes into a freed
  object. It holds only because `free_remote` and `free_server` each clear
  the other's back pointer.
* `AllFreedAtExit` and `SweepTerminates` say that the sweep frees everything
  and ends.
* `StartupKeepsPrecedence` is an action property. When the loop starts,
  `listen_ctx` and `fast_open` must equal a reference configuration written
  from spec section 6:
  * a command-line value (the last one given) wins over the config file's,
    which wins over the default;
  * the servers are the `-s` list in order, or else the file's;
  * every server without a port of its own gets the relay port.

  For the library entry, the printed port must read back as the profile's
  number. The reference is computed independently of main's sequence of
  getopt, merge, defaults and port fill.
* `IdleBounded` bounds how long a session can live:
  * a pending connect lives at most `T` seconds;
  * a connected remote lives at most `T` seconds after connecting, or
    `T * 60` seconds after `remote_recv_cb` last ran.

  Client traffic does not reset the idle timer, and neither does a remote
  reader stopped for back-pressure.
* `ConnectedEventuallyFreed` says that once `connect()` is issued, the
  session is eventually freed even if both peers go silent.
* `IdleWithinT` is spec scenario 5: a session stalled for `T` seconds after
  one upstream byte is closed. The code's `ev_timer_again` restarts the timer
  with the repeat, `timeout * 60`, so this property is violated.

In `listener`, `FreedReads = {"intact"}`: the garbage outcome only crashes
the process, which would make the sweep properties hold vacuously.
`listener_sweep_uaf` admits both outcomes.

## Fairness

`FairSpec` assumes weak fairness of `server_send_cb` and `remote_send_cb`.
libev calls every armed watcher whose fd is writable, and the peers keep
reading, so a writer that stays armed eventually runs. Reads, timeouts and the
peers' actions get no fairness: a client may stop sending, and a timer may not
fire before the data arrives. `LocalListener` (and `LocalMain`'s `ProcessFairSpec`) assumes weak fairness of the two steps of
`free_connections`: it is a plain loop with no event in between. Deadlock
checking is on. `RemoteTimers` assumes weak fairness of `Tick` and of
`remote_timeout_cb`: time passes, and libev runs the callback of an expired
timer. No peer action is fair. The final states stutter: `Terminated` after a teardown or a
crash, and `Exited` after `main` returns.

## Not modelled, and why

* The cryptography and the ACL matching are abstracted to tokens and a set.
* The UDP relay lives in another unit, outside `src/`.
* `LocalSession` models timers only as armed or not. Their durations are in
  `RemoteTimers`, which bounds the clock by `AgeCap` and the reads by
  `MaxRecvCalls`.
* No timer exists before the first client data in stage 5, so a stalled
  handshake lives forever. The spec gives no handshake deadline, so no
  property states one.
* In `main`, these have no state the model keeps: `daemonize`,
  `set_nofile`, signal setup, `enc_init`, `init_udprelay` and `run_as`.
  `read_jconf` lives in jconf.c, outside `src/`, so its result is an input.
* `MC_LocalMain`'s command lines stay below `MAX_REMOTE_NUM` `-s` options.
  `remote_addr[remote_num++]` (926) has no bound check, and overflowing it
  is undefined behaviour of the stack, so it is listed as a hazard.
* The timeouts in the command lines are numeric. `Atoi` turns a bad `-t`
  into 0, but the reference gives such a value no meaning. `timeout * 60`
  overflow is also only a hazard.
* The usage check wants a global `remote_port` even when every server from
  the config file has its own port. One command line reaches this exit, but
  no property states which configurations must be refused.
* Server selection (`rand() % remote_num`) is not modelled.

## Plan for later work

Done so far:
* `LocalListener`: the registry, the sweep, the leak and the shared flag.
* `Socks5Session`: the refinement.
* `RemoteTimers`: the timed deadlines.
* `LocalMain`: startup, composed with the listener.

Still to do:

1. **`Socks5Parse.tla`.** The request parser as operators over byte
   sequences (atyp, addr_len, name_len), checked against a reference
   definition over bounded inputs. This covers the fragmented and pipelined
   requests (lines 330-425).
2. **A byte-level abstract pipe**, with the payload decrypted and the header
   stripped, refined by `LocalSession`. It would extend `Socks5Session`'s
   `up`/`down` with their contents.
3. **Larger instances of `LocalSession`.** Three data tokens would let two
   short sends interleave in one direction.

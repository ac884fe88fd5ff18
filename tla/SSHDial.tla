------------------------------ MODULE SSHDial ------------------------------
(* One ssh host (sshutil/sshmgr.go, sshconfig.go): SSHDialer.newClient with  *)
(* its back-off over the wall clock, and the three rounds of DialSSH over    *)
(* the proxies.  SSHDialersMgr leaves both open.  newClient holds the lock   *)
(* of the dialer, so there is one call at a time.                            *)
EXTENDS Integers

CONSTANTS
  FirstWait,  \* seconds of waiting after the first failure (5)
  Proxies,    \* number of proxies, an empty list counting as one
  Keys,       \* keys that a host may show
  NoKey,      \* the host key of a configuration that names none
  MaxClock    \* bound of the clock

ASSUME SSHDialAssumption ==
  FirstWait \in Nat \ {0} /\ Proxies \in Nat \ {0} /\ MaxClock \in Nat /\ NoKey \notin Keys

VARIABLES
  clock,      \* time.Now().Unix()
  config,     \* the configured host key and whether it is checked
  last,       \* lastestConnectTime
  wait,       \* waitSeconds
  try,        \* attempts that a running DialSSH has made, -1 if none is running
  connected,  \* the last newClient that dialled returned a client
  reached,    \* history: one of its attempts met a trusted host and got through
  since       \* history: when the outage began, 0 if there is none

dialVars == <<clock, config, last, wait, try, connected, reached, since>>

\* HostMapToSSHConfig asks for a check exactly when a key is given; a
\* configuration that is read from JSON may combine the two in any way.
HostMapToSSHConfig(hostKey) == [hostKey |-> hostKey, verify |-> hostKey # NoKey]
SSHConfig == [hostKey : Keys \cup {NoKey}, verify : BOOLEAN]

\* Mutant: a key that is not to be verified is compared all the same.
HostKeyCallbackStrict(key) == key = config.hostKey

\* HostKeyCallback accepts the key of the host.  With a check asked for and no
\* key to check against it accepts none.
HostKeyCallback(key) ==
  \/ config.hostKey # NoKey /\ key = config.hostKey
  \/ config.hostKey = NoKey /\ ~config.verify

DialTypeOK ==
  /\ clock \in Nat \ {0} /\ last \in Nat /\ wait \in Nat /\ since \in Nat
  /\ config \in SSHConfig
  /\ try \in Nat \cup {-1}
  /\ connected \in BOOLEAN /\ reached \in BOOLEAN

DialInit ==
  /\ clock \in 1..MaxClock
  /\ config \in SSHConfig
  /\ last = 0 /\ wait = 0 /\ try = -1
  /\ connected = FALSE /\ reached = FALSE /\ since = 0

Refuses == last # 0 /\ clock - last < wait

\* Mutant: the waiting grows with every call, refused or not.
NewClientEager ==
  /\ try = -1
  /\ IF Refuses
     THEN wait' = 2 * wait /\ UNCHANGED <<last, try, connected, reached>>
     ELSE last' = clock /\ try' = 0 /\ connected' = FALSE /\ reached' = FALSE /\ UNCHANGED wait
  /\ UNCHANGED <<clock, config, since>>

\* newClient up to the dial; a call that refuses returns without a client.
NewClient ==
  /\ try = -1
  /\ IF Refuses
     THEN UNCHANGED <<last, try, connected, reached>>
     ELSE last' = clock /\ try' = 0 /\ connected' = FALSE /\ reached' = FALSE
  /\ UNCHANGED <<clock, config, wait, since>>

\* The host that shows this key is one that the configuration trusts: where it
\* has a key or asks for a check, the key is that one.
Trusted(key) == config.verify \/ config.hostKey # NoKey => key = config.hostKey

\* One call of dialSSH comes through to the host, which shows a key.  If it is
\* accepted and the rest of the handshake (the user's key, the connection)
\* succeeds, newClient returns the client.
Attempt(key, completes) ==
  /\ try \in 0..(3 * Proxies - 1)
  /\ reached' = (reached \/ (Trusted(key) /\ completes))
  /\ IF HostKeyCallback(key) /\ completes
     THEN try' = -1 /\ wait' = 0 /\ connected' = TRUE /\ since' = 0
     ELSE try' = try + 1 /\ UNCHANGED <<wait, connected, since>>
  /\ UNCHANGED <<clock, config, last>>

\* The proxy or the host does not answer.
NoAnswer ==
  /\ try \in 0..(3 * Proxies - 1)
  /\ try' = try + 1
  /\ UNCHANGED <<clock, config, last, wait, connected, reached, since>>

\* After three rounds DialSSH gives up, and newClient waits longer.
GiveUp ==
  /\ try = 3 * Proxies
  /\ try' = -1
  /\ wait' = IF wait <= 0 THEN FirstWait ELSE 2 * wait
  /\ since' = IF since = 0 THEN last ELSE since
  /\ UNCHANGED <<clock, config, last, connected, reached>>

\* Time passes, during a dial as well, or the clock is set, perhaps back.
SetClock ==
  /\ clock' \in 1..MaxClock
  /\ UNCHANGED <<config, last, wait, try, connected, reached, since>>

DialNext ==
  \/ NewClient \/ NoAnswer \/ GiveUp \/ SetClock
  \/ \E key \in Keys, completes \in BOOLEAN : Attempt(key, completes)

DialSpec == DialInit /\ [][DialNext]_dialVars
-----------------------------------------------------------------------------
\* A dialer refuses to dial only during an outage, and only until the time
\* since its last attempt has passed what the outage had lasted by then, plus
\* the first wait; or the clock was set back, until it has caught up.
BackOffBounded ==
  try = -1 /\ Refuses =>
    clock < last \/ (since # 0 /\ clock - last < (last - since) + FirstWait)

\* A dial returns a client if and only if one of its attempts came to a host that
\* the configuration trusts and completed its handshake there.
DialOutcome == try = -1 => connected = reached

\* newClient lets its caller have a client whenever it should: it does not
\* refuse for too long, and its dial succeeds if it can, and only then.
DialerAvailable == BackOffBounded /\ DialOutcome
=============================================================================

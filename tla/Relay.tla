------------------------------- MODULE Relay -------------------------------
(***************************************************************************)
(* One account on the relay (apps/server), and the devices that bind it,   *)
(* join it, recover it, sync through it and take on its new password       *)
(* (packages/sync/src/http-transport.ts, packages/key-custody).            *)
(*                                                                         *)
(* A credential is numbered by the reset that made it: its salt, verifier  *)
(* and wrap are written and read together.  A password is numbered by the  *)
(* credential it was chosen for, so the verifier derived from password p   *)
(* and salt s is the relay's only when both are the current ones.          *)
(*                                                                         *)
(* Time is the ticks something has left, so it needs no bound.  A device   *)
(* presents only the session its own transport holds, so the relay's       *)
(* sessions are kept by device; one that no transport holds any more is    *)
(* never presented again, and left out.                                    *)
(***************************************************************************)
EXTENDS Naturals

CONSTANTS
    Device,
    Owner,        \* the device the account was created on
    Handle,       \* usernames
    Taken,        \* the usernames other accounts have registered
    NoHandle,
    TTL,          \* ticks a session lives (sessionTtlMs)
    Early,        \* ticks a client renews early (SESSION_REFRESH_SKEW_MS)
    Lives,        \* ticks a device's clock may give a session it is granted
    Window,       \* ticks of the failed-login window (bootstrapRateLimit)
    Budget,       \* failed logins a window allows
    MaxResets,    \* bound: password resets
    MaxFaults     \* bound: lost answers, kills, restarts, mistyped passwords

ASSUME RelayAssumption ==
    /\ Owner \in Device /\ NoHandle \notin Handle
    /\ Taken \subseteq Handle
    /\ {TTL, Early, Window, Budget, MaxResets, MaxFaults} \subseteq Nat
    /\ TTL > 0 /\ Window > 0 /\ Lives \subseteq Nat

Credential == 0 .. MaxResets
Foreign == MaxResets + 1   \* the salt of another account

VARIABLES
    verifier,   \* relay: the credential it checks
    named,      \* relay: the account's username, NoHandle before it registers
    live,       \* relay: ticks left of the session each device holds
    hits,       \* relay: the failed logins of this window, and its ticks left
    bound,      \* device: the username of its account row, NoHandle: none yet
    cred,       \* device: the credential of its account row
    door,       \* device: the password door's password and salt
    flow,       \* device: the join, recovery or re-authentication under way
    run,        \* device: the sync run under way
    asks,       \* device: its last sync activity asks for the new password
    faults,
    retired,    \* history: ticks since a credential was replaced, at most TTL
    guesses     \* history: failed logins let through in the last 1, 2, .. ticks

relay == <<verifier, named>>
meter == <<hits, guesses>>
local == <<bound, cred, door>>
vars == <<relay, live, meter, local, flow, run, asks, faults, retired>>

NoFlow == [at |-> "idle", typed |-> 0, salt |-> 0]
NoRun == [at |-> "idle", call |-> "push", using |-> 0, held |-> 0,
          again |-> FALSE, applied |-> 0]

Init ==
    /\ verifier = 0 /\ named = NoHandle
    /\ live = [d \in Device |-> 0]
    /\ hits = [count |-> 0, left |-> 0] /\ guesses = [i \in 1 .. Window |-> 0]
    /\ bound = [d \in Device |-> NoHandle]
    /\ cred = [d \in Device |-> 0]
    /\ door = [d \in Device |-> [password |-> 0, salt |-> 0]]
    /\ flow = [d \in Device |-> NoFlow]
    /\ run = [d \in Device |-> NoRun]
    /\ asks = [d \in Device |-> FALSE]
    /\ faults = MaxFaults
    /\ retired = [c \in Credential |-> 0]

-----------------------------------------------------------------------------
(* The relay.                                                              *)

Fault == faults > 0 /\ faults' = faults - 1
Less(n) == IF n = 0 THEN 0 ELSE n - 1

\* A mutant of Allowed: an off-by-one at the limit.
AllowedOneMore == hits.left = 0 \/ hits.count <= Budget

\* createRateLimiter, for an address that has just failed to authenticate.
\* An entry past its window counts for nothing, swept or not.
Allowed == hits.left = 0 \/ hits.count < Budget
Charge ==
    /\ hits' = IF hits.left = 0 THEN [count |-> 1, left |-> Window]
               ELSE IF Allowed THEN [hits EXCEPT !.count = @ + 1] ELSE hits
    /\ guesses' = [i \in 1 .. Window |-> IF Allowed THEN guesses[i] + 1 ELSE guesses[i]]

\* authenticate, on the verifier derived from a password and a salt.
Authenticates(password, salt) == password = verifier /\ salt = verifier

\* mintSession
Mint(d) == live' = [live EXCEPT ![d] = TTL]

\* A tick of every clock.  A request takes less than a session's life, unless
\* the device sleeps with one to send.
Tick ==
    /\ IF \A d \in Device : run[d].at = "send" => live[d] # 1
       THEN UNCHANGED faults ELSE Fault
    /\ live' = [d \in Device |-> Less(live[d])]
    /\ run' = [d \in Device |-> [run[d] EXCEPT !.held = Less(@)]]
    /\ hits' = [hits EXCEPT !.left = Less(@)]
    /\ guesses' = [i \in 1 .. Window |-> IF i = 1 THEN 0 ELSE guesses[i - 1]]
    /\ retired' = [c \in Credential |->
                     IF c < verifier /\ retired[c] < TTL THEN retired[c] + 1
                                                         ELSE retired[c]]
    /\ UNCHANGED <<relay, local, flow, asks>>

\* The relay restarts: its sessions and its counters were in memory, and a
\* request whose body it was still reading gets no answer.
Restart ==
    /\ Fault
    /\ live' = [d \in Device |-> 0]
    /\ hits' = [count |-> 0, left |-> 0]
    /\ guesses' = [i \in 1 .. Window |-> 0]
    /\ run' = [d \in Device |-> IF run[d].at = "body" THEN NoRun ELSE run[d]]
    /\ asks' = [d \in Device |-> run[d].at # "body" /\ asks[d]]
    /\ UNCHANGED <<relay, local, flow, retired>>

-----------------------------------------------------------------------------
(* Binding, joining, recovering and re-authenticating.                     *)

Idle(d) == flow[d].at = "idle"

\* registerAccount: an id the relay has stands as it was first registered,
\* whatever it is sent now; a username is one account's forever.
Registered(h) ==
    IF named = NoHandle THEN h \notin Taken /\ named' = h
                        ELSE UNCHANGED named

\* bindRelayToAccount: publishes, and only then writes the account row.  The
\* answer may be lost, or the app killed, in between; the user then binds again,
\* and may type another username, which the relay takes as it took the first.
Bind(d, h, answered) ==
    /\ d = Owner /\ bound[d] = NoHandle
    /\ Registered(h)
    /\ IF answered THEN bound' = [bound EXCEPT ![d] = h] /\ UNCHANGED faults
                   ELSE Fault /\ UNCHANGED bound
    /\ UNCHANGED <<verifier, live, meter, cred, door, flow, run, asks,
                   retired>>

\* A mutant of Prelogin: a bound device keeps the salt it has.
PreloginCached(d, typed) ==
    /\ Idle(d) /\ named # NoHandle
    /\ IF bound[d] = NoHandle THEN d # Owner ELSE asks[d]
    /\ typed <= verifier
    /\ IF typed = verifier THEN UNCHANGED faults ELSE Fault
    /\ flow' = [flow EXCEPT ![d] =
                  [at |-> "looked", typed |-> typed,
                   salt |-> IF bound[d] = NoHandle THEN verifier ELSE cred[d]]]
    /\ UNCHANGED <<relay, live, meter, local, run, asks, retired>>

\* lookup, the first request of a join on a fresh device and of the
\* re-authentication the reconnect form offers.  Another account's username
\* gives a salt that is none of this account's.
Prelogin(d, typed) ==
    /\ Idle(d) /\ named # NoHandle
    /\ IF bound[d] = NoHandle THEN d # Owner
                              ELSE asks[d] /\ bound[d] \in Taken \cup {named}
    /\ typed <= verifier
    /\ IF typed = verifier THEN UNCHANGED faults ELSE Fault
    /\ flow' = [flow EXCEPT ![d] =
                  [at |-> "looked", typed |-> typed,
                   salt |-> IF bound[d] \in Taken THEN Foreign ELSE verifier]]
    /\ UNCHANGED <<relay, live, meter, local, run, asks, retired>>

\* fetchBootstrap: only a failure spends the login budget.  The session it
\* mints is one no transport uses.
Bootstrap(d) ==
    /\ flow[d].at = "looked"
    /\ IF Authenticates(flow[d].typed, flow[d].salt)
       THEN flow' = [flow EXCEPT ![d].at = "granted"] /\ UNCHANGED meter
       ELSE flow' = [flow EXCEPT ![d] = NoFlow] /\ Charge
    /\ UNCHANGED <<relay, live, local, run, asks, faults, retired>>

\* A mutant of Adopt: the door is sealed before the transaction.
AdoptSealed(d) ==
    /\ flow[d].at = "granted"
    /\ door' = [door EXCEPT ![d] =
                  [password |-> flow[d].typed, salt |-> cred[d]]]
    /\ bound' = [bound EXCEPT ![d] = IF @ = NoHandle THEN named ELSE @]
    /\ cred' = [cred EXCEPT ![d] = flow[d].salt]
    /\ flow' = [flow EXCEPT ![d] = NoFlow]
    /\ UNCHANGED <<relay, live, meter, run, asks, faults, retired>>

\* The account row of a join, or the transaction of a re-authentication.
Adopt(d) ==
    /\ flow[d].at = "granted"
    /\ bound' = [bound EXCEPT ![d] = IF @ = NoHandle THEN named ELSE @]
    /\ cred' = [cred EXCEPT ![d] = flow[d].salt]
    /\ flow' = [flow EXCEPT ![d].at = "seal"]
    /\ UNCHANGED <<relay, live, meter, door, run, asks, faults, retired>>

\* sealPasswordDoorIfProtected, under the salt of the account row.
Seal(d) ==
    /\ flow[d].at = "seal"
    /\ door' = [door EXCEPT ![d] =
                  [password |-> flow[d].typed, salt |-> cred[d]]]
    /\ flow' = [flow EXCEPT ![d] = NoFlow]
    /\ UNCHANGED <<relay, live, meter, bound, cred, run, asks, faults, retired>>

\* recoverAccount on a fresh device: POST /accounts/reset replaces the
\* password door, and the sessions opened under the old one stay open.
Recover(d, answered) ==
    /\ Idle(d) /\ named # NoHandle
    /\ d # Owner /\ bound[d] = NoHandle
    /\ verifier < MaxResets
    /\ verifier' = verifier + 1
    /\ IF answered
       THEN /\ flow' = [flow EXCEPT ![d] = [at |-> "granted",
                                            typed |-> verifier',
                                            salt |-> verifier']]
            /\ UNCHANGED faults
       ELSE Fault /\ UNCHANGED flow
    /\ UNCHANGED <<named, live, meter, local, run, asks, retired>>

-----------------------------------------------------------------------------
(* A sync run: a push, then a pull, through one transport.                 *)

\* The run ends; its transport goes, and the session with it.
Ended(d, unauthorized) ==
    /\ run' = [run EXCEPT ![d] = NoRun]
    /\ asks' = [asks EXCEPT ![d] = unauthorized]
    /\ live' = [live EXCEPT ![d] = 0]

\* runAccountSync: the credential is read once, and a new transport has no
\* session, so its push begins with a login.
StartRun(d) ==
    /\ bound[d] # NoHandle /\ run[d].at = "idle"
    /\ run' = [run EXCEPT ![d] =
                 [NoRun EXCEPT !.at = "login", !.using = cred[d]]]
    /\ UNCHANGED <<relay, live, meter, local, flow, asks, faults, retired>>

\* login: the expiry is the relay's, read by the device's own clock.  A 401
\* asks for the new password, a 429 does not.
Login(d) ==
    /\ run[d].at = "login"
    /\ IF Authenticates(run[d].using, run[d].using)
       THEN /\ Mint(d)
            /\ \E life \in Lives :
                 run' = [run EXCEPT ![d].at = "send", ![d].held = life]
            /\ UNCHANGED <<meter, asks>>
       ELSE Ended(d, Allowed) /\ Charge
    /\ UNCHANGED <<relay, local, flow, faults, retired>>

\* authed's request: the relay takes the token (a push's body is still to
\* come, a pull is answered), or it does not and the client logs in again,
\* once in a call.
Send(d) ==
    /\ run[d].at = "send"
    /\ \/ /\ live[d] > 0 /\ run[d].call = "push"
          /\ run' = [run EXCEPT ![d].at = "body"]
          /\ UNCHANGED <<live, asks>>
       \/ /\ live[d] > 0 /\ run[d].call = "pull"
          /\ Ended(d, FALSE)
       \/ /\ live[d] = 0 /\ ~run[d].again
          /\ run' = [run EXCEPT ![d].at = "login", ![d].again = TRUE]
          /\ UNCHANGED <<live, asks>>
       \/ /\ live[d] = 0 /\ run[d].again
          /\ Ended(d, TRUE)
    /\ UNCHANGED <<relay, meter, local, flow, faults, retired>>

\* A mutant of AppendBody: a session lives on each time it is used.
AppendBodySliding(d) ==
    /\ run[d].at = "body"
    /\ run' = [run EXCEPT ![d].at = "send", ![d].call = "pull",
                          ![d].applied = @ + 1]
    /\ live' = [live EXCEPT ![d] = TTL]
    /\ UNCHANGED <<relay, meter, local, flow, asks, faults, retired>>

\* The relay has read a push's body: it appends, and answers.  The pull, the
\* run's last call, uses the same session if ensureSession finds it fresh.
AppendBody(d) ==
    /\ run[d].at = "body"
    /\ run' = [run EXCEPT
                 ![d].at = IF run[d].held > Early THEN "send" ELSE "login",
                 ![d].call = "pull", ![d].again = FALSE, ![d].held = 0,
                 ![d].applied = @ + 1]
    /\ UNCHANGED <<relay, live, meter, local, flow, asks, faults, retired>>

\* A request or its answer is lost: fetch throws, and so does the run.
Lose(d) ==
    /\ run[d].at \in {"login", "send", "body"}
    /\ Fault
    /\ Ended(d, FALSE)
    /\ UNCHANGED <<relay, meter, local, flow, retired>>

\* The app is killed, with whatever it had under way.
Kill(d) ==
    /\ ~Idle(d)
    /\ Fault
    /\ flow' = [flow EXCEPT ![d] = NoFlow]
    /\ Ended(d, FALSE)
    /\ UNCHANGED <<relay, meter, local, retired>>

Take(d) == Bootstrap(d) \/ Adopt(d) \/ Seal(d)
Step(d) == Login(d) \/ Send(d) \/ AppendBody(d)

Next ==
    \/ Tick \/ Restart
    \/ \E d \in Device :
         \/ \E h \in Handle, answered \in BOOLEAN : Bind(d, h, answered)
         \/ \E answered \in BOOLEAN : Recover(d, answered)
         \/ \E typed \in Credential : Prelogin(d, typed)
         \/ Take(d) \/ StartRun(d) \/ Step(d) \/ Lose(d) \/ Kill(d)

\* A request under way is answered, the interval starts runs, and the
\* reconnect form, shown again and again, is filled in with the password.
Fairness ==
    /\ WF_vars(Tick)
    /\ \A d \in Device :
         /\ WF_vars(Take(d)) /\ WF_vars(Step(d)) /\ WF_vars(StartRun(d))
         /\ SF_vars(Prelogin(d, verifier))

Spec == Init /\ [][Next]_vars
FairSpec == Spec /\ Fairness

-----------------------------------------------------------------------------
(* What the relay and its clients keep.                                    *)

Meters == [count : Nat, left : 0 .. Window]
Doors == [password : Credential, salt : Credential]
Flows == [at : {"idle", "looked", "granted", "seal"},
          typed : Credential, salt : Credential \cup {Foreign}]
Runs == [at : {"idle", "login", "send", "body"}, call : {"push", "pull"},
         using : Credential, held : Nat, again : BOOLEAN, applied : Nat]

TypeOK ==
    /\ verifier \in Credential
    /\ named \in Handle \cup {NoHandle}
    /\ live \in [Device -> 0 .. TTL]
    /\ hits \in Meters /\ guesses \in [1 .. Window -> Nat]
    /\ bound \in [Device -> Handle \cup {NoHandle}]
    /\ cred \in [Device -> Credential] /\ door \in [Device -> Doors]
    /\ flow \in [Device -> Flows]
    /\ \A d \in Device : flow[d].at \in {"granted", "seal"}
                           => flow[d].salt = flow[d].typed
    /\ run \in [Device -> Runs] /\ asks \in [Device -> BOOLEAN]
    /\ faults \in 0 .. MaxFaults
    /\ retired \in [Credential -> 0 .. TTL]

\* A session outlives the credential it was minted on by no more than the
\* rest of its own life: a reset revokes no session (relay.ts,
\* /accounts/reset), and what bounds an old credential's use is that no
\* request extends a session.
SessionsAge ==
    \A d \in Device :
        live[d] > 0 /\ run[d].using # verifier
            => retired[run[d].using] + live[d] <= TTL

\* What a window lets through: its first failure in any case.
Worth == IF Budget = 0 THEN 1 ELSE Budget

\* The failed logins let through in any span as long as the limiter's window
\* fall short of two windows' worth, both sides of an edge included: a span that
\* reaches back over an edge leaves out the failure that opened the window
\* before, while the relay does not restart (createRateLimiter).
GuessesBounded == guesses[Window] < 2 * Worth

\* A push is applied at most once however its call ends: only a request the
\* relay refused is sent again (authed).
PushedOnce == \A d \in Device : run[d].applied <= 1

\* A password door opens with the password its salt was made for, whatever
\* resets, kills and re-authentications overlap (sealPasswordDoor).
DoorPaired == \A d \in Device : door[d].password = door[d].salt

\* After the last reset, restart and lost answer every device that syncs ends
\* up with the account's credential, and stops asking for it; but one that was
\* bound under another username than the account's cannot look it up.
EventuallyCurrent ==
    <>[](\A d \in Device :
            bound[d] # NoHandle /\ bound[d] = named => cred[d] = verifier /\ ~asks[d])
=============================================================================

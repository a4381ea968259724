-------------------------- MODULE StoreLifecycleProofs ------------------------
(***************************************************************************)
(* StoreLifecycle's invariants, and that it keeps AccountHome's promise,   *)
(* for any accounts, keys, rows and keystores lost.                        *)
(***************************************************************************)
EXTENDS StoreLifecycle, TLAPS

\* The phases of a launch that has an account's store; those with it open.
Ready == {"reseal", "boot", "adopt", "rewind", "repaired", "session"}
Launching == {"gate", "key"} \cup Ready

\* At most one account is listed, and the open store is its own.
Located ==
    /\ roster = {} \/ \E a \in Account : roster = {a}
    /\ pc \in Launching => roster = {at} /\ session = None
    /\ pc = "open" => \/ at = Plain /\ roster = {} /\ store[Plain] # None
                      \/ at # Plain /\ roster = {at}
    /\ at # Plain => store[Plain] = None
    /\ pc = "key" /\ store[at] # None => chain.db # None
    /\ pc = "gate" => chain.db = None /\ store[at] # None
    /\ pc \in Ready \/ (pc = "open" /\ at # Plain) =>
          store[at] # None /\ chain.db # None /\ store[at].lock = chain.db

\* A rewind still owed on a store bound to this keystore.
OwesHere(s) == store[s] # None /\ store[s].owed /\ HasEnclave(s)

\* What keeps an owed rewind in sight: the flag stays, and a store bound to
\* this keystore is not asked for a door again until it is rewound.
Owing ==
    /\ RewindOwed
    /\ \A s \in Slot : store[s] # None /\ store[s].enclave # None =>
          store[s].enclave.era <= era
    /\ store[Plain] # None => ~store[Plain].owed
    /\ \A a \in roster : OwesHere(a) => chain.db # None
    /\ pc \in {"key", "reseal", "boot", "adopt"} /\ through.by # "none" => ~OwesHere(at)
    /\ pc \in {"open"} /\ at # Plain => ~OwesHere(at)
    /\ pc = "adopt" => store[at].repair /\ through.by # "none"
    /\ pc \in {"repaired", "session"} => ~store[at].owed

\* A listed account opens, and with one master key.
Sound(a) ==
    /\ store[a] # None
    /\ store[a].acct = a
    /\ store[a].lock # None
    /\ store[a].pass # None
    /\ store[a].phrase # None
    /\ store[a].phrase.mk = store[a].pass
    /\ store[a].enclave # None => store[a].enclave.mk = store[a].pass
    /\ a \in Synced => store[a].pass = a
    /\ door[a].pass = store[a].lock
    /\ door[a].phrase # None => door[a].phrase.lock = store[a].lock
    /\ chain.db \in {None, store[a].lock}

\* The phrase a merge has taken from the keychain meanwhile is kept aside.
InRelayHalf == pc = "flow" /\ flow = "merge" /\ step \in 9..11
InMerge == pc = "flow" /\ flow = "merge" /\ step \in 4..11

PhraseOf(a) == store[a].phrase.key

SamePhrase(a) ==
    /\ door[a].phrase # None => door[a].phrase.key = PhraseOf(a)
    /\ ~InRelayHalf => chain.rec \in {None, PhraseOf(a)}
    /\ InMerge => kept.rec \in {None, PhraseOf(a)}
    /\ pc \in {"key", "reseal"} /\ through.by = "recovery" => through.key = PhraseOf(a)

Listed ==
    ~torn => \A a \in roster :
                /\ Sound(a)
                /\ a \notin cut => SamePhrase(a)
                /\ pc = "open" => session \in {None, store[a].pass}

\* A phrase unlock carries the phrase it was given.
Carried == pc \in {"key", "reseal", "boot", "adopt"} /\ through.by = "recovery"
              => through.key # None

\* The account of a store that is ready to be listed: one master key, wrapped
\* for this keystore, the password and the phrase in the keychain.
Whole(s, a) ==
    /\ s # None
    /\ s.acct = a
    /\ s.enclave # None
    /\ s.pass = s.enclave.mk
    /\ s.phrase # None
    /\ s.phrase.mk = s.pass
    /\ chain.rec = s.phrase.key
    /\ a \in Synced => s.pass = a

\* How far a flow that settles an account in the plaintext store has come
\* before it adopts the store.
Created(s) ==
    /\ step >= 2 => s.enclave # None
    /\ step >= 3 => chain.rec # None
    /\ step >= 4 => s.acct = to
    /\ step >= 5 => s.pass = s.enclave.mk
    /\ step >= 6 => s.phrase # None
       /\ s.phrase = [key |-> chain.rec, mk |-> s.enclave.mk]
    /\ step >= 7 => chain.db # None

Joined(s) ==
    /\ step >= 2 => chain.db # None
    /\ step >= 3 => s.acct = to
    /\ step >= 4 => s.enclave # None /\ s.enclave.mk = to
    /\ step >= 5 => s.pass = to
    /\ step >= 6 => chain.rec = to
    /\ step >= 7 => s.phrase # None /\ s.phrase = [key |-> to, mk |-> to]

Recovered(s) ==
    /\ step >= 2 => chain.db # None
    /\ step >= 3 => s.acct = to
    /\ step >= 4 => s.enclave # None /\ s.enclave.mk = to
    /\ step >= 5 => s.pass = to
    /\ step >= 6 => s.phrase # None /\ s.phrase = [key |-> to, mk |-> to]
    /\ step >= 7 => chain.rec = to

Settler == flow \in {"create", "join", "recover"}

\* The adoption, once the plaintext store is whole.
Adopted(s) ==
    /\ step >= 7 => Whole(s, to) /\ chain.db # None
    /\ step >= 8 => door[to].phrase = None
    /\ step >= 10 => store[to] = [s EXCEPT !.lock = chain.db]
    /\ step >= 11 => door[to].pass = chain.db

Settles ==
    pc = "flow" /\ Settler =>
        /\ at = Plain
        /\ to \in Account
        /\ flow = "create" => to \in Fresh
        /\ flow # "create" => to \in Synced
        /\ roster = IF step = 12 THEN {to} ELSE {}
        /\ step <= 11 =>
              /\ store[Plain] # None
              /\ flow = "create" => Created(store[Plain])
              /\ flow = "join" => Joined(store[Plain])
              /\ flow = "recover" => Recovered(store[Plain])
              /\ Adopted(store[Plain])

\* A merge, and its copy.
Copied(s) ==
    /\ step >= 4 => s # None /\ s.lock = chain.db /\ s.rows = store[at].rows
    /\ step >= 6 => s.acct = to
    /\ step \in 5..9 => s.phrase = None
    /\ step >= 7 => s.enclave # None /\ s.enclave.mk = to
    /\ step >= 8 => s.pass = to
    /\ step >= 9 => chain.rec = to
    /\ step >= 10 => s.phrase # None /\ s.phrase = [key |-> to, mk |-> to]
    /\ step >= 11 => door[to].pass = chain.db

Merges ==
    pc = "flow" /\ flow = "merge" =>
        /\ at \in Account /\ to \in Synced /\ at # to
        /\ chain.db # None
        /\ roster = IF step = 12 THEN {to} ELSE {at}
        /\ step <= 11 =>
              /\ store[at] # None
              /\ store[at].lock = chain.db
              /\ step >= 2 => door[to].phrase = None
              /\ Copied(store[to])
        /\ InMerge => kept.db = chain.db

Leaves ==
    pc = "flow" =>
        /\ flow = "signOut" => at # Plain /\ roster = {at} /\ ~OwesHere(at)
        /\ flow = "forget" => at # Plain /\ roster = IF step = 1 THEN {at} ELSE {}
        /\ flow = "reset" => roster = IF at = Plain THEN {} ELSE {at}
        /\ flow = "reset" /\ step >= 2 => store[at] = None

IInv ==
    /\ TypeOK /\ Located /\ Owing /\ Listed /\ Carried
    /\ Settles /\ Merges /\ Leaves
-----------------------------------------------------------------------------
(* Where a flow is. *)

\* The seven flows.
LEMMA Flows ==
  Flow = {"create", "join", "recover", "merge", "signOut", "forget", "reset"}
BY DEF Flow, Steps

\* Which step a flow is at, and which are still to come, by its place.
LEMMA In_create ==
  ASSUME TypeOK, pc = "flow", flow = "create"
  PROVE  /\ step \in 1..12 /\ Len(Steps[flow]) = 12
         /\ (Doing("master") <=> step = 1) /\ (Doing("phrase") <=> step = 2)
         /\ (Doing("account") <=> step = 3) /\ (Doing("password") <=> step = 4)
         /\ (Doing("escrow") <=> step = 5) /\ (Doing("dbkey") <=> step = 6)
         /\ (Doing("drop") <=> step = 7) /\ (Doing("copy") <=> step = 8)
         /\ (Doing("fill") <=> step = 9) /\ (Doing("door") <=> step = 10)
         /\ (Doing("roster") <=> step = 11) /\ (Doing("remove") <=> step = 12)
         /\ (Coming("drop") <=> step < 7) /\ (Coming("roster") <=> step < 11)
         /\ ~Coming("clear")
         /\ \A name : Doing(name) =>
             name \in {"master", "phrase", "account", "password", "escrow", "dbkey",
                       "drop", "copy", "fill", "door", "roster", "remove"}
<1> DEFINE L == Steps["create"]
<1>1. Len(L) = 12
  BY DEF Steps, AdoptSteps
<1>2. /\ L[1] = "master" /\ L[2] = "phrase" /\ L[3] = "account" /\ L[4] = "password"
      /\ L[5] = "escrow" /\ L[6] = "dbkey" /\ L[7] = "drop" /\ L[8] = "copy"
      /\ L[9] = "fill" /\ L[10] = "door" /\ L[11] = "roster" /\ L[12] = "remove"
  BY DEF Steps, AdoptSteps
<1>3. step \in 1..12
  BY <1>1 DEF TypeOK
<1> HIDE DEF L
<1>4. \A name : Doing(name) <=> L[step] = name
  BY DEF L, Doing
<1>5. \A name : Coming(name) <=> \E i \in step + 1 .. 12 : L[i] = name
  BY <1>1 DEF L, Coming
<1>6. /\ \A i \in 1..12 : L[i] = "drop" <=> i = 7
      /\ \A i \in 1..12 : L[i] = "roster" <=> i = 11
      /\ \A i \in 1..12 : L[i] # "clear"
  BY <1>2
<1>7. /\ (Coming("drop") <=> step < 7) /\ (Coming("roster") <=> step < 11)
      /\ ~Coming("clear")
  BY <1>3, <1>5, <1>6
<1>8. /\ (Doing("master") <=> step = 1) /\ (Doing("phrase") <=> step = 2)
      /\ (Doing("account") <=> step = 3) /\ (Doing("password") <=> step = 4)
      /\ (Doing("escrow") <=> step = 5) /\ (Doing("dbkey") <=> step = 6)
      /\ (Doing("drop") <=> step = 7) /\ (Doing("copy") <=> step = 8)
      /\ (Doing("fill") <=> step = 9) /\ (Doing("door") <=> step = 10)
      /\ (Doing("roster") <=> step = 11) /\ (Doing("remove") <=> step = 12)
  BY <1>2, <1>3, <1>4
<1>9. \A name : Doing(name) =>
          name \in {"master", "phrase", "account", "password", "escrow", "dbkey",
                    "drop", "copy", "fill", "door", "roster", "remove"}
  BY <1>2, <1>3, <1>4
<1> QED
  BY <1>1, <1>3, <1>7, <1>8, <1>9 DEF L

LEMMA In_join ==
  ASSUME TypeOK, pc = "flow", flow = "join"
  PROVE  /\ step \in 1..12 /\ Len(Steps[flow]) = 12
         /\ (Doing("dbkey") <=> step = 1) /\ (Doing("account") <=> step = 2)
         /\ (Doing("enclave") <=> step = 3) /\ (Doing("password") <=> step = 4)
         /\ (Doing("phrase") <=> step = 5) /\ (Doing("escrow") <=> step = 6)
         /\ (Doing("drop") <=> step = 7) /\ (Doing("copy") <=> step = 8)
         /\ (Doing("fill") <=> step = 9) /\ (Doing("door") <=> step = 10)
         /\ (Doing("roster") <=> step = 11) /\ (Doing("remove") <=> step = 12)
         /\ (Coming("drop") <=> step < 7) /\ (Coming("roster") <=> step < 11)
         /\ ~Coming("clear")
         /\ \A name : Doing(name) =>
             name \in {"dbkey", "account", "enclave", "password", "phrase", "escrow",
                       "drop", "copy", "fill", "door", "roster", "remove"}
<1> DEFINE L == Steps["join"]
<1>1. Len(L) = 12
  BY DEF Steps, AdoptSteps
<1>2. /\ L[1] = "dbkey" /\ L[2] = "account" /\ L[3] = "enclave" /\ L[4] = "password"
      /\ L[5] = "phrase" /\ L[6] = "escrow" /\ L[7] = "drop" /\ L[8] = "copy"
      /\ L[9] = "fill" /\ L[10] = "door" /\ L[11] = "roster" /\ L[12] = "remove"
  BY DEF Steps, AdoptSteps
<1>3. step \in 1..12
  BY <1>1 DEF TypeOK
<1> HIDE DEF L
<1>4. \A name : Doing(name) <=> L[step] = name
  BY DEF L, Doing
<1>5. \A name : Coming(name) <=> \E i \in step + 1 .. 12 : L[i] = name
  BY <1>1 DEF L, Coming
<1>6. /\ \A i \in 1..12 : L[i] = "drop" <=> i = 7
      /\ \A i \in 1..12 : L[i] = "roster" <=> i = 11
      /\ \A i \in 1..12 : L[i] # "clear"
  BY <1>2
<1>7. /\ (Coming("drop") <=> step < 7) /\ (Coming("roster") <=> step < 11)
      /\ ~Coming("clear")
  BY <1>3, <1>5, <1>6
<1>8. /\ (Doing("dbkey") <=> step = 1) /\ (Doing("account") <=> step = 2)
      /\ (Doing("enclave") <=> step = 3) /\ (Doing("password") <=> step = 4)
      /\ (Doing("phrase") <=> step = 5) /\ (Doing("escrow") <=> step = 6)
      /\ (Doing("drop") <=> step = 7) /\ (Doing("copy") <=> step = 8)
      /\ (Doing("fill") <=> step = 9) /\ (Doing("door") <=> step = 10)
      /\ (Doing("roster") <=> step = 11) /\ (Doing("remove") <=> step = 12)
  BY <1>2, <1>3, <1>4
<1>9. \A name : Doing(name) =>
          name \in {"dbkey", "account", "enclave", "password", "phrase", "escrow",
                    "drop", "copy", "fill", "door", "roster", "remove"}
  BY <1>2, <1>3, <1>4
<1> QED
  BY <1>1, <1>3, <1>7, <1>8, <1>9 DEF L

LEMMA In_recover ==
  ASSUME TypeOK, pc = "flow", flow = "recover"
  PROVE  /\ step \in 1..12 /\ Len(Steps[flow]) = 12
         /\ (Doing("dbkey") <=> step = 1) /\ (Doing("account") <=> step = 2)
         /\ (Doing("enclave") <=> step = 3) /\ (Doing("password") <=> step = 4)
         /\ (Doing("escrow") <=> step = 5) /\ (Doing("phrase") <=> step = 6)
         /\ (Doing("drop") <=> step = 7) /\ (Doing("copy") <=> step = 8)
         /\ (Doing("fill") <=> step = 9) /\ (Doing("door") <=> step = 10)
         /\ (Doing("roster") <=> step = 11) /\ (Doing("remove") <=> step = 12)
         /\ (Coming("drop") <=> step < 7) /\ (Coming("roster") <=> step < 11)
         /\ ~Coming("clear")
         /\ \A name : Doing(name) =>
             name \in {"dbkey", "account", "enclave", "password", "escrow", "phrase",
                       "drop", "copy", "fill", "door", "roster", "remove"}
<1> DEFINE L == Steps["recover"]
<1>1. Len(L) = 12
  BY DEF Steps, AdoptSteps
<1>2. /\ L[1] = "dbkey" /\ L[2] = "account" /\ L[3] = "enclave" /\ L[4] = "password"
      /\ L[5] = "escrow" /\ L[6] = "phrase" /\ L[7] = "drop" /\ L[8] = "copy"
      /\ L[9] = "fill" /\ L[10] = "door" /\ L[11] = "roster" /\ L[12] = "remove"
  BY DEF Steps, AdoptSteps
<1>3. step \in 1..12
  BY <1>1 DEF TypeOK
<1> HIDE DEF L
<1>4. \A name : Doing(name) <=> L[step] = name
  BY DEF L, Doing
<1>5. \A name : Coming(name) <=> \E i \in step + 1 .. 12 : L[i] = name
  BY <1>1 DEF L, Coming
<1>6. /\ \A i \in 1..12 : L[i] = "drop" <=> i = 7
      /\ \A i \in 1..12 : L[i] = "roster" <=> i = 11
      /\ \A i \in 1..12 : L[i] # "clear"
  BY <1>2
<1>7. /\ (Coming("drop") <=> step < 7) /\ (Coming("roster") <=> step < 11)
      /\ ~Coming("clear")
  BY <1>3, <1>5, <1>6
<1>8. /\ (Doing("dbkey") <=> step = 1) /\ (Doing("account") <=> step = 2)
      /\ (Doing("enclave") <=> step = 3) /\ (Doing("password") <=> step = 4)
      /\ (Doing("escrow") <=> step = 5) /\ (Doing("phrase") <=> step = 6)
      /\ (Doing("drop") <=> step = 7) /\ (Doing("copy") <=> step = 8)
      /\ (Doing("fill") <=> step = 9) /\ (Doing("door") <=> step = 10)
      /\ (Doing("roster") <=> step = 11) /\ (Doing("remove") <=> step = 12)
  BY <1>2, <1>3, <1>4
<1>9. \A name : Doing(name) =>
          name \in {"dbkey", "account", "enclave", "password", "escrow", "phrase",
                    "drop", "copy", "fill", "door", "roster", "remove"}
  BY <1>2, <1>3, <1>4
<1> QED
  BY <1>1, <1>3, <1>7, <1>8, <1>9 DEF L

LEMMA In_merge ==
  ASSUME TypeOK, pc = "flow", flow = "merge"
  PROVE  /\ step \in 1..12 /\ Len(Steps[flow]) = 12
         /\ (Doing("drop") <=> step = 1) /\ (Doing("copy") <=> step = 2)
         /\ (Doing("fill") <=> step = 3) /\ (Doing("clear") <=> step = 4)
         /\ (Doing("account") <=> step = 5) /\ (Doing("enclave") <=> step = 6)
         /\ (Doing("password") <=> step = 7) /\ (Doing("phrase") <=> step = 8)
         /\ (Doing("escrow") <=> step = 9) /\ (Doing("door") <=> step = 10)
         /\ (Doing("roster") <=> step = 11) /\ (Doing("remove") <=> step = 12)
         /\ (Coming("drop") <=> step < 1) /\ (Coming("roster") <=> step < 11)
         /\ (Coming("clear") <=> step < 4)
         /\ \A name : Doing(name) =>
             name \in {"drop", "copy", "fill", "clear", "account", "enclave",
                       "password", "phrase", "escrow", "door", "roster", "remove"}
<1> DEFINE L == Steps["merge"]
<1>1. Len(L) = 12
  BY DEF Steps, AdoptSteps
<1>2. /\ L[1] = "drop" /\ L[2] = "copy" /\ L[3] = "fill" /\ L[4] = "clear"
      /\ L[5] = "account" /\ L[6] = "enclave" /\ L[7] = "password" /\ L[8] = "phrase"
      /\ L[9] = "escrow" /\ L[10] = "door" /\ L[11] = "roster" /\ L[12] = "remove"
  BY DEF Steps, AdoptSteps
<1>3. step \in 1..12
  BY <1>1 DEF TypeOK
<1> HIDE DEF L
<1>4. \A name : Doing(name) <=> L[step] = name
  BY DEF L, Doing
<1>5. \A name : Coming(name) <=> \E i \in step + 1 .. 12 : L[i] = name
  BY <1>1 DEF L, Coming
<1>6. /\ \A i \in 1..12 : L[i] = "drop" <=> i = 1
      /\ \A i \in 1..12 : L[i] = "roster" <=> i = 11
      /\ \A i \in 1..12 : L[i] = "clear" <=> i = 4
  BY <1>2
<1>7. /\ (Coming("drop") <=> step < 1) /\ (Coming("roster") <=> step < 11)
      /\ (Coming("clear") <=> step < 4)
  BY <1>3, <1>5, <1>6
<1>8. /\ (Doing("drop") <=> step = 1) /\ (Doing("copy") <=> step = 2)
      /\ (Doing("fill") <=> step = 3) /\ (Doing("clear") <=> step = 4)
      /\ (Doing("account") <=> step = 5) /\ (Doing("enclave") <=> step = 6)
      /\ (Doing("password") <=> step = 7) /\ (Doing("phrase") <=> step = 8)
      /\ (Doing("escrow") <=> step = 9) /\ (Doing("door") <=> step = 10)
      /\ (Doing("roster") <=> step = 11) /\ (Doing("remove") <=> step = 12)
  BY <1>2, <1>3, <1>4
<1>9. \A name : Doing(name) =>
          name \in {"drop", "copy", "fill", "clear", "account", "enclave",
                    "password", "phrase", "escrow", "door", "roster", "remove"}
  BY <1>2, <1>3, <1>4
<1> QED
  BY <1>1, <1>3, <1>7, <1>8, <1>9 DEF L

LEMMA In_signOut ==
  ASSUME TypeOK, pc = "flow", flow = "signOut"
  PROVE  /\ step \in 1..2 /\ Len(Steps[flow]) = 2
         /\ (Doing("lock") <=> step = 1) /\ (Doing("lockPhrase") <=> step = 2)
         /\ ~Coming("drop") /\ ~Coming("roster") /\ ~Coming("clear")
         /\ \A name : Doing(name) =>
             name \in {"lock", "lockPhrase"}
<1> DEFINE L == Steps["signOut"]
<1>1. Len(L) = 2
  BY DEF Steps, AdoptSteps
<1>2. /\ L[1] = "lock" /\ L[2] = "lockPhrase"
  BY DEF Steps, AdoptSteps
<1>3. step \in 1..2
  BY <1>1 DEF TypeOK
<1> HIDE DEF L
<1>4. \A name : Doing(name) <=> L[step] = name
  BY DEF L, Doing
<1>5. \A name : Coming(name) <=> \E i \in step + 1 .. 2 : L[i] = name
  BY <1>1 DEF L, Coming
<1>6. /\ \A i \in 1..2 : L[i] # "drop"
      /\ \A i \in 1..2 : L[i] # "roster"
      /\ \A i \in 1..2 : L[i] # "clear"
  BY <1>2
<1>7. /\ ~Coming("drop") /\ ~Coming("roster") /\ ~Coming("clear")
  BY <1>3, <1>5, <1>6
<1>8. /\ (Doing("lock") <=> step = 1) /\ (Doing("lockPhrase") <=> step = 2)
  BY <1>2, <1>3, <1>4
<1>9. \A name : Doing(name) =>
          name \in {"lock", "lockPhrase"}
  BY <1>2, <1>3, <1>4
<1> QED
  BY <1>1, <1>3, <1>7, <1>8, <1>9 DEF L

LEMMA In_forget ==
  ASSUME TypeOK, pc = "flow", flow = "forget"
  PROVE  /\ step \in 1..4 /\ Len(Steps[flow]) = 4
         /\ (Doing("unlist") <=> step = 1) /\ (Doing("erase") <=> step = 2)
         /\ (Doing("lock") <=> step = 3) /\ (Doing("lockPhrase") <=> step = 4)
         /\ ~Coming("drop") /\ ~Coming("roster") /\ ~Coming("clear")
         /\ \A name : Doing(name) =>
             name \in {"unlist", "erase", "lock", "lockPhrase"}
<1> DEFINE L == Steps["forget"]
<1>1. Len(L) = 4
  BY DEF Steps, AdoptSteps
<1>2. /\ L[1] = "unlist" /\ L[2] = "erase" /\ L[3] = "lock" /\ L[4] = "lockPhrase"
  BY DEF Steps, AdoptSteps
<1>3. step \in 1..4
  BY <1>1 DEF TypeOK
<1> HIDE DEF L
<1>4. \A name : Doing(name) <=> L[step] = name
  BY DEF L, Doing
<1>5. \A name : Coming(name) <=> \E i \in step + 1 .. 4 : L[i] = name
  BY <1>1 DEF L, Coming
<1>6. /\ \A i \in 1..4 : L[i] # "drop"
      /\ \A i \in 1..4 : L[i] # "roster"
      /\ \A i \in 1..4 : L[i] # "clear"
  BY <1>2
<1>7. /\ ~Coming("drop") /\ ~Coming("roster") /\ ~Coming("clear")
  BY <1>3, <1>5, <1>6
<1>8. /\ (Doing("unlist") <=> step = 1) /\ (Doing("erase") <=> step = 2)
      /\ (Doing("lock") <=> step = 3) /\ (Doing("lockPhrase") <=> step = 4)
  BY <1>2, <1>3, <1>4
<1>9. \A name : Doing(name) =>
          name \in {"unlist", "erase", "lock", "lockPhrase"}
  BY <1>2, <1>3, <1>4
<1> QED
  BY <1>1, <1>3, <1>7, <1>8, <1>9 DEF L

LEMMA In_reset ==
  ASSUME TypeOK, pc = "flow", flow = "reset"
  PROVE  /\ step \in 1..4 /\ Len(Steps[flow]) = 4
         /\ (Doing("eraseOpen") <=> step = 1) /\ (Doing("eraseKeys") <=> step = 2)
         /\ (Doing("eraseAll") <=> step = 3) /\ (Doing("unlistAll") <=> step = 4)
         /\ ~Coming("drop") /\ ~Coming("roster") /\ ~Coming("clear")
         /\ \A name : Doing(name) =>
             name \in {"eraseOpen", "eraseKeys", "eraseAll", "unlistAll"}
<1> DEFINE L == Steps["reset"]
<1>1. Len(L) = 4
  BY DEF Steps, AdoptSteps
<1>2. /\ L[1] = "eraseOpen" /\ L[2] = "eraseKeys" /\ L[3] = "eraseAll"
      /\ L[4] = "unlistAll"
  BY DEF Steps, AdoptSteps
<1>3. step \in 1..4
  BY <1>1 DEF TypeOK
<1> HIDE DEF L
<1>4. \A name : Doing(name) <=> L[step] = name
  BY DEF L, Doing
<1>5. \A name : Coming(name) <=> \E i \in step + 1 .. 4 : L[i] = name
  BY <1>1 DEF L, Coming
<1>6. /\ \A i \in 1..4 : L[i] # "drop"
      /\ \A i \in 1..4 : L[i] # "roster"
      /\ \A i \in 1..4 : L[i] # "clear"
  BY <1>2
<1>7. /\ ~Coming("drop") /\ ~Coming("roster") /\ ~Coming("clear")
  BY <1>3, <1>5, <1>6
<1>8. /\ (Doing("eraseOpen") <=> step = 1) /\ (Doing("eraseKeys") <=> step = 2)
      /\ (Doing("eraseAll") <=> step = 3) /\ (Doing("unlistAll") <=> step = 4)
  BY <1>2, <1>3, <1>4
<1>9. \A name : Doing(name) =>
          name \in {"eraseOpen", "eraseKeys", "eraseAll", "unlistAll"}
  BY <1>2, <1>3, <1>4
<1> QED
  BY <1>1, <1>3, <1>7, <1>8, <1>9 DEF L

-----------------------------------------------------------------------------
(* What a step does to the stores. *)

USE DEF disk, keys, app, job, history

\* Ids, keys and slots are of different kinds.
LEMMA Kinds ==
  /\ Fresh \cap Synced = {} /\ Plain \notin Account /\ None \notin Account
  /\ Plain # None /\ None \notin Nat /\ None \notin Key /\ None \notin Slot
  /\ MaxKeys \in Nat /\ MaxRows \in Nat /\ MaxEra \in Nat
  /\ \A k \in 1..MaxKeys : k \notin Account
BY LifecycleAssumption DEF LifecycleAssumption, Account, Slot, Key

\* A store is a record of its nine fields.
LEMMA StoreFields ==
  ASSUME NEW s \in Store
  PROVE  /\ s # None
         /\ s.lock \in KeyOrNone /\ s.acct \in Account \cup {None}
            /\ s.relay \in BOOLEAN
         /\ s.enclave \in [era : 0..MaxEra, mk : Key] \cup {None}
         /\ s.pass \in KeyOrNone
         /\ s.phrase \in [key : Key, mk : Key] \cup {None}
         /\ s.repair \in BOOLEAN /\ s.owed \in BOOLEAN /\ s.rows \in 0..MaxRows
BY NoneAssumption DEF Store, NoneAssumption

\* Only the store at x changes.
Elsewhere(x) ==
    /\ store' \in [Slot -> Store \cup {None}]
    /\ \A s \in Slot \ {x} : store'[s] = store[s]

\* What is written at x is all that changes.
LEMMA Rewrite ==
  ASSUME TypeOK, NEW x \in Slot, NEW v \in Store \cup {None},
         store' = [store EXCEPT ![x] = v]
  PROVE  Elsewhere(x) /\ store'[x] = v
BY DEF TypeOK, Elsewhere

\* One part of the store at x is written.
PutRepair(x, b) ==
    /\ Elsewhere(x) /\ store'[x] # None
    /\ store'[x].repair = b
    /\ store'[x].lock = store[x].lock /\ store'[x].acct = store[x].acct
    /\ store'[x].relay = store[x].relay
    /\ store'[x].enclave = store[x].enclave /\ store'[x].pass = store[x].pass
    /\ store'[x].phrase = store[x].phrase /\ store'[x].owed = store[x].owed
    /\ store'[x].rows = store[x].rows

PutOwed(x, b) ==
    /\ Elsewhere(x) /\ store'[x] # None
    /\ store'[x].owed = b
    /\ store'[x].lock = store[x].lock /\ store'[x].acct = store[x].acct
    /\ store'[x].relay = store[x].relay
    /\ store'[x].enclave = store[x].enclave /\ store'[x].pass = store[x].pass
    /\ store'[x].phrase = store[x].phrase
    /\ store'[x].repair = store[x].repair /\ store'[x].rows = store[x].rows

PutRebound(x, e) ==
    /\ Elsewhere(x) /\ store'[x] # None
    /\ store'[x].enclave = e /\ store'[x].owed = TRUE
    /\ store'[x].lock = store[x].lock /\ store'[x].acct = store[x].acct
    /\ store'[x].relay = store[x].relay /\ store'[x].pass = store[x].pass
    /\ store'[x].phrase = store[x].phrase
    /\ store'[x].repair = store[x].repair /\ store'[x].rows = store[x].rows

PutEnclave(x, e) ==
    /\ Elsewhere(x) /\ store'[x] # None
    /\ store'[x].enclave = e
    /\ store'[x].lock = store[x].lock /\ store'[x].acct = store[x].acct
    /\ store'[x].relay = store[x].relay /\ store'[x].pass = store[x].pass
    /\ store'[x].phrase = store[x].phrase
    /\ store'[x].repair = store[x].repair /\ store'[x].owed = store[x].owed
    /\ store'[x].rows = store[x].rows

PutAcct(x, a, b) ==
    /\ Elsewhere(x) /\ store'[x] # None
    /\ store'[x].acct = a /\ store'[x].relay = b
    /\ store'[x].lock = store[x].lock /\ store'[x].enclave = store[x].enclave
    /\ store'[x].pass = store[x].pass /\ store'[x].phrase = store[x].phrase
    /\ store'[x].repair = store[x].repair /\ store'[x].owed = store[x].owed
    /\ store'[x].rows = store[x].rows

PutCleared(x) ==
    /\ Elsewhere(x) /\ store'[x] # None
    /\ store'[x].acct = None /\ store'[x].relay = FALSE /\ store'[x].pass = None
       /\ store'[x].phrase = None
    /\ store'[x].lock = store[x].lock /\ store'[x].enclave = store[x].enclave
    /\ store'[x].repair = store[x].repair /\ store'[x].owed = store[x].owed
    /\ store'[x].rows = store[x].rows

PutPass(x, k) ==
    /\ Elsewhere(x) /\ store'[x] # None
    /\ store'[x].pass = k
    /\ store'[x].lock = store[x].lock /\ store'[x].acct = store[x].acct
    /\ store'[x].relay = store[x].relay
    /\ store'[x].enclave = store[x].enclave
    /\ store'[x].phrase = store[x].phrase
    /\ store'[x].repair = store[x].repair /\ store'[x].owed = store[x].owed
    /\ store'[x].rows = store[x].rows

PutPhrase(x, p) ==
    /\ Elsewhere(x) /\ store'[x] # None
    /\ store'[x].phrase = p
    /\ store'[x].lock = store[x].lock /\ store'[x].acct = store[x].acct
    /\ store'[x].relay = store[x].relay
    /\ store'[x].enclave = store[x].enclave /\ store'[x].pass = store[x].pass
    /\ store'[x].repair = store[x].repair /\ store'[x].owed = store[x].owed
    /\ store'[x].rows = store[x].rows

PutRelay(x, b) ==
    /\ Elsewhere(x) /\ store'[x] # None
    /\ store'[x].relay = b
    /\ store'[x].lock = store[x].lock /\ store'[x].acct = store[x].acct
    /\ store'[x].enclave = store[x].enclave /\ store'[x].pass = store[x].pass
    /\ store'[x].phrase = store[x].phrase
    /\ store'[x].repair = store[x].repair /\ store'[x].owed = store[x].owed
    /\ store'[x].rows = store[x].rows

PutRows(x, n) ==
    /\ Elsewhere(x) /\ store'[x] # None
    /\ store'[x].rows = n
    /\ store'[x].lock = store[x].lock /\ store'[x].acct = store[x].acct
    /\ store'[x].relay = store[x].relay
    /\ store'[x].enclave = store[x].enclave /\ store'[x].pass = store[x].pass
    /\ store'[x].phrase = store[x].phrase
    /\ store'[x].repair = store[x].repair /\ store'[x].owed = store[x].owed

LEMMA RepairPut ==
  ASSUME TypeOK, NEW x \in Slot, store[x] # None, NEW b \in BOOLEAN,
         store' = [store EXCEPT ![x].repair = b]
  PROVE  PutRepair(x, b)
<1> DEFINE v == [store[x] EXCEPT !.repair = b]
<1>1. store[x] \in Store
  BY DEF TypeOK
<1>2. /\ v \in Store /\ v.repair = b
      /\ v.lock = store[x].lock /\ v.acct = store[x].acct
      /\ v.relay = store[x].relay /\ v.enclave = store[x].enclave
      /\ v.pass = store[x].pass /\ v.phrase = store[x].phrase
      /\ v.owed = store[x].owed /\ v.rows = store[x].rows
  BY <1>1 DEF Store
<1>3. store' = [store EXCEPT ![x] = v]
  OBVIOUS
<1> HIDE DEF v
<1>4. Elsewhere(x) /\ store'[x] = v
  BY <1>2, <1>3, Rewrite
<1> QED
  BY <1>2, <1>4, StoreFields DEF PutRepair

LEMMA OwedPut ==
  ASSUME TypeOK, NEW x \in Slot, store[x] # None, NEW b \in BOOLEAN,
         store' = [store EXCEPT ![x].owed = b]
  PROVE  PutOwed(x, b)
<1> DEFINE v == [store[x] EXCEPT !.owed = b]
<1>1. store[x] \in Store
  BY DEF TypeOK
<1>2. /\ v \in Store /\ v.owed = b
      /\ v.lock = store[x].lock /\ v.acct = store[x].acct
      /\ v.relay = store[x].relay /\ v.enclave = store[x].enclave
      /\ v.pass = store[x].pass /\ v.phrase = store[x].phrase
      /\ v.repair = store[x].repair /\ v.rows = store[x].rows
  BY <1>1 DEF Store
<1>3. store' = [store EXCEPT ![x] = v]
  OBVIOUS
<1> HIDE DEF v
<1>4. Elsewhere(x) /\ store'[x] = v
  BY <1>2, <1>3, Rewrite
<1> QED
  BY <1>2, <1>4, StoreFields DEF PutOwed

LEMMA ReboundPut ==
  ASSUME TypeOK, NEW x \in Slot, store[x] # None, NEW e \in [era : 0..MaxEra, mk : Key],
         store' = [store EXCEPT ![x].enclave = e, ![x].owed = TRUE]
  PROVE  PutRebound(x, e)
<1> DEFINE v == [store[x] EXCEPT !.enclave = e, !.owed = TRUE]
<1>1. store[x] \in Store
  BY DEF TypeOK
<1>2. /\ v \in Store /\ v.enclave = e /\ v.owed = TRUE
      /\ v.lock = store[x].lock /\ v.acct = store[x].acct
      /\ v.relay = store[x].relay /\ v.pass = store[x].pass
      /\ v.phrase = store[x].phrase /\ v.repair = store[x].repair
      /\ v.rows = store[x].rows
  BY <1>1 DEF Store
<1>3. store' = [store EXCEPT ![x] = v]
  OBVIOUS
<1> HIDE DEF v
<1>4. Elsewhere(x) /\ store'[x] = v
  BY <1>2, <1>3, Rewrite
<1> QED
  BY <1>2, <1>4, StoreFields DEF PutRebound

LEMMA EnclavePut ==
  ASSUME TypeOK, NEW x \in Slot, store[x] # None, NEW e \in [era : 0..MaxEra, mk : Key],
         store' = [store EXCEPT ![x].enclave = e]
  PROVE  PutEnclave(x, e)
<1> DEFINE v == [store[x] EXCEPT !.enclave = e]
<1>1. store[x] \in Store
  BY DEF TypeOK
<1>2. /\ v \in Store /\ v.enclave = e
      /\ v.lock = store[x].lock /\ v.acct = store[x].acct
      /\ v.relay = store[x].relay /\ v.pass = store[x].pass
      /\ v.phrase = store[x].phrase /\ v.repair = store[x].repair
      /\ v.owed = store[x].owed /\ v.rows = store[x].rows
  BY <1>1 DEF Store
<1>3. store' = [store EXCEPT ![x] = v]
  OBVIOUS
<1> HIDE DEF v
<1>4. Elsewhere(x) /\ store'[x] = v
  BY <1>2, <1>3, Rewrite
<1> QED
  BY <1>2, <1>4, StoreFields DEF PutEnclave

LEMMA AcctPut ==
  ASSUME TypeOK, NEW x \in Slot, store[x] # None, NEW a \in Account, NEW b \in BOOLEAN,
         store' = [store EXCEPT ![x].acct = a, ![x].relay = b]
  PROVE  PutAcct(x, a, b)
<1> DEFINE v == [store[x] EXCEPT !.acct = a, !.relay = b]
<1>1. store[x] \in Store
  BY DEF TypeOK
<1>2. /\ v \in Store /\ v.acct = a /\ v.relay = b
      /\ v.lock = store[x].lock /\ v.enclave = store[x].enclave
      /\ v.pass = store[x].pass /\ v.phrase = store[x].phrase
      /\ v.repair = store[x].repair /\ v.owed = store[x].owed
      /\ v.rows = store[x].rows
  BY <1>1 DEF Store
<1>3. store' = [store EXCEPT ![x] = v]
  OBVIOUS
<1> HIDE DEF v
<1>4. Elsewhere(x) /\ store'[x] = v
  BY <1>2, <1>3, Rewrite
<1> QED
  BY <1>2, <1>4, StoreFields DEF PutAcct

LEMMA ClearedPut ==
  ASSUME TypeOK, NEW x \in Slot, store[x] # None,
         store' = [store EXCEPT ![x].acct = None, ![x].relay = FALSE,
                                ![x].pass = None, ![x].phrase = None]
  PROVE  PutCleared(x)
<1> DEFINE v == [store[x] EXCEPT !.acct = None, !.relay = FALSE,
                                  !.pass = None, !.phrase = None]
<1>1. store[x] \in Store
  BY DEF TypeOK
<1>2. /\ v \in Store /\ v.acct = None /\ v.relay = FALSE /\ v.pass = None
      /\ v.phrase = None
      /\ v.lock = store[x].lock /\ v.enclave = store[x].enclave
      /\ v.repair = store[x].repair /\ v.owed = store[x].owed
      /\ v.rows = store[x].rows
  BY <1>1 DEF Store, KeyOrNone
<1>3. store' = [store EXCEPT ![x] = v]
  OBVIOUS
<1> HIDE DEF v
<1>4. Elsewhere(x) /\ store'[x] = v
  BY <1>2, <1>3, Rewrite
<1> QED
  BY <1>2, <1>4, StoreFields DEF PutCleared

LEMMA PassPut ==
  ASSUME TypeOK, NEW x \in Slot, store[x] # None, NEW k \in Key,
         store' = [store EXCEPT ![x].pass = k]
  PROVE  PutPass(x, k)
<1> DEFINE v == [store[x] EXCEPT !.pass = k]
<1>1. store[x] \in Store
  BY DEF TypeOK
<1>2. /\ v \in Store /\ v.pass = k
      /\ v.lock = store[x].lock /\ v.acct = store[x].acct
      /\ v.relay = store[x].relay /\ v.enclave = store[x].enclave
      /\ v.phrase = store[x].phrase /\ v.repair = store[x].repair
      /\ v.owed = store[x].owed /\ v.rows = store[x].rows
  BY <1>1 DEF Store, KeyOrNone
<1>3. store' = [store EXCEPT ![x] = v]
  OBVIOUS
<1> HIDE DEF v
<1>4. Elsewhere(x) /\ store'[x] = v
  BY <1>2, <1>3, Rewrite
<1> QED
  BY <1>2, <1>4, StoreFields DEF PutPass

LEMMA PhrasePut ==
  ASSUME TypeOK, NEW x \in Slot, store[x] # None, NEW p \in [key : Key, mk : Key],
         store' = [store EXCEPT ![x].phrase = p]
  PROVE  PutPhrase(x, p)
<1> DEFINE v == [store[x] EXCEPT !.phrase = p]
<1>1. store[x] \in Store
  BY DEF TypeOK
<1>2. /\ v \in Store /\ v.phrase = p
      /\ v.lock = store[x].lock /\ v.acct = store[x].acct
      /\ v.relay = store[x].relay /\ v.enclave = store[x].enclave
      /\ v.pass = store[x].pass /\ v.repair = store[x].repair
      /\ v.owed = store[x].owed /\ v.rows = store[x].rows
  BY <1>1 DEF Store
<1>3. store' = [store EXCEPT ![x] = v]
  OBVIOUS
<1> HIDE DEF v
<1>4. Elsewhere(x) /\ store'[x] = v
  BY <1>2, <1>3, Rewrite
<1> QED
  BY <1>2, <1>4, StoreFields DEF PutPhrase

LEMMA RelayPut ==
  ASSUME TypeOK, NEW x \in Slot, store[x] # None, NEW b \in BOOLEAN,
         store' = [store EXCEPT ![x].relay = b]
  PROVE  PutRelay(x, b)
<1> DEFINE v == [store[x] EXCEPT !.relay = b]
<1>1. store[x] \in Store
  BY DEF TypeOK
<1>2. /\ v \in Store /\ v.relay = b
      /\ v.lock = store[x].lock /\ v.acct = store[x].acct
      /\ v.enclave = store[x].enclave /\ v.pass = store[x].pass
      /\ v.phrase = store[x].phrase /\ v.repair = store[x].repair
      /\ v.owed = store[x].owed /\ v.rows = store[x].rows
  BY <1>1 DEF Store
<1>3. store' = [store EXCEPT ![x] = v]
  OBVIOUS
<1> HIDE DEF v
<1>4. Elsewhere(x) /\ store'[x] = v
  BY <1>2, <1>3, Rewrite
<1> QED
  BY <1>2, <1>4, StoreFields DEF PutRelay

LEMMA RowsPut ==
  ASSUME TypeOK, NEW x \in Slot, store[x] # None, NEW n \in 0..MaxRows,
         store' = [store EXCEPT ![x].rows = n]
  PROVE  PutRows(x, n)
<1> DEFINE v == [store[x] EXCEPT !.rows = n]
<1>1. store[x] \in Store
  BY DEF TypeOK
<1>2. /\ v \in Store /\ v.rows = n
      /\ v.lock = store[x].lock /\ v.acct = store[x].acct
      /\ v.relay = store[x].relay /\ v.enclave = store[x].enclave
      /\ v.pass = store[x].pass /\ v.phrase = store[x].phrase
      /\ v.repair = store[x].repair /\ v.owed = store[x].owed
  BY <1>1 DEF Store
<1>3. store' = [store EXCEPT ![x] = v]
  OBVIOUS
<1> HIDE DEF v
<1>4. Elsewhere(x) /\ store'[x] = v
  BY <1>2, <1>3, Rewrite
<1> QED
  BY <1>2, <1>4, StoreFields DEF PutRows

\* A store is removed, or made, at x.
PutNone(x) == Elsewhere(x) /\ store'[x] = None

PutEmpty(x, k) ==
    /\ Elsewhere(x) /\ store'[x] # None
    /\ store'[x].lock = k /\ store'[x].acct = None /\ store'[x].relay = FALSE
    /\ store'[x].enclave = None /\ store'[x].pass = None /\ store'[x].phrase = None
    /\ store'[x].repair = FALSE /\ store'[x].owed = FALSE /\ store'[x].rows = 0

LEMMA NonePut ==
  ASSUME TypeOK, NEW x \in Slot, store' = [store EXCEPT ![x] = None]
  PROVE  PutNone(x)
BY Rewrite DEF PutNone

LEMMA EmptyPut ==
  ASSUME TypeOK, NEW x \in Slot, NEW k \in KeyOrNone,
         store' = [store EXCEPT ![x] = EmptyStore(k)]
  PROVE  PutEmpty(x, k)
<1> DEFINE v == EmptyStore(k)
<1>1. /\ v \in Store
      /\ v.lock = k /\ v.acct = None /\ v.relay = FALSE /\ v.enclave = None
      /\ v.pass = None /\ v.phrase = None /\ v.repair = FALSE /\ v.owed = FALSE
      /\ v.rows = 0
  BY Kinds DEF EmptyStore, Store, KeyOrNone
<1> HIDE DEF v
<1>2. Elsewhere(x) /\ store'[x] = v
  BY <1>1, Rewrite DEF v
<1> QED
  BY <1>1, <1>2, StoreFields DEF PutEmpty

\* The store at x becomes a copy of the one at y, under the keychain's key.
PutCopy(x, y) ==
    /\ Elsewhere(x) /\ store'[x] # None
    /\ store'[x] = [store[y] EXCEPT !.lock = chain.db]
    /\ store'[x].lock = chain.db
    /\ store'[x].acct = store[y].acct /\ store'[x].relay = store[y].relay
    /\ store'[x].enclave = store[y].enclave /\ store'[x].pass = store[y].pass
    /\ store'[x].phrase = store[y].phrase
    /\ store'[x].repair = store[y].repair /\ store'[x].owed = store[y].owed
    /\ store'[x].rows = store[y].rows

LEMMA CopyPut ==
  ASSUME TypeOK, NEW x \in Slot, NEW y \in Slot, store[y] # None,
         store' = [store EXCEPT ![x] = [store[y] EXCEPT !.lock = chain.db]]
  PROVE  PutCopy(x, y)
<1> DEFINE v == [store[y] EXCEPT !.lock = chain.db]
<1>1. store[y] \in Store /\ chain.db \in KeyOrNone
  BY DEF TypeOK, Chain
<1>2. /\ v \in Store /\ v.lock = chain.db
      /\ v.acct = store[y].acct /\ v.relay = store[y].relay
      /\ v.enclave = store[y].enclave /\ v.pass = store[y].pass
      /\ v.phrase = store[y].phrase /\ v.repair = store[y].repair
      /\ v.owed = store[y].owed /\ v.rows = store[y].rows
  BY <1>1 DEF Store
<1>3. store' = [store EXCEPT ![x] = v]
  OBVIOUS
<1> HIDE DEF v
<1>4. Elsewhere(x) /\ store'[x] = v
  BY <1>2, <1>3, Rewrite
<1> QED
  BY <1>2, <1>4, StoreFields DEF PutCopy, v

\* A key is taken from the keychain, or minted into it.
EnsureDb ==
    /\ chain' \in Chain /\ minted' \in 0..MaxKeys /\ era' = era
    /\ chain'.db = Ensured("db") /\ chain'.rec = chain.rec /\ chain'.db \in Key
    /\ chain.db # None => chain'.db = chain.db

EnsureRec ==
    /\ chain' \in Chain /\ minted' \in 0..MaxKeys /\ era' = era
    /\ chain'.rec = Ensured("rec") /\ chain'.db = chain.db /\ chain'.rec \in Key
    /\ chain.rec # None => chain'.rec = chain.rec

LEMMA DbEnsured == TypeOK /\ EnsureKey("db") => EnsureDb
BY Kinds DEF TypeOK, EnsureKey, EnsureDb, Ensured, Mint, Chain, Key, KeyOrNone

LEMMA RecEnsured == TypeOK /\ EnsureKey("rec") => EnsureRec
BY Kinds DEF TypeOK, EnsureKey, EnsureRec, Ensured, Mint, Chain, Key, KeyOrNone

LEMMA Minted == TypeOK /\ Mint => minted' \in 0..MaxKeys /\ minted + 1 \in Key
BY Kinds DEF TypeOK, Mint, Key

\* The doors beside the store at x are written.
DoorElsewhere(x) ==
    /\ door' \in [Account -> Door]
    /\ \A a \in Account \ {x} : door'[a] = door[a]

PassDoor(x, k) ==
    /\ DoorElsewhere(x)
    /\ door'[x].pass = k /\ door'[x].phrase = door[x].phrase

PhraseDoor(x, k, l) ==
    /\ DoorElsewhere(x)
    /\ door'[x].pass = door[x].pass
    /\ door'[x].phrase # None /\ door'[x].phrase.key = k /\ door'[x].phrase.lock = l

DoorGone(x) ==
    /\ DoorElsewhere(x)
    /\ door'[x].pass = None /\ door'[x].phrase = None

LEMMA PassDoorPut ==
  ASSUME TypeOK, NEW x \in Account, NEW k \in KeyOrNone,
         door' = [door EXCEPT ![x].pass = k]
  PROVE  PassDoor(x, k)
BY DEF TypeOK, Door, PassDoor, DoorElsewhere

LEMMA PhraseDoorPut ==
  ASSUME TypeOK, NEW x \in Account, NEW k \in Key, NEW l \in Key,
         door' = [door EXCEPT ![x].phrase = [key |-> k, lock |-> l]]
  PROVE  PhraseDoor(x, k, l)
BY NoneAssumption DEF NoneAssumption, TypeOK, Door, PhraseDoor, DoorElsewhere

LEMMA DoorRemoved ==
  ASSUME TypeOK, NEW x \in Account, door' = [door EXCEPT ![x] = NoDoor]
  PROVE  DoorGone(x)
BY DEF TypeOK, Door, NoDoor, DoorGone, DoorElsewhere, KeyOrNone

-----------------------------------------------------------------------------
(* What a step does to the home of the rows, as AccountHome sees it.         *)

RowsIn(s) == IF store[s] = None THEN 0 ELSE store[s].rows
Gone == flow \in {"forget", "reset"}

\* The rows are at s.
AtHome(s) == \/ roster = {} /\ s = Plain
             \/ roster = {s} /\ s \in Account

HomeStep == [AbstractHome!Next]_<<Home, RowsIn(HomeSlot), Gone>>

\* AccountHome's home, from the roster.
LEMMA HomeIs ==
  ASSUME NEW s
  PROVE  /\ AtHome(s) => HomeSlot = s /\ Home = IF roster = {} THEN None ELSE s
         /\ AtHome(s)' => HomeSlot' = s' /\ Home' = IF roster' = {} THEN None ELSE s'
BY DEF AtHome, Home, HomeSlot

\* The rows are somewhere.
LEMMA Homed ==
  ASSUME TypeOK, Located
  PROVE  \E s \in Slot : AtHome(s)
BY DEF TypeOK, Located, AtHome, Slot

\* The next launch opens the same store, with the same rows.
LEMMA HomeStays ==
  ASSUME TypeOK, Located, roster' = roster,
         flow' \in {"forget", "reset"} <=> flow \in {"forget", "reset"},
         \A s \in Slot : AtHome(s) => RowsIn(s)' = RowsIn(s)
  PROVE  HomeStep
<1>1. PICK s \in Slot : AtHome(s)
  BY Homed
<1>2. HomeSlot = s /\ HomeSlot' = s /\ Home' = Home
  BY <1>1, HomeIs DEF AtHome, Home, HomeSlot
<1>3. RowsIn(HomeSlot)' = RowsIn(HomeSlot)
  BY <1>1, <1>2 DEF RowsIn
<1>4. Gone' = Gone
  <2>1. Gone \in BOOLEAN /\ Gone' \in BOOLEAN
    BY DEF Gone
  <2>2. Gone' <=> Gone
    BY DEF Gone
  <2> QED
    BY <2>1, <2>2
<1> QED
  BY <1>2, <1>3, <1>4 DEF HomeStep

\* The user begins to leave, or is done.
LEMMA HomeLeaves ==
  ASSUME TypeOK, Located, roster' = roster,
         flow' \in {"forget", "reset"} <=> ~(flow \in {"forget", "reset"}),
         \A s \in Slot : AtHome(s) => RowsIn(s)' = RowsIn(s)
  PROVE  HomeStep
<1>1. PICK s \in Slot : AtHome(s)
  BY Homed
<1>2. HomeSlot = s /\ HomeSlot' = s /\ Home' = Home
  BY <1>1, HomeIs DEF AtHome, Home, HomeSlot
<1>3. RowsIn(HomeSlot)' = RowsIn(HomeSlot)
  BY <1>1, <1>2 DEF RowsIn
<1>4. Gone' = ~Gone
  <2>1. Gone \in BOOLEAN /\ Gone' \in BOOLEAN
    BY DEF Gone
  <2>2. Gone' <=> ~Gone
    BY DEF Gone
  <2> QED
    BY <2>1, <2>2
<1> QED
  BY <1>2, <1>3, <1>4 DEF HomeStep, RowsIn, Gone, AbstractHome!Next, AbstractHome!Leave

\* The rows are given up.
LEMMA HomeErases ==
  ASSUME TypeOK, Located, roster' \in {roster, {}}, flow \in {"forget", "reset"},
         \A s \in Slot : AtHome(s)' => RowsIn(s)' = 0
  PROVE  HomeStep
<1>1. PICK s \in Slot : AtHome(s)
  BY Homed
<1>2. PICK t \in Slot : AtHome(t)'
  BY <1>1 DEF AtHome, Slot
<1>3. HomeSlot' = t /\ Home' \in {Home, None}
  BY <1>1, <1>2, HomeIs DEF AtHome, Home, HomeSlot
<1>4. RowsIn(HomeSlot)' = 0
  BY <1>2, <1>3 DEF RowsIn
<1>5. Gone' \in BOOLEAN /\ Gone
  BY DEF Gone
<1> QED
  BY <1>3, <1>4, <1>5 DEF HomeStep, RowsIn, Gone, AbstractHome!Next, AbstractHome!Erase

\* They move to an account, all of them.
LEMMA HomeSettles ==
  ASSUME TypeOK, Located, UNCHANGED flow, flow \notin {"forget", "reset"},
         NEW a \in Account, a \notin roster, roster' = {a},
         \A s \in Slot : AtHome(s) => RowsIn(a)' = RowsIn(s)
  PROVE  HomeStep
<1>1. PICK s \in Slot : AtHome(s)
  BY Homed
<1>2. HomeSlot = s /\ Home # a
  BY <1>1, HomeIs, Kinds DEF AtHome
<1>3. HomeSlot' = a /\ Home' = a
  BY DEF Home, HomeSlot
<1>4. RowsIn(HomeSlot)' = RowsIn(HomeSlot)
  BY <1>1, <1>2, <1>3 DEF RowsIn
<1> QED
  BY <1>2, <1>3, <1>4 DEF HomeStep, RowsIn, Gone, AbstractHome!Next, AbstractHome!Settle

\* The user adds to them.
LEMMA HomeWritten ==
  ASSUME TypeOK, Located, roster' = roster, UNCHANGED flow,
         \A s \in Slot : AtHome(s) => RowsIn(s)' = RowsIn(s) + 1
  PROVE  HomeStep
<1>1. PICK s \in Slot : AtHome(s)
  BY Homed
<1>2. HomeSlot = s /\ HomeSlot' = s /\ Home' = Home
  BY <1>1, HomeIs DEF AtHome, Home, HomeSlot
<1>3. RowsIn(HomeSlot)' = RowsIn(HomeSlot) + 1
  BY <1>1, <1>2 DEF RowsIn
<1> QED
  BY <1>2, <1>3 DEF HomeStep, RowsIn, Gone, AbstractHome!Next, AbstractHome!Write

-----------------------------------------------------------------------------
(* Each step of the launch keeps the invariant. *)

\* The flag is set before a repair is owed.
LEMMA FlagRepairKeeps == IInv /\ FlagRepair => IInv' /\ HomeStep
<1> SUFFICES ASSUME IInv, FlagRepair PROVE IInv' /\ HomeStep
  OBVIOUS
<1> USE DEF IInv, FlagRepair
<1>1. PutRepair(at, TRUE)
  BY Kinds, RepairPut DEF TypeOK, Located, Ready, Launching
<1>2. pc' \in Phase \ {"flow"} /\ session' \in KeyOrNone /\ at' \in Slot
  BY DEF TypeOK, Phase, KeyOrNone, Slot
<1>3. TypeOK'
  BY <1>1, <1>2 DEF TypeOK, PutRepair, Elsewhere
<1>4. Located'
  BY <1>1, <1>2
     DEF Located, Ready, Launching, PutRepair, Elsewhere, TypeOK, Slot
<1>5. Owing'
  BY <1>1, <1>2
     DEF Owing, OwesHere, HasEnclave, RewindOwed, Located, Ready, Launching,
         PutRepair, Elsewhere, TypeOK, Slot
<1>6. Listed'
  BY <1>1, <1>2
     DEF Listed, Sound, SamePhrase, PhraseOf, InMerge, InRelayHalf, Located,
         Ready, Launching, PutRepair, Elsewhere, TypeOK, Slot
<1>7. Carried'
  BY <1>1, <1>2 DEF Carried, PutRepair, Elsewhere, TypeOK, Slot
<1>8. Settles' /\ Merges' /\ Leaves'
  BY DEF Settles, Merges, Leaves
<1>9. HomeStep
  BY <1>1, <1>2, HomeStays, Kinds
     DEF RowsIn, AtHome, Slot, TypeOK, PutRepair, Elsewhere, Located, Ready,
         Launching
<1> QED
  BY <1>3, <1>4, <1>5, <1>6, <1>7, <1>8, <1>9

\* A launch without an unlock goes on to a rewind if one may be owed.
LEMMA ResumeRepairKeeps == IInv /\ ResumeRepair => IInv' /\ HomeStep
<1> SUFFICES ASSUME IInv, ResumeRepair PROVE IInv' /\ HomeStep
  OBVIOUS
<1> USE DEF IInv, ResumeRepair
<1>1. pc' \in Phase \ {"flow"} /\ session' \in KeyOrNone /\ at' \in Slot
  BY DEF TypeOK, Phase, KeyOrNone, Slot
<1>2. TypeOK'
  BY <1>1 DEF TypeOK
<1>3. Located'
  BY <1>1 DEF Located, Ready, Launching, TypeOK, Slot
<1>4. Owing'
  BY <1>1
     DEF Owing, OwesHere, HasEnclave, RewindOwed, Located, Ready, Launching,
         TypeOK, Slot
<1>5. Listed'
  BY <1>1
     DEF Listed, Sound, SamePhrase, PhraseOf, InMerge, InRelayHalf, Located,
         Ready, Launching, TypeOK, Slot
<1>6. Carried'
  BY <1>1 DEF Carried, TypeOK, Slot
<1>7. Settles' /\ Merges' /\ Leaves'
  BY DEF Settles, Merges, Leaves
<1>8. HomeStep
  BY <1>1, HomeStays, Kinds
     DEF RowsIn, AtHome, Slot, TypeOK, Located, Ready, Launching
<1> QED
  BY <1>2, <1>3, <1>4, <1>5, <1>6, <1>7, <1>8

\* Nothing is owed once the store is rewound,
LEMMA RewindKeeps == IInv /\ Rewind => IInv' /\ HomeStep
<1> SUFFICES ASSUME IInv, Rewind PROVE IInv' /\ HomeStep
  OBVIOUS
<1> USE DEF IInv, Rewind
<1>1. PutOwed(at, FALSE)
  BY Kinds, OwedPut DEF TypeOK, Located, Ready, Launching
<1>2. pc' \in Phase \ {"flow"} /\ session' \in KeyOrNone /\ at' \in Slot
  BY DEF TypeOK, Phase, KeyOrNone, Slot
<1>3. TypeOK'
  BY <1>1, <1>2 DEF TypeOK, PutOwed, Elsewhere
<1>4. Located'
  BY <1>1, <1>2 DEF Located, Ready, Launching, PutOwed, Elsewhere, TypeOK, Slot
<1>5. Owing'
  BY <1>1, <1>2
     DEF Owing, OwesHere, HasEnclave, RewindOwed, Located, Ready, Launching,
         PutOwed, Elsewhere, TypeOK, Slot
<1>6. Listed'
  BY <1>1, <1>2
     DEF Listed, Sound, SamePhrase, PhraseOf, InMerge, InRelayHalf, Located,
         Ready, Launching, PutOwed, Elsewhere, TypeOK, Slot
<1>7. Carried'
  BY <1>1, <1>2 DEF Carried, PutOwed, Elsewhere, TypeOK, Slot
<1>8. Settles' /\ Merges' /\ Leaves'
  BY DEF Settles, Merges, Leaves
<1>9. HomeStep
  BY <1>1, <1>2, HomeStays, Kinds
     DEF RowsIn, AtHome, Slot, TypeOK, PutOwed, Elsewhere, Located, Ready,
         Launching
<1> QED
  BY <1>3, <1>4, <1>5, <1>6, <1>7, <1>8, <1>9

\* so the flag may go then.
LEMMA ClearRepairKeeps == IInv /\ ClearRepair => IInv' /\ HomeStep
<1> SUFFICES ASSUME IInv, ClearRepair PROVE IInv' /\ HomeStep
  OBVIOUS
<1> USE DEF IInv, ClearRepair
<1>1. PutRepair(at, FALSE)
  BY Kinds, RepairPut DEF TypeOK, Located, Ready, Launching
<1>2. pc' \in Phase \ {"flow"} /\ session' \in KeyOrNone /\ at' \in Slot
  BY DEF TypeOK, Phase, KeyOrNone, Slot
<1>3. TypeOK'
  BY <1>1, <1>2 DEF TypeOK, PutRepair, Elsewhere
<1>4. Located'
  BY <1>1, <1>2
     DEF Located, Ready, Launching, PutRepair, Elsewhere, TypeOK, Slot
<1>5. Owing'
  BY <1>1, <1>2
     DEF Owing, OwesHere, HasEnclave, RewindOwed, Located, Ready, Launching,
         PutRepair, Elsewhere, TypeOK, Slot
<1>6. Listed'
  BY <1>1, <1>2
     DEF Listed, Sound, SamePhrase, PhraseOf, InMerge, InRelayHalf, Located,
         Ready, Launching, PutRepair, Elsewhere, TypeOK, Slot
<1>7. Carried'
  BY <1>1, <1>2 DEF Carried, PutRepair, Elsewhere, TypeOK, Slot
<1>8. Settles' /\ Merges' /\ Leaves'
  BY DEF Settles, Merges, Leaves
<1>9. HomeStep
  BY <1>1, <1>2, HomeStays, Kinds
     DEF RowsIn, AtHome, Slot, TypeOK, PutRepair, Elsewhere, Located, Ready,
         Launching
<1> QED
  BY <1>3, <1>4, <1>5, <1>6, <1>7, <1>8, <1>9

\* With no account listed, the rows are in the plaintext store.
LEMMA LaunchPlainKeeps == IInv /\ LaunchPlain => IInv' /\ HomeStep
<1> SUFFICES ASSUME IInv, LaunchPlain PROVE IInv' /\ HomeStep
  OBVIOUS
<1> USE DEF IInv, LaunchPlain
<1>1. EmptyStore(None) \in Store
  BY Kinds DEF EmptyStore, Store, KeyOrNone
<1>2. Elsewhere(Plain) /\ store'[Plain] # None
  BY <1>1, Rewrite, StoreFields DEF TypeOK, Slot, Elsewhere
<1>3. through' = NotADoor
      /\ through' \in [by : {"none", "password", "recovery"}, key : KeyOrNone]
  BY DEF NotADoor, KeyOrNone
<1>4. store[Plain] = None => store'[Plain] = EmptyStore(None)
  BY DEF TypeOK, Slot
<1>5. store[Plain] # None => store'[Plain] = store[Plain]
  OBVIOUS
<1>6. pc' \in Phase \ {"flow"} /\ session' \in KeyOrNone /\ at' \in Slot
  BY DEF TypeOK, Phase, KeyOrNone, Slot
<1>7. TypeOK'
  BY <1>1, <1>2, <1>3, <1>4, <1>5, <1>6, Kinds DEF TypeOK, Elsewhere
<1>8. Located'
  BY <1>1, <1>2, <1>3, <1>4, <1>5, <1>6, Kinds
     DEF Located, Ready, Launching, NotADoor, Elsewhere, EmptyStore, KeyOrNone,
         TypeOK, Slot
<1>9. Owing'
  BY <1>1, <1>2, <1>3, <1>4, <1>5, <1>6, Kinds
     DEF Owing, OwesHere, HasEnclave, RewindOwed, Located, Ready, Launching,
         NotADoor, Elsewhere, EmptyStore, KeyOrNone, TypeOK, Slot
<1>10. Listed'
  BY <1>1, <1>2, <1>3, <1>4, <1>5, <1>6, Kinds
     DEF Listed, Sound, SamePhrase, PhraseOf, InMerge, InRelayHalf, Located,
         Ready, Launching, NotADoor, Elsewhere, EmptyStore, KeyOrNone, TypeOK,
         Slot
<1>11. Carried'
  BY <1>1, <1>2, <1>3, <1>4, <1>5, <1>6, Kinds
     DEF Carried, NotADoor, Elsewhere, EmptyStore, KeyOrNone, TypeOK, Slot
<1>12. Settles' /\ Merges' /\ Leaves'
  BY DEF Settles, Merges, Leaves
<1>13. HomeStep
  BY <1>1, <1>2, <1>3, <1>4, <1>5, <1>6, HomeStays, Kinds
     DEF RowsIn, AtHome, Slot, TypeOK, Elsewhere, EmptyStore, Located, Ready,
         Launching
<1> QED
  BY <1>7, <1>8, <1>9, <1>10, <1>11, <1>12, <1>13

\* With one listed, no row is in a plaintext store that is swept.
LEMMA LaunchAccountKeeps == IInv /\ LaunchAccount => IInv' /\ HomeStep
<1> SUFFICES ASSUME IInv, LaunchAccount PROVE IInv' /\ HomeStep
  OBVIOUS
<1> USE DEF IInv, LaunchAccount
<1>1. at' \in roster /\ roster = {at'} /\ at' \in Account
  BY DEF TypeOK, Located, Ready, Launching
<1>2. Elsewhere(Plain) /\ store'[Plain] = None
  BY Rewrite DEF Slot
<1>3. \A a \in Account : store'[a] = store[a]
  BY <1>2, Kinds DEF Elsewhere, Slot
<1>4. through' = NotADoor
      /\ through' \in [by : {"none", "password", "recovery"}, key : KeyOrNone]
  BY DEF NotADoor, KeyOrNone
<1>5. pc' \in Phase \ {"flow"} /\ session' \in KeyOrNone /\ at' \in Slot
  BY <1>1 DEF TypeOK, Phase, KeyOrNone, Slot
<1>6. TypeOK'
  BY <1>1, <1>2, <1>3, <1>4, <1>5, Kinds DEF TypeOK, Elsewhere
<1>7. Located'
  BY <1>1, <1>2, <1>3, <1>4, <1>5, Kinds
     DEF Located, Ready, Launching, NotADoor, Elsewhere, KeyOrNone, TypeOK,
         Slot
<1>8. Owing'
  BY <1>1, <1>2, <1>3, <1>4, <1>5, Kinds
     DEF Owing, OwesHere, HasEnclave, RewindOwed, Located, Ready, Launching,
         NotADoor, Elsewhere, KeyOrNone, TypeOK, Slot
<1>9. Listed'
  BY <1>1, <1>2, <1>3, <1>4, <1>5, Kinds
     DEF Listed, Sound, SamePhrase, PhraseOf, InMerge, InRelayHalf, Located,
         Ready, Launching, NotADoor, Elsewhere, KeyOrNone, TypeOK, Slot
<1>10. Carried'
  BY <1>1, <1>2, <1>3, <1>4, <1>5, Kinds
     DEF Carried, NotADoor, Elsewhere, KeyOrNone, TypeOK, Slot
<1>11. Settles' /\ Merges' /\ Leaves'
  BY DEF Settles, Merges, Leaves
<1>12. HomeStep
  BY <1>1, <1>2, <1>3, <1>4, <1>5, HomeStays, Kinds
     DEF RowsIn, AtHome, Slot, TypeOK, Elsewhere, Located, Ready, Launching
<1> QED
  BY <1>6, <1>7, <1>8, <1>9, <1>10, <1>11, <1>12

\* A listed account's password door gives up the key of its file,
LEMMA UnlockByPasswordKeeps == IInv /\ UnlockByPassword => IInv' /\ HomeStep
<1> SUFFICES ASSUME IInv, UnlockByPassword PROVE IInv' /\ HomeStep
  OBVIOUS
<1> USE DEF IInv, UnlockByPassword
<1>1. at \in Account /\ store[at] # None
  BY Kinds DEF TypeOK, Located, Ready, Launching
<1>2. door[at].pass \in Key /\ chain'.db = door[at].pass /\ chain'.rec = chain.rec
      /\ chain' \in Chain
  BY <1>1 DEF TypeOK, Door, KeyOrNone, Chain
<1>3. through'.by = "password"
      /\ through' \in [by : {"none", "password", "recovery"}, key : KeyOrNone]
  BY DEF KeyOrNone
<1>4. pc' \in Phase \ {"flow"} /\ session' \in KeyOrNone /\ at' \in Slot
  BY DEF TypeOK, Phase, KeyOrNone, Slot
<1>5. TypeOK'
  BY <1>1, <1>2, <1>3, <1>4, Kinds DEF TypeOK
<1>6. Located'
  BY <1>1, <1>2, <1>3, <1>4, Kinds
     DEF Located, Ready, Launching, KeyOrNone, TypeOK, Slot
<1>7. Owing'
  BY <1>1, <1>2, <1>3, <1>4, Kinds
     DEF Owing, OwesHere, HasEnclave, RewindOwed, Located, Ready, Launching,
         KeyOrNone, TypeOK, Slot
<1>8. Listed'
  BY <1>1, <1>2, <1>3, <1>4, Kinds
     DEF Listed, Sound, SamePhrase, PhraseOf, InMerge, InRelayHalf, Located,
         Ready, Launching, KeyOrNone, TypeOK, Slot
<1>9. Carried'
  BY <1>1, <1>2, <1>3, <1>4, Kinds DEF Carried, KeyOrNone, TypeOK, Slot
<1>10. Settles' /\ Merges' /\ Leaves'
  BY DEF Settles, Merges, Leaves
<1>11. HomeStep
  BY <1>1, <1>2, <1>3, <1>4, HomeStays, Kinds
     DEF RowsIn, AtHome, Slot, TypeOK, Located, Ready, Launching
<1> QED
  BY <1>5, <1>6, <1>7, <1>8, <1>9, <1>10, <1>11

\* as does its phrase door.  No rewind is owed here: the keychain was empty.
LEMMA UnlockByPhraseKeeps == IInv /\ UnlockByPhrase => IInv' /\ HomeStep
<1> SUFFICES ASSUME IInv, UnlockByPhrase PROVE IInv' /\ HomeStep
  OBVIOUS
<1> USE DEF IInv, UnlockByPhrase
<1>1. at \in Account /\ store[at] # None
  BY Kinds DEF TypeOK, Located, Ready, Launching
<1>2. door[at].phrase \in [key : Key, lock : Key]
  BY <1>1 DEF TypeOK, Door
<1>3. chain'.db = door[at].phrase.lock /\ chain'.rec = chain.rec /\ chain' \in Chain
  BY <1>2 DEF TypeOK, KeyOrNone, Chain
<1>4. through'.by = "recovery" /\ through'.key = door[at].phrase.key
      /\ through' \in [by : {"none", "password", "recovery"}, key : KeyOrNone]
  BY <1>2 DEF KeyOrNone
<1>5. pc' \in Phase \ {"flow"} /\ session' \in KeyOrNone /\ at' \in Slot
  BY DEF TypeOK, Phase, KeyOrNone, Slot
<1>6. TypeOK'
  BY <1>1, <1>2, <1>3, <1>4, <1>5, Kinds DEF TypeOK
<1>7. Located'
  BY <1>1, <1>2, <1>3, <1>4, <1>5, Kinds
     DEF Located, Ready, Launching, KeyOrNone, TypeOK, Slot
<1>8. Owing'
  BY <1>1, <1>2, <1>3, <1>4, <1>5, Kinds
     DEF Owing, OwesHere, HasEnclave, RewindOwed, Located, Ready, Launching,
         KeyOrNone, TypeOK, Slot
<1>9. Listed'
  BY <1>1, <1>2, <1>3, <1>4, <1>5, Kinds
     DEF Listed, Sound, SamePhrase, PhraseOf, InMerge, InRelayHalf, Located,
         Ready, Launching, KeyOrNone, TypeOK, Slot
<1>10. Carried'
  BY <1>1, <1>2, <1>3, <1>4, <1>5, Kinds DEF Carried, KeyOrNone, TypeOK, Slot
<1>11. Settles' /\ Merges' /\ Leaves'
  BY DEF Settles, Merges, Leaves
<1>12. HomeStep
  BY <1>1, <1>2, <1>3, <1>4, <1>5, HomeStays, Kinds
     DEF RowsIn, AtHome, Slot, TypeOK, Located, Ready, Launching
<1> QED
  BY <1>6, <1>7, <1>8, <1>9, <1>10, <1>11, <1>12

\* The file that opens is encrypted under the keychain's key, which is minted
\* only for a file that is not there.
LEMMA OpenWithKeyKeeps == IInv /\ OpenWithKey => IInv' /\ HomeStep
<1> SUFFICES ASSUME IInv, OpenWithKey PROVE IInv' /\ HomeStep
  OBVIOUS
<1> USE DEF IInv, OpenWithKey
<1>1. at \in Account /\ roster = {at}
  BY Kinds DEF TypeOK, Located, Ready, Launching
<1>2. EnsureDb
  BY DbEnsured
<1>3. store[at] = None => PutEmpty(at, chain'.db)
  BY <1>1, <1>2, EmptyPut DEF Slot, KeyOrNone, EnsureDb
<1>4. store[at] # None => store' = store /\ chain'.db = chain.db
  BY <1>2 DEF Located, Ready, Launching, EnsureDb
<1>5. Elsewhere(at) /\ store'[at] # None
  BY <1>1, <1>3, <1>4 DEF TypeOK, Slot, Elsewhere, PutEmpty
<1>6. pc' \in Phase \ {"flow"} /\ session' \in KeyOrNone /\ at' \in Slot
  BY DEF TypeOK, Phase, KeyOrNone, Slot
<1>7. TypeOK'
  BY <1>1, <1>2, <1>3, <1>4, <1>5, <1>6, Kinds
     DEF TypeOK, PutEmpty, EnsureDb, Elsewhere
<1>8. Located'
  BY <1>1, <1>2, <1>3, <1>4, <1>5, <1>6, Kinds
     DEF Located, Ready, Launching, PutEmpty, EnsureDb, Elsewhere, TypeOK, Slot
<1>9. Owing'
  BY <1>1, <1>2, <1>3, <1>4, <1>5, <1>6, Kinds
     DEF Owing, OwesHere, HasEnclave, RewindOwed, Located, Ready, Launching,
         PutEmpty, EnsureDb, Elsewhere, TypeOK, Slot
<1>10. Listed'
  BY <1>1, <1>2, <1>3, <1>4, <1>5, <1>6, Kinds
     DEF Listed, Sound, SamePhrase, PhraseOf, InMerge, InRelayHalf, Located,
         Ready, Launching, PutEmpty, EnsureDb, Elsewhere, TypeOK, Slot
<1>11. Carried'
  BY <1>1, <1>2, <1>3, <1>4, <1>5, <1>6, Kinds
     DEF Carried, PutEmpty, EnsureDb, Elsewhere, TypeOK, Slot
<1>12. Settles' /\ Merges' /\ Leaves'
  BY DEF Settles, Merges, Leaves
<1>13. HomeStep
  BY <1>1, <1>2, <1>3, <1>4, <1>5, <1>6, HomeStays, Kinds
     DEF RowsIn, AtHome, Slot, TypeOK, PutEmpty, Elsewhere, Located, Ready,
         Launching
<1> QED
  BY <1>7, <1>8, <1>9, <1>10, <1>11, <1>12, <1>13

\* The phrase the door is sealed under is the account's.
LEMMA ResealKeeps == IInv /\ Reseal => IInv' /\ HomeStep
<1> SUFFICES ASSUME IInv, Reseal PROVE IInv' /\ HomeStep
  OBVIOUS
<1> USE DEF IInv, Reseal
<1>1. at \in Account /\ roster = {at}
  BY Kinds DEF TypeOK, Located, Ready, Launching
<1>2. store[at] # None /\ chain.db # None /\ chain.db \in Key
      /\ store[at].lock = chain.db
  BY DEF TypeOK, Chain, KeyOrNone, Located, Ready, Launching
<1>3. chain' \in Chain /\ chain'.db = chain.db
      /\ chain'.rec = IF through.by = "recovery" THEN through.key ELSE chain.rec
  BY DEF TypeOK, Chain
<1>4. chain'.rec # None => PhraseDoor(at, chain'.rec, chain.db)
  BY <1>1, <1>2, <1>3, PhraseDoorPut DEF Chain, KeyOrNone
<1>5. chain'.rec = None => door' = door
  BY <1>3
<1>6. DoorElsewhere(at) /\ door'[at].pass = door[at].pass
  BY <1>4, <1>5 DEF TypeOK, PhraseDoor, DoorElsewhere
<1>7. pc' \in Phase \ {"flow"} /\ session' \in KeyOrNone /\ at' \in Slot
  BY DEF TypeOK, Phase, KeyOrNone, Slot
<1>8. TypeOK'
  BY <1>1, <1>2, <1>3, <1>4, <1>5, <1>6, <1>7, Kinds
     DEF TypeOK, PhraseDoor, DoorElsewhere
<1>9. Located'
  BY <1>1, <1>2, <1>3, <1>4, <1>5, <1>6, <1>7, Kinds
     DEF Located, Ready, Launching, PhraseDoor, DoorElsewhere, TypeOK, Slot
<1>10. Owing'
  BY <1>1, <1>2, <1>3, <1>4, <1>5, <1>6, <1>7, Kinds
     DEF Owing, OwesHere, HasEnclave, RewindOwed, Located, Ready, Launching,
         PhraseDoor, DoorElsewhere, TypeOK, Slot
<1>11. Listed'
  BY <1>1, <1>2, <1>3, <1>4, <1>5, <1>6, <1>7, Kinds
     DEF Listed, Sound, SamePhrase, PhraseOf, InMerge, InRelayHalf, Located,
         Ready, Launching, PhraseDoor, DoorElsewhere, TypeOK, Slot
<1>12. Carried'
  BY <1>1, <1>2, <1>3, <1>4, <1>5, <1>6, <1>7, Kinds
     DEF Carried, PhraseDoor, DoorElsewhere, TypeOK, Slot
<1>13. Settles' /\ Merges' /\ Leaves'
  BY DEF Settles, Merges, Leaves
<1>14. HomeStep
  BY <1>1, <1>2, <1>3, <1>4, <1>5, <1>6, <1>7, HomeStays, Kinds
     DEF RowsIn, AtHome, Slot, TypeOK, Located, Ready, Launching
<1> QED
  BY <1>8, <1>9, <1>10, <1>11, <1>12, <1>13, <1>14

\* Either door's master key is the account's; taking one owes a rewind, and the
\* flag is up.
LEMMA AdoptKeeps == IInv /\ Adopt => IInv' /\ HomeStep
<1> SUFFICES ASSUME IInv, Adopt PROVE IInv' /\ HomeStep
  OBVIOUS
<1> USE DEF IInv, Adopt
<1>1. at \in Account /\ roster = {at}
  BY Kinds DEF TypeOK, Located, Ready, Launching
<1>2. store[at] # None /\ store[at] \in Store
  BY DEF TypeOK, Slot, Located, Ready, Launching
<1> DEFINE mk == MasterThroughDoor
<1>3. mk # None => mk \in Key /\ (mk = store[at].pass \/ (store[at].phrase # None
      /\ mk = store[at].phrase.mk))
  BY <1>2, StoreFields DEF MasterThroughDoor, KeyOrNone
<1> HIDE DEF mk
<1>4. through' = NotADoor
      /\ through' \in [by : {"none", "password", "recovery"}, key : KeyOrNone]
  BY DEF NotADoor, KeyOrNone
<1>5. mk = None \/ (HasEnclave(at) /\ store[at].enclave.mk = mk) => store' = store
  BY DEF mk
<1>6. mk # None => EnclaveWrap(mk) \in [era : 0..MaxEra, mk : Key]
      /\ EnclaveWrap(mk).era = era /\ EnclaveWrap(mk).mk = mk
  BY <1>3 DEF TypeOK, EnclaveWrap
<1>7. mk # None /\ ~(HasEnclave(at) /\ store[at].enclave.mk = mk) =>
          PutRebound(at, EnclaveWrap(mk)) /\ pc' = "rewind"
  BY <1>1, <1>2, <1>6, ReboundPut DEF Slot, mk
<1>8. Elsewhere(at) /\ store'[at] # None
  BY <1>1, <1>2, <1>5, <1>7 DEF TypeOK, Slot, Elsewhere, PutRebound
<1>9. pc' \in Phase \ {"flow"} /\ session' \in KeyOrNone /\ at' \in Slot
  BY DEF TypeOK, Phase, KeyOrNone, Slot
<1>10. TypeOK'
  BY <1>1, <1>2, <1>3, <1>4, <1>5, <1>6, <1>7, <1>8, <1>9, Kinds
     DEF TypeOK, PutRebound, Elsewhere
<1>11. Located'
  BY <1>1, <1>2, <1>3, <1>4, <1>5, <1>6, <1>7, <1>8, <1>9, Kinds
     DEF Located, Ready, Launching, PutRebound, EnclaveWrap, Elsewhere, TypeOK,
         Slot
<1>12. Owing'
  BY <1>1, <1>2, <1>3, <1>4, <1>5, <1>6, <1>7, <1>8, <1>9, Kinds
     DEF Owing, OwesHere, HasEnclave, RewindOwed, Located, Ready, Launching,
         PutRebound, EnclaveWrap, Elsewhere, TypeOK, Slot
<1>13. Listed'
  BY <1>1, <1>2, <1>3, <1>4, <1>5, <1>6, <1>7, <1>8, <1>9, Kinds
     DEF Listed, Sound, SamePhrase, PhraseOf, InMerge, InRelayHalf, Located,
         Ready, Launching, PutRebound, EnclaveWrap, Elsewhere, TypeOK, Slot
<1>14. Carried'
  BY <1>1, <1>2, <1>3, <1>4, <1>5, <1>6, <1>7, <1>8, <1>9, Kinds
     DEF Carried, PutRebound, EnclaveWrap, Elsewhere, TypeOK, Slot
<1>15. Settles' /\ Merges' /\ Leaves'
  BY DEF Settles, Merges, Leaves
<1>16. HomeStep
  BY <1>1, <1>2, <1>3, <1>4, <1>5, <1>6, <1>7, <1>8, <1>9, HomeStays, Kinds
     DEF RowsIn, AtHome, Slot, TypeOK, PutRebound, Elsewhere, Located, Ready,
         Launching
<1> QED
  BY <1>10, <1>11, <1>12, <1>13, <1>14, <1>15, <1>16

\* A listed account's store never has its master key minted.
LEMMA EnsureSessionKeeps == IInv /\ EnsureSession => IInv' /\ HomeStep
<1> SUFFICES ASSUME IInv, EnsureSession PROVE IInv' /\ HomeStep
  OBVIOUS
<1> USE DEF IInv, EnsureSession
<1>1. at \in Account /\ roster = {at}
  BY Kinds DEF TypeOK, Located, Ready, Launching
<1>2. store[at] # None /\ store[at] \in Store /\ session = None
  BY DEF TypeOK, Slot, Located, Ready, Launching
<1> DEFINE e == EnclaveWrap(minted + 1)
<1>3. ~HasEnclave(at) /\ store[at].acct = None => minted + 1 \in Key
      /\ e \in [era : 0..MaxEra, mk : Key] /\ e.era = era /\ e.mk = minted + 1
  BY Minted DEF TypeOK, EnclaveWrap
<1>4. HasEnclave(at) => store' = store /\ minted' = minted
      /\ session' = store[at].enclave.mk /\ session' \in Key
  BY <1>2, StoreFields DEF HasEnclave
<1>5. ~HasEnclave(at) /\ store[at].acct = None => PutEnclave(at, e)
      /\ session' = minted + 1 /\ minted' \in 0..MaxKeys
  BY <1>1, <1>2, <1>3, EnclavePut, Minted DEF Slot
<1>6. ~HasEnclave(at) /\ store[at].acct # None => PutRepair(at, TRUE)
      /\ session' = None /\ minted' = minted
  BY <1>1, <1>2, RepairPut DEF Slot
<1> HIDE DEF e
<1>7. Elsewhere(at) /\ store'[at] # None /\ minted' \in 0..MaxKeys
  BY <1>2, <1>4, <1>5, <1>6 DEF TypeOK, Slot, Elsewhere, PutEnclave, PutRepair
<1>8. ~store'[at].owed /\ (store'[at].enclave # None => store'[at].enclave.era <= era)
  BY <1>2, <1>3, <1>4, <1>5, <1>6
     DEF TypeOK, Slot, Owing, PutEnclave, PutRepair
<1>9. ~torn => /\ session' \in {None, store[at].pass}
      /\ store'[at].enclave = store[at].enclave
             /\ store'[at].lock = store[at].lock /\ store'[at].acct = store[at].acct
             /\ store'[at].pass = store[at].pass /\ store'[at].phrase = store[at].phrase
  BY <1>1, <1>4, <1>6, Kinds DEF Listed, Sound, HasEnclave, PutRepair
<1>10. pc' \in Phase \ {"flow"} /\ session' \in KeyOrNone /\ at' \in Slot
  BY <1>2, <1>3, <1>4, <1>5, <1>6 DEF TypeOK, Phase, KeyOrNone, Slot
<1>11. TypeOK'
  BY <1>1, <1>2, <1>3, <1>4, <1>5, <1>6, <1>7, <1>8, <1>9, <1>10, Kinds
     DEF TypeOK, PutEnclave, PutRepair, Elsewhere
<1>12. Located'
  BY <1>1, <1>2, <1>3, <1>4, <1>5, <1>6, <1>7, <1>8, <1>9, <1>10, Kinds
     DEF Located, Ready, Launching, PutEnclave, PutRepair, Elsewhere, TypeOK,
         Slot
<1>13. Owing'
  BY <1>1, <1>7, <1>8, Kinds
     DEF Owing, OwesHere, HasEnclave, RewindOwed, Located, Ready, Launching,
         Elsewhere, TypeOK, Slot
<1>14. Listed'
  BY <1>1, <1>7, <1>9, Kinds
     DEF Listed, Sound, SamePhrase, PhraseOf, InMerge, InRelayHalf, Located,
         Ready, Launching, Elsewhere, TypeOK, Slot
<1>15. Carried'
  BY <1>1, <1>2, <1>3, <1>4, <1>5, <1>6, <1>7, <1>8, <1>9, <1>10, Kinds
     DEF Carried, PutEnclave, PutRepair, Elsewhere, TypeOK, Slot
<1>16. Settles' /\ Merges' /\ Leaves'
  BY DEF Settles, Merges, Leaves
<1>17. HomeStep
  BY <1>1, <1>2, <1>3, <1>4, <1>5, <1>6, <1>7, <1>8, <1>9, <1>10, HomeStays,
     Kinds
     DEF RowsIn, AtHome, Slot, TypeOK, PutEnclave, PutRepair, Elsewhere,
         Located, Ready, Launching
<1> QED
  BY <1>11, <1>12, <1>13, <1>14, <1>15, <1>16, <1>17

-----------------------------------------------------------------------------
(* Each flow begins with the invariant, and goes on with it. *)

\* No flow is empty.
LEMMA Lengths == \A f \in Flow : Len(Steps[f]) \in Nat /\ Len(Steps[f]) >= 1
<1>1. /\ Len(Steps["create"]) = 12 /\ Len(Steps["join"]) = 12
      /\ Len(Steps["recover"]) = 12
  BY DEF Steps, AdoptSteps
<1>2. /\ Len(Steps["merge"]) = 12 /\ Len(Steps["signOut"]) = 2
      /\ Len(Steps["forget"]) = 4 /\ Len(Steps["reset"]) = 4
  BY DEF Steps
<1> SUFFICES ASSUME NEW f \in Flow PROVE Len(Steps[f]) \in Nat /\ Len(Steps[f]) >= 1
  OBVIOUS
<1>3. \/ f \in {"create", "join", "recover", "merge"}
      \/ f \in {"signOut", "forget", "reset"}
  BY Flows
<1> DEFINE n == Len(Steps[f])
<1>4. n = 12 \/ n = 2 \/ n = 4
  BY <1>1, <1>2, <1>3
<1> HIDE DEF n
<1>5. n \in Nat /\ n >= 1
  BY <1>4
<1> QED
  BY <1>5 DEF n

\* A beginning changes neither the files nor the keys.
LEMMA Begins ==
  ASSUME IInv, NEW f \in Flow, NEW a \in Account \cup {None}, Begin(f, a)
  PROVE  TypeOK' /\ Located' /\ Owing' /\ Listed' /\ Carried'
<1> USE DEF IInv, Begin
<1>1. TypeOK'
  <2>1. f # "none" /\ pc' \in Phase
    BY Flows DEF Phase
  <2> QED
    BY <2>1, Lengths DEF TypeOK
<1>2. Located'
  BY Kinds DEF Located, Ready, Launching, TypeOK
<1>3. Owing'
  BY DEF Owing, OwesHere, HasEnclave, RewindOwed
<1>4. Listed'
  BY DEF Listed, Sound, SamePhrase, PhraseOf, InMerge, InRelayHalf, TypeOK
<1>5. Carried'
  BY DEF Carried
<1> QED
  BY <1>1, <1>2, <1>3, <1>4, <1>5

LEMMA BeginCreateKeeps ==
  ASSUME NEW a \in Fresh
  PROVE IInv /\ BeginCreate(a) => IInv' /\ HomeStep
<1> SUFFICES ASSUME IInv, BeginCreate(a) PROVE IInv' /\ HomeStep
  OBVIOUS
<1>1. TypeOK' /\ Located' /\ Owing' /\ Listed' /\ Carried'
  BY Begins, Flows DEF BeginCreate, Account
<1>2. Settles' /\ Merges' /\ Leaves'
  BY Kinds DEF BeginCreate, Begin, IInv, Located, Settles, Created, Adopted, Settler,
               Merges, Leaves, Account
<1>3. HomeStep
  BY HomeStays DEF BeginCreate, Begin, IInv, TypeOK, Located, RowsIn, AtHome
<1> QED
  BY <1>1, <1>2, <1>3 DEF IInv

LEMMA BeginJoinKeeps ==
  ASSUME NEW a \in Synced
  PROVE IInv /\ BeginJoin(a) => IInv' /\ HomeStep
<1> SUFFICES ASSUME IInv, BeginJoin(a) PROVE IInv' /\ HomeStep
  OBVIOUS
<1>1. TypeOK' /\ Located' /\ Owing' /\ Listed' /\ Carried'
  BY Begins, Flows DEF BeginJoin, Account
<1>2. Settles' /\ Merges' /\ Leaves'
  BY Kinds DEF BeginJoin, Begin, IInv, Located, Settles, Joined, Adopted, Settler,
               Merges, Leaves, Account
<1>3. HomeStep
  BY HomeStays DEF BeginJoin, Begin, IInv, TypeOK, Located, RowsIn, AtHome
<1> QED
  BY <1>1, <1>2, <1>3 DEF IInv

LEMMA BeginRecoverKeeps ==
  ASSUME NEW a \in Synced PROVE IInv /\ BeginRecover(a) => IInv' /\ HomeStep
<1> SUFFICES ASSUME IInv, BeginRecover(a) PROVE IInv' /\ HomeStep
  OBVIOUS
<1>1. TypeOK' /\ Located' /\ Owing' /\ Listed' /\ Carried'
  BY Begins, Flows DEF BeginRecover, Account
<1>2. Settles' /\ Merges' /\ Leaves'
  BY Kinds DEF BeginRecover, Begin, IInv, Located, Settles, Recovered, Adopted,
               Settler, Merges, Leaves, Account
<1>3. HomeStep
  BY HomeStays DEF BeginRecover, Begin, IInv, TypeOK, Located, RowsIn, AtHome
<1> QED
  BY <1>1, <1>2, <1>3 DEF IInv

LEMMA BeginMergeKeeps ==
  ASSUME NEW a \in Synced
  PROVE IInv /\ BeginMerge(a) => IInv' /\ HomeStep
<1> SUFFICES ASSUME IInv, BeginMerge(a) PROVE IInv' /\ HomeStep
  OBVIOUS
<1>1. TypeOK' /\ Located' /\ Owing' /\ Listed' /\ Carried'
  BY Begins, Flows DEF BeginMerge, Account
<1>2. Settles' /\ Merges' /\ Leaves'
  BY Kinds DEF BeginMerge, Begin, IInv, TypeOK, Located, Settles, Settler, Merges,
               Copied, InMerge, Leaves, Account
<1>3. HomeStep
  BY HomeStays DEF BeginMerge, Begin, IInv, TypeOK, Located, RowsIn, AtHome
<1> QED
  BY <1>1, <1>2, <1>3 DEF IInv

LEMMA BeginSignOutKeeps == IInv /\ BeginSignOut => IInv' /\ HomeStep
<1> SUFFICES ASSUME IInv, BeginSignOut PROVE IInv' /\ HomeStep
  OBVIOUS
<1>1. TypeOK' /\ Located' /\ Owing' /\ Listed' /\ Carried'
  BY Begins, Flows DEF BeginSignOut
<1>2. ~OwesHere(at)'
  BY DEF BeginSignOut, Begin, IInv, Owing, OwesHere, HasEnclave
<1>3. Settles' /\ Merges' /\ Leaves'
  BY <1>2 DEF BeginSignOut, Begin, IInv, Located, Settles, Settler, Merges, Leaves
<1>4. HomeStep
  BY HomeStays DEF BeginSignOut, Begin, IInv, TypeOK, Located, RowsIn, AtHome
<1> QED
  BY <1>1, <1>3, <1>4 DEF IInv

LEMMA BeginForgetKeeps == IInv /\ BeginForget => IInv' /\ HomeStep
<1> SUFFICES ASSUME IInv, BeginForget PROVE IInv' /\ HomeStep
  OBVIOUS
<1>1. TypeOK' /\ Located' /\ Owing' /\ Listed' /\ Carried'
  BY Begins, Flows DEF BeginForget
<1>2. Settles' /\ Merges' /\ Leaves'
  BY Kinds
     DEF BeginForget, Begin, IInv, TypeOK, Located, Settles, Settler, Merges, Leaves
<1>3. HomeStep
  BY HomeLeaves DEF BeginForget, Begin, IInv, TypeOK, Located, RowsIn, AtHome
<1> QED
  BY <1>1, <1>2, <1>3 DEF IInv

LEMMA BeginResetKeeps == IInv /\ BeginReset => IInv' /\ HomeStep
<1> SUFFICES ASSUME IInv, BeginReset PROVE IInv' /\ HomeStep
  OBVIOUS
<1>1. TypeOK' /\ Located' /\ Owing' /\ Listed' /\ Carried'
  BY Begins, Flows DEF BeginReset
<1>2. Settles' /\ Merges' /\ Leaves'
  BY DEF BeginReset, Begin, IInv, Located, Settles, Settler, Merges, Leaves
<1>3. HomeStep
  BY HomeLeaves DEF BeginReset, Begin, IInv, TypeOK, Located, RowsIn, AtHome
<1> QED
  BY <1>1, <1>2, <1>3 DEF IInv

\* The next step, or the end of the flow, is as well typed as the last.
JobTyped ==
    /\ pc' \in Phase /\ (pc' = "flow" <=> flow' # "none")
    /\ at' \in Slot /\ session' \in KeyOrNone
    /\ through' \in [by : {"none", "password", "recovery"}, key : KeyOrNone]
    /\ flow' \in Flow \cup {"none"} /\ to' \in Account \cup {None} /\ kept' \in Chain
    /\ step' \in IF flow' = "none" THEN {0} ELSE 1..Len(Steps[flow'])

\* Where the app stops is well typed, and so is where it goes on.
LEMMA Stops ==
  ASSUME TypeOK, NEW p \in Phase \ {"flow"}, Stop(p)
  PROVE  JobTyped
<1>1. through' \in [by : {"none", "password", "recovery"}, key : KeyOrNone]
  BY DEF Stop, NotADoor, KeyOrNone
<1>2. kept' \in Chain
  BY DEF Stop, NoKeys, Chain, KeyOrNone
<1>3. at' \in Slot /\ session' \in KeyOrNone
  BY DEF Stop, Slot, KeyOrNone
<1> QED
  BY <1>1, <1>2, <1>3 DEF Stop, JobTyped

LEMMA Advances ==
  ASSUME TypeOK, pc = "flow", Advance
  PROVE  JobTyped
<1>1. flow \in Flow /\ step \in 1..Len(Steps[flow]) /\ Len(Steps[flow]) \in Nat
  BY Lengths DEF TypeOK
<1>2. CASE step = Len(Steps[flow])
  <2>1. "swapped" \in Phase \ {"flow"}
    BY DEF Phase
  <2> QED
    BY <1>2, <2>1, Stops DEF Advance
<1>3. CASE step # Len(Steps[flow])
  <2>1. step' = step + 1 /\ UNCHANGED <<pc, app, flow, to, kept>>
    BY <1>3 DEF Advance
  <2>2. step' \in 1..Len(Steps[flow])
    BY <1>1, <1>3, <2>1
  <2> QED
    BY <1>1, <2>1, <2>2 DEF TypeOK, JobTyped
<1> QED
  BY <1>2, <1>3

\* What is left to show of a step's type.
LEMMA JobTypes ==
  ASSUME TypeOK, JobTyped, torn' \in BOOLEAN,
         roster' \subseteq Account, cut' \subseteq Account,
         store' \in [Slot -> Store \cup {None}], door' \in [Account -> Door],
         chain' \in Chain, era' \in 0..MaxEra, minted' \in 0..MaxKeys
  PROVE  TypeOK'
BY DEF TypeOK, JobTyped

-----------------------------------------------------------------------------
(* An account is settled in the plaintext store, and the store adopted. *)

\* The adoption is the same in each flow that settles an account.
LEMMA InSettler ==
  ASSUME TypeOK, pc = "flow", Settler
  PROVE  /\ step \in 1..12 /\ Len(Steps[flow]) = 12
         /\ (Doing("drop") <=> step = 7) /\ (Doing("copy") <=> step = 8)
         /\ (Doing("fill") <=> step = 9) /\ (Doing("door") <=> step = 10)
         /\ (Doing("roster") <=> step = 11) /\ (Doing("remove") <=> step = 12)
         /\ (Coming("drop") <=> step < 7) /\ (Coming("roster") <=> step < 11)
         /\ ~Coming("clear")
BY In_create, In_join, In_recover DEF Settler

\* Before the roster is written no account is listed, so that what is promised
\* of a listed one cannot break.
LEMMA SettlerElsewhere ==
  ASSUME IInv, pc = "flow", Settler, step <= 11, UNCHANGED <<roster, pc, app, flow, to>>
  PROVE  Located' /\ Listed' /\ Carried' /\ Merges' /\ Leaves'
BY DEF IInv, Settles, Settler, Located, Ready, Launching, Listed, Carried, Merges,
       Leaves

\* A step that writes one store, and leaves no rewind owed there unmarked.
LEMMA SettlerOwing ==
  ASSUME IInv, pc = "flow", Settler, step <= 11, UNCHANGED <<roster, pc, app, era>>,
         NEW x \in Slot, Elsewhere(x),
         store'[x] # None =>
             /\ store'[x].owed => store'[x].repair /\ x # Plain
             /\ store'[x].enclave # None => store'[x].enclave.era <= era
  PROVE  Owing'
BY DEF IInv, Settles, Settler, Owing, OwesHere, HasEnclave, RewindOwed, Elsewhere, Slot,
       TypeOK

\* One step of a flow that is not its last.
LEMMA Goes ==
  ASSUME Advance, step # Len(Steps[flow])
  PROVE  step' = step + 1 /\ UNCHANGED <<pc, app, flow, to, kept>>
BY DEF Advance

\* The account's row is written; its keys follow.
LEMMA AccountInPlain == ASSUME IInv, AccountStep, Settler PROVE IInv' /\ HomeStep
<1> USE DEF IInv
<1>1. pc = "flow"
  BY DEF AccountStep, Doing
<1>2. \/ flow = "create" /\ step = 3
      \/ flow = "join" /\ step = 2
      \/ flow = "recover" /\ step = 2
  BY <1>1, In_create, In_join, In_recover DEF AccountStep, Settler
<1>3. step \in 1..11 /\ step' = step + 1 /\ UNCHANGED <<pc, app, flow, to, kept>>
  BY <1>1, <1>2, InSettler, Goes DEF AccountStep
<1>4. Work = Plain /\ Source = Plain /\ at = Plain /\ to \in Account /\ roster = {}
      /\ store[Plain] # None
  BY <1>1, <1>2 DEF Work, Source, Settles, Settler
<1>5. PutAcct(Plain, to, flow # "create")
  BY <1>4, AcctPut DEF AccountStep, Slot
<1>6. UNCHANGED <<roster, door, chain, era>>
  BY DEF AccountStep
<1>7. TypeOK'
  BY <1>1, <1>5, <1>6, Advances, JobTypes
     DEF TypeOK, AccountStep, PutAcct, Elsewhere
<1>8. Owing'
  BY <1>1, <1>3, <1>4, <1>5, <1>6, SettlerOwing
     DEF Owing, RewindOwed, Slot, AccountStep, PutAcct, Elsewhere
<1>9. Settles'
  <2>1. CASE flow = "create"
    <3>1. /\ step = 3 /\ step' = 4 /\ flow' = "create" /\ at' = Plain
          /\ roster' = {} /\ to \in Fresh
      BY <2>1, <1>1, <1>2, <1>3, <1>4 DEF Settles, Settler, AccountStep
    <3> QED
      BY <2>1, <3>1, <1>1, <1>3, <1>4, <1>5, <1>6
         DEF Settles, Settler, Created, Adopted, PutAcct
  <2>2. CASE flow = "join"
    <3>1. /\ step = 2 /\ step' = 3 /\ flow' = "join" /\ at' = Plain
          /\ roster' = {} /\ to \in Synced
      BY <2>2, <1>1, <1>2, <1>3, <1>4 DEF Settles, Settler, AccountStep
    <3> QED
      BY <2>2, <3>1, <1>1, <1>3, <1>4, <1>5, <1>6
         DEF Settles, Settler, Joined, Adopted, PutAcct
  <2>3. CASE flow = "recover"
    <3>1. /\ step = 2 /\ step' = 3 /\ flow' = "recover" /\ at' = Plain
          /\ roster' = {} /\ to \in Synced
      BY <2>3, <1>1, <1>2, <1>3, <1>4 DEF Settles, Settler, AccountStep
    <3> QED
      BY <2>3, <3>1, <1>1, <1>3, <1>4, <1>5, <1>6
         DEF Settles, Settler, Recovered, Adopted, PutAcct
  <2> QED
    BY <2>1, <2>2, <2>3, <1>2 DEF Settler
<1>10. Located' /\ Listed' /\ Carried' /\ Merges' /\ Leaves'
  BY <1>1, <1>3, SettlerElsewhere DEF AccountStep
<1>11. HomeStep
  BY <1>3, <1>4, <1>5, <1>6, HomeStays, Kinds
     DEF RowsIn, AtHome, PutAcct, Elsewhere
<1> QED
  BY <1>7, <1>8, <1>9, <1>10, <1>11

\* The password wraps the master key the keystore has.
LEMMA PasswordInPlain == ASSUME IInv, PasswordStep, Settler PROVE IInv' /\ HomeStep
<1> USE DEF IInv
<1>1. pc = "flow"
  BY DEF PasswordStep, Doing
<1>2. step = 4
  BY <1>1, In_create, In_join, In_recover DEF PasswordStep, Settler
<1>3. step \in 1..11 /\ step' = step + 1 /\ UNCHANGED <<pc, app, flow, to, kept>>
  BY <1>1, <1>2, InSettler, Goes DEF PasswordStep
<1>4. Work = Plain /\ Source = Plain /\ at = Plain /\ to \in Account /\ roster = {}
      /\ store[Plain] # None
  BY <1>1, <1>2 DEF Work, Source, Settles, Settler
<1>5. FlowMaster = store[Plain].enclave.mk /\ FlowMaster \in Key /\ (flow # "create" =>
          FlowMaster = to)
  BY <1>1, <1>2, <1>3, <1>4, StoreFields
     DEF FlowMaster, Settles, Settler, Created, Joined, Recovered, TypeOK,
         Slot, Key, KeyOrNone
<1>6. PutPass(Plain, FlowMaster)
  BY <1>4, <1>5, PassPut DEF PasswordStep, Slot
<1>7. UNCHANGED <<roster, door, chain, era>>
  BY DEF PasswordStep
<1>8. TypeOK'
  BY <1>1, <1>5, <1>6, <1>7, Advances, JobTypes
     DEF TypeOK, PasswordStep, PutPass, Elsewhere
<1>9. Owing'
  BY <1>1, <1>3, <1>4, <1>5, <1>6, <1>7, SettlerOwing
     DEF Owing, RewindOwed, Slot, PasswordStep, PutPass, Elsewhere
<1>10. Settles'
  <2>1. CASE flow = "create"
    <3>1. /\ step = 4 /\ step' = 5 /\ flow' = "create" /\ at' = Plain
          /\ roster' = {} /\ to \in Fresh
      BY <2>1, <1>1, <1>2, <1>3, <1>4 DEF Settles, Settler, PasswordStep
    <3> QED
      BY <2>1, <3>1, <1>1, <1>3, <1>4, <1>5, <1>6, <1>7
         DEF Settles, Settler, Created, Adopted, PutPass
  <2>2. CASE flow = "join"
    <3>1. /\ step = 4 /\ step' = 5 /\ flow' = "join" /\ at' = Plain
          /\ roster' = {} /\ to \in Synced
      BY <2>2, <1>1, <1>2, <1>3, <1>4 DEF Settles, Settler, PasswordStep
    <3> QED
      BY <2>2, <3>1, <1>1, <1>3, <1>4, <1>5, <1>6, <1>7
         DEF Settles, Settler, Joined, Adopted, PutPass
  <2>3. CASE flow = "recover"
    <3>1. /\ step = 4 /\ step' = 5 /\ flow' = "recover" /\ at' = Plain
          /\ roster' = {} /\ to \in Synced
      BY <2>3, <1>1, <1>2, <1>3, <1>4 DEF Settles, Settler, PasswordStep
    <3> QED
      BY <2>3, <3>1, <1>1, <1>3, <1>4, <1>5, <1>6, <1>7
         DEF Settles, Settler, Recovered, Adopted, PutPass
  <2> QED
    BY <2>1, <2>2, <2>3, <1>2 DEF Settler
<1>11. Located' /\ Listed' /\ Carried' /\ Merges' /\ Leaves'
  BY <1>1, <1>3, SettlerElsewhere DEF PasswordStep
<1>12. HomeStep
  BY <1>3, <1>4, <1>5, <1>6, <1>7, HomeStays, Kinds
     DEF RowsIn, AtHome, PutPass, Elsewhere
<1> QED
  BY <1>8, <1>9, <1>10, <1>11, <1>12

\* A created account has a master key before it has a row.
LEMMA MasterInPlain == ASSUME IInv, MasterStep, Settler PROVE IInv' /\ HomeStep
<1> USE DEF IInv
<1>1. pc = "flow"
  BY DEF MasterStep, Doing
<1>2. flow = "create" /\ step = 1
  BY <1>1, In_create, In_join, In_recover DEF MasterStep, Settler
<1>3. step \in 1..11 /\ step' = step + 1 /\ UNCHANGED <<pc, app, flow, to, kept>>
  BY <1>1, <1>2, InSettler, Goes DEF MasterStep
<1>4. Work = Plain /\ Source = Plain /\ at = Plain /\ to \in Account /\ roster = {}
      /\ store[Plain] # None
  BY <1>1, <1>2 DEF Work, Source, Settles, Settler
<1> DEFINE e == EnclaveWrap(minted + 1)
<1>5. ~HasEnclave(Plain) => minted + 1 \in Key /\ minted' \in 0..MaxKeys
      /\ e \in [era : 0..MaxEra, mk : Key] /\ e.era = era /\ e.mk = minted + 1
  BY <1>4, Minted DEF MasterStep, TypeOK, EnclaveWrap
<1>6. HasEnclave(Plain) => UNCHANGED <<store, minted>> /\ store[Plain].enclave # None
  BY <1>4 DEF MasterStep, HasEnclave
<1>7. ~HasEnclave(Plain) => PutEnclave(Plain, e)
  BY <1>4, <1>5, EnclavePut DEF MasterStep, Slot
<1> HIDE DEF e
<1>8. Elsewhere(Plain) /\ store'[Plain] # None /\ store'[Plain].enclave # None
  BY <1>4, <1>5, <1>6, <1>7, Kinds, NoneAssumption
     DEF NoneAssumption, TypeOK, Slot, PutEnclave, Elsewhere
<1>9. /\ minted' \in 0..MaxKeys /\ ~store'[Plain].owed
      /\ store'[Plain].enclave.era <= era
  BY <1>4, <1>5, <1>6, <1>7 DEF TypeOK, Slot, Owing, PutEnclave
<1>10. UNCHANGED <<roster, door, chain, era>>
  BY DEF MasterStep
<1>11. TypeOK'
  BY <1>1, <1>5, <1>6, <1>7, <1>8, <1>9, <1>10, Advances, JobTypes
     DEF TypeOK, MasterStep, Elsewhere
<1>12. Owing'
  BY <1>1, <1>3, <1>4, <1>5, <1>6, <1>7, <1>8, <1>9, <1>10, SettlerOwing
     DEF Owing, RewindOwed, Slot, MasterStep, Elsewhere
<1>13. Settles'
  <2>1. /\ step = 1 /\ step' = 2 /\ flow' = "create" /\ at' = Plain
        /\ roster' = {} /\ to \in Fresh
    BY <1>1, <1>2, <1>3, <1>4 DEF Settles, Settler, MasterStep
  <2> QED
    BY <2>1, <1>1, <1>3, <1>4, <1>5, <1>6, <1>7, <1>8, <1>9, <1>10
       DEF Settles, Settler, Created, Adopted
<1>14. Located' /\ Listed' /\ Carried' /\ Merges' /\ Leaves'
  BY <1>1, <1>3, SettlerElsewhere DEF MasterStep
<1>15. HomeStep
  BY <1>3, <1>4, <1>5, <1>6, <1>7, <1>8, <1>9, <1>10, HomeStays, Kinds
     DEF RowsIn, AtHome, PutEnclave
<1> QED
  BY <1>11, <1>12, <1>13, <1>14, <1>15

\* The recovery key is minted, or is the relay account's.
LEMMA PhraseInPlain == ASSUME IInv, PhraseStep, Settler PROVE IInv' /\ HomeStep
<1> USE DEF IInv
<1>1. pc = "flow"
  BY DEF PhraseStep, Doing
<1>2. \/ flow = "create" /\ step = 2
      \/ flow = "join" /\ step = 5
      \/ flow = "recover" /\ step = 6
  BY <1>1, In_create, In_join, In_recover DEF PhraseStep, Settler
<1>3. step \in 1..11 /\ step' = step + 1 /\ UNCHANGED <<pc, app, flow, to, kept>>
  BY <1>1, <1>2, InSettler, Goes DEF PhraseStep
<1>4. Work = Plain /\ Source = Plain /\ at = Plain /\ to \in Account /\ roster = {}
      /\ store[Plain] # None
  BY <1>1, <1>2 DEF Work, Source, Settles, Settler
<1>5. flow = "create" => EnsureRec
  BY RecEnsured DEF PhraseStep
<1>6. flow # "create" => chain' = [chain EXCEPT !.rec = to] /\ UNCHANGED <<era, minted>>
  BY DEF PhraseStep
<1>7. /\ chain' \in Chain /\ chain'.db = chain.db /\ chain'.rec # None
      /\ minted' \in 0..MaxKeys
      /\ flow # "create" => chain'.rec = to
  BY <1>2, <1>4, <1>5, <1>6, Kinds
     DEF Settles, Settler, TypeOK, Chain, Key, KeyOrNone, EnsureRec
<1>8. era' = era
  BY <1>5, <1>6 DEF EnsureRec
<1>9. UNCHANGED <<roster, store, door>>
  BY DEF PhraseStep
<1>10. TypeOK'
  BY <1>1, <1>5, <1>6, <1>7, <1>8, <1>9, Advances, JobTypes
     DEF TypeOK, PhraseStep, Slot
<1>11. Owing'
  BY <1>1, <1>3, <1>4, <1>5, <1>6, <1>7, <1>8, <1>9
     DEF Owing, OwesHere, HasEnclave, RewindOwed, PhraseStep, Slot
<1>12. Settles'
  <2>1. CASE flow = "create"
    <3>1. /\ step = 2 /\ step' = 3 /\ flow' = "create" /\ at' = Plain
          /\ roster' = {} /\ to \in Fresh
      BY <2>1, <1>1, <1>2, <1>3, <1>4 DEF Settles, Settler, PhraseStep
    <3> QED
      BY <2>1, <3>1, <1>1, <1>3, <1>4, <1>5, <1>6, <1>7, <1>8, <1>9
         DEF Settles, Settler, Created, Adopted
  <2>2. CASE flow = "join"
    <3>1. /\ step = 5 /\ step' = 6 /\ flow' = "join" /\ at' = Plain
          /\ roster' = {} /\ to \in Synced
      BY <2>2, <1>1, <1>2, <1>3, <1>4 DEF Settles, Settler, PhraseStep
    <3> QED
      BY <2>2, <3>1, <1>1, <1>3, <1>4, <1>5, <1>6, <1>7, <1>8, <1>9
         DEF Settles, Settler, Joined, Adopted
  <2>3. CASE flow = "recover"
    <3>1. /\ step = 6 /\ step' = 7 /\ flow' = "recover" /\ at' = Plain
          /\ roster' = {} /\ to \in Synced
      BY <2>3, <1>1, <1>2, <1>3, <1>4 DEF Settles, Settler, PhraseStep
    <3> QED
      BY <2>3, <3>1, <1>1, <1>3, <1>4, <1>5, <1>6, <1>7, <1>8, <1>9
         DEF Settles, Settler, Recovered, Adopted, Whole
  <2> QED
    BY <2>1, <2>2, <2>3, <1>2 DEF Settler
<1>13. Located' /\ Listed' /\ Carried' /\ Merges' /\ Leaves'
  BY <1>1, <1>3, SettlerElsewhere DEF PhraseStep
<1>14. HomeStep
  BY <1>3, <1>4, <1>5, <1>6, <1>7, <1>8, <1>9, HomeStays, Kinds
     DEF RowsIn, AtHome, Slot
<1> QED
  BY <1>10, <1>11, <1>12, <1>13, <1>14

\* The relay account's master key is bound to this keystore.
LEMMA EnclaveInPlain == ASSUME IInv, EnclaveStep, Settler PROVE IInv' /\ HomeStep
<1> USE DEF IInv
<1>1. pc = "flow"
  BY DEF EnclaveStep, Doing
<1>2. \/ flow = "join" /\ step = 3
      \/ flow = "recover" /\ step = 3
  BY <1>1, In_create, In_join, In_recover DEF EnclaveStep, Settler
<1>3. step \in 1..11 /\ step' = step + 1 /\ UNCHANGED <<pc, app, flow, to, kept>>
  BY <1>1, <1>2, InSettler, Goes DEF EnclaveStep
<1>4. Work = Plain /\ Source = Plain /\ at = Plain /\ to \in Account /\ roster = {}
      /\ store[Plain] # None
  BY <1>1, <1>2 DEF Work, Source, Settles, Settler
<1>5. EnclaveWrap(to) \in [era : 0..MaxEra, mk : Key] /\ EnclaveWrap(to).era = era
      /\ EnclaveWrap(to).mk = to
  BY <1>1, <1>2, <1>4 DEF Settles, Settler, TypeOK, EnclaveWrap, Key
<1>6. EnclaveWrap(to) # None
  BY <1>5, NoneAssumption DEF NoneAssumption
<1>7. PutEnclave(Plain, EnclaveWrap(to))
  BY <1>4, <1>5, EnclavePut DEF EnclaveStep, Slot
<1>8. UNCHANGED <<roster, door, chain, era>>
  BY DEF EnclaveStep
<1>9. TypeOK'
  BY <1>1, <1>5, <1>6, <1>7, <1>8, Advances, JobTypes
     DEF TypeOK, EnclaveStep, PutEnclave, Elsewhere
<1>10. Owing'
  BY <1>1, <1>3, <1>4, <1>5, <1>6, <1>7, <1>8, SettlerOwing
     DEF Owing, RewindOwed, Slot, EnclaveStep, PutEnclave, Elsewhere
<1>11. Settles'
  <2>1. CASE flow = "join"
    <3>1. /\ step = 3 /\ step' = 4 /\ flow' = "join" /\ at' = Plain
          /\ roster' = {} /\ to \in Synced
      BY <2>1, <1>1, <1>2, <1>3, <1>4 DEF Settles, Settler, EnclaveStep
    <3> QED
      BY <2>1, <3>1, <1>1, <1>3, <1>4, <1>5, <1>6, <1>7, <1>8
         DEF Settles, Settler, Joined, Adopted, PutEnclave
  <2>2. CASE flow = "recover"
    <3>1. /\ step = 3 /\ step' = 4 /\ flow' = "recover" /\ at' = Plain
          /\ roster' = {} /\ to \in Synced
      BY <2>2, <1>1, <1>2, <1>3, <1>4 DEF Settles, Settler, EnclaveStep
    <3> QED
      BY <2>2, <3>1, <1>1, <1>3, <1>4, <1>5, <1>6, <1>7, <1>8
         DEF Settles, Settler, Recovered, Adopted, PutEnclave
  <2> QED
    BY <2>1, <2>2, <1>2 DEF Settler
<1>12. Located' /\ Listed' /\ Carried' /\ Merges' /\ Leaves'
  BY <1>1, <1>3, SettlerElsewhere DEF EnclaveStep
<1>13. HomeStep
  BY <1>3, <1>4, <1>5, <1>6, <1>7, <1>8, HomeStays, Kinds
     DEF RowsIn, AtHome, PutEnclave, Elsewhere
<1> QED
  BY <1>9, <1>10, <1>11, <1>12, <1>13

\* The phrase wraps the same master key.
LEMMA EscrowInPlain == ASSUME IInv, EscrowStep, Settler PROVE IInv' /\ HomeStep
<1> USE DEF IInv
<1>1. pc = "flow"
  BY DEF EscrowStep, Doing
<1>2. \/ flow = "create" /\ step = 5
      \/ flow = "join" /\ step = 6
      \/ flow = "recover" /\ step = 5
  BY <1>1, In_create, In_join, In_recover DEF EscrowStep, Settler
<1>3. step \in 1..11 /\ step' = step + 1 /\ UNCHANGED <<pc, app, flow, to, kept>>
  BY <1>1, <1>2, InSettler, Goes DEF EscrowStep
<1>4. Work = Plain /\ Source = Plain /\ at = Plain /\ to \in Account /\ roster = {}
      /\ store[Plain] # None
  BY <1>1, <1>2 DEF Work, Source, Settles, Settler
<1> DEFINE p == [key |-> IF flow = "create" THEN chain.rec ELSE to, mk |-> FlowMaster]
<1>5. FlowMaster = store[Plain].enclave.mk /\ FlowMaster \in Key /\ (flow # "create" =>
          FlowMaster = to)
  BY <1>1, <1>2, <1>3, <1>4, StoreFields
     DEF FlowMaster, Settles, Settler, Created, Joined, Recovered, TypeOK,
         Slot, Key, KeyOrNone
<1>6. flow = "create" => chain.rec \in Key
  BY <1>2, <1>3, <1>4 DEF Settles, Settler, Created, TypeOK, Chain, KeyOrNone
<1>7. p \in [key : Key, mk : Key] /\ p # None
  BY <1>2, <1>4, <1>5, <1>6, NoneAssumption
     DEF NoneAssumption, Settles, Settler, Key
<1>8. PutPhrase(Plain, p)
  BY <1>4, <1>7, PhrasePut DEF EscrowStep, Slot
<1>9. flow = "create" => p = [key |-> chain.rec, mk |-> store[Plain].enclave.mk]
  BY <1>5
<1>10. flow # "create" => p = [key |-> to, mk |-> to]
  BY <1>5
<1> HIDE DEF p
<1>11. UNCHANGED <<roster, door, chain, era>>
  BY DEF EscrowStep
<1>12. TypeOK'
  BY <1>1, <1>5, <1>6, <1>7, <1>8, <1>9, <1>10, <1>11, Advances, JobTypes
     DEF TypeOK, EscrowStep, PutPhrase, Elsewhere
<1>13. Owing'
  BY <1>1, <1>3, <1>4, <1>5, <1>6, <1>7, <1>8, <1>9, <1>10, <1>11, SettlerOwing
     DEF Owing, RewindOwed, Slot, EscrowStep, PutPhrase, Elsewhere
<1>14. Settles'
  <2>1. CASE flow = "create"
    <3>1. /\ step = 5 /\ step' = 6 /\ flow' = "create" /\ at' = Plain
          /\ roster' = {} /\ to \in Fresh
      BY <2>1, <1>1, <1>2, <1>3, <1>4 DEF Settles, Settler, EscrowStep
    <3> QED
      BY <2>1, <3>1, <1>1, <1>3, <1>4, <1>5, <1>6, <1>7, <1>8, <1>9, <1>10,
         <1>11
         DEF Settles, Settler, Created, Adopted, PutPhrase
  <2>2. CASE flow = "join"
    <3>1. /\ step = 6 /\ step' = 7 /\ flow' = "join" /\ at' = Plain
          /\ roster' = {} /\ to \in Synced
      BY <2>2, <1>1, <1>2, <1>3, <1>4 DEF Settles, Settler, EscrowStep
    <3> QED
      BY <2>2, <3>1, <1>1, <1>3, <1>4, <1>5, <1>6, <1>7, <1>8, <1>9, <1>10,
         <1>11
         DEF Settles, Settler, Joined, Adopted, Whole, PutPhrase
  <2>3. CASE flow = "recover"
    <3>1. /\ step = 5 /\ step' = 6 /\ flow' = "recover" /\ at' = Plain
          /\ roster' = {} /\ to \in Synced
      BY <2>3, <1>1, <1>2, <1>3, <1>4 DEF Settles, Settler, EscrowStep
    <3> QED
      BY <2>3, <3>1, <1>1, <1>3, <1>4, <1>5, <1>6, <1>7, <1>8, <1>9, <1>10,
         <1>11
         DEF Settles, Settler, Recovered, Adopted, PutPhrase
  <2> QED
    BY <2>1, <2>2, <2>3, <1>2 DEF Settler
<1>15. Located' /\ Listed' /\ Carried' /\ Merges' /\ Leaves'
  BY <1>1, <1>3, SettlerElsewhere DEF EscrowStep
<1>16. HomeStep
  BY <1>3, <1>4, <1>5, <1>6, <1>7, <1>8, <1>9, <1>10, <1>11, HomeStays, Kinds
     DEF RowsIn, AtHome, PutPhrase, Elsewhere
<1> QED
  BY <1>12, <1>13, <1>14, <1>15, <1>16

\* A created account is whole before its file has a key.
LEMMA DbKeyInPlain == ASSUME IInv, DbKeyStep, Settler PROVE IInv' /\ HomeStep
<1> USE DEF IInv
<1>1. pc = "flow"
  BY DEF DbKeyStep, Doing
<1>2. \/ flow = "create" /\ step = 6
      \/ flow = "join" /\ step = 1
      \/ flow = "recover" /\ step = 1
  BY <1>1, In_create, In_join, In_recover DEF DbKeyStep, Settler
<1>3. step \in 1..11 /\ step' = step + 1 /\ UNCHANGED <<pc, app, flow, to, kept>>
  BY <1>1, <1>2, InSettler, Goes DEF DbKeyStep
<1>4. Work = Plain /\ Source = Plain /\ at = Plain /\ to \in Account /\ roster = {}
      /\ store[Plain] # None
  BY <1>1, <1>2 DEF Work, Source, Settles, Settler
<1>5. EnsureDb
  BY DbEnsured DEF DbKeyStep
<1>6. chain'.db # None /\ chain'.rec = chain.rec /\ era' = era
  BY <1>5, Kinds DEF EnsureDb
<1>7. UNCHANGED <<roster, store, door>>
  BY DEF DbKeyStep
<1>8. TypeOK'
  BY <1>1, <1>5, <1>6, <1>7, Advances, JobTypes
     DEF TypeOK, DbKeyStep, EnsureDb, Slot
<1>9. Owing'
  BY <1>1, <1>3, <1>4, <1>5, <1>6, <1>7
     DEF Owing, OwesHere, HasEnclave, RewindOwed, DbKeyStep, EnsureDb, Slot
<1>10. Settles'
  <2>1. CASE flow = "create"
    <3>1. /\ step = 6 /\ step' = 7 /\ flow' = "create" /\ at' = Plain
          /\ roster' = {} /\ to \in Fresh
      BY <2>1, <1>1, <1>2, <1>3, <1>4 DEF Settles, Settler, DbKeyStep
    <3> QED
      BY <2>1, <3>1, <1>1, <1>3, <1>4, <1>5, <1>6, <1>7, Kinds
         DEF Settles, Settler, Created, Adopted, Whole
  <2>2. CASE flow = "join"
    <3>1. /\ step = 1 /\ step' = 2 /\ flow' = "join" /\ at' = Plain
          /\ roster' = {} /\ to \in Synced
      BY <2>2, <1>1, <1>2, <1>3, <1>4 DEF Settles, Settler, DbKeyStep
    <3> QED
      BY <2>2, <3>1, <1>1, <1>3, <1>4, <1>5, <1>6, <1>7
         DEF Settles, Settler, Joined, Adopted
  <2>3. CASE flow = "recover"
    <3>1. /\ step = 1 /\ step' = 2 /\ flow' = "recover" /\ at' = Plain
          /\ roster' = {} /\ to \in Synced
      BY <2>3, <1>1, <1>2, <1>3, <1>4 DEF Settles, Settler, DbKeyStep
    <3> QED
      BY <2>3, <3>1, <1>1, <1>3, <1>4, <1>5, <1>6, <1>7
         DEF Settles, Settler, Recovered, Adopted
  <2> QED
    BY <2>1, <2>2, <2>3, <1>2 DEF Settler
<1>11. Located' /\ Listed' /\ Carried' /\ Merges' /\ Leaves'
  BY <1>1, <1>3, SettlerElsewhere DEF DbKeyStep
<1>12. HomeStep
  BY <1>3, <1>4, <1>5, <1>6, <1>7, HomeStays, Kinds
     DEF RowsIn, AtHome, EnsureDb, Slot
<1> QED
  BY <1>8, <1>9, <1>10, <1>11, <1>12

\* What an earlier attempt left at the destination goes, and no row with it.
LEMMA DropInPlain == ASSUME IInv, DropStep, Settler PROVE IInv' /\ HomeStep
<1> USE DEF IInv
<1>1. pc = "flow"
  BY DEF DropStep, Doing
<1>2. step = 7
  BY <1>1, In_create, In_join, In_recover DEF DropStep, Settler
<1>3. step \in 1..11 /\ step' = step + 1 /\ UNCHANGED <<pc, app, flow, to, kept>>
  BY <1>1, <1>2, InSettler, Goes DEF DropStep
<1>4. Work = Plain /\ Source = Plain /\ at = Plain /\ to \in Account /\ roster = {}
      /\ store[Plain] # None
  BY <1>1, <1>2 DEF Work, Source, Settles, Settler
<1>5. PutNone(to)
  BY <1>4, NonePut DEF DropStep, Slot
<1>6. DoorGone(to)
  BY <1>4, DoorRemoved DEF DropStep
<1>7. to # Plain /\ store'[Plain] = store[Plain]
  BY <1>4, <1>5, Kinds DEF PutNone, Elsewhere, Slot
<1>8. UNCHANGED <<roster, chain, era>>
  BY DEF DropStep
<1>9. TypeOK'
  BY <1>1, <1>5, <1>6, <1>7, <1>8, Advances, JobTypes
     DEF TypeOK, DropStep, PutNone, Elsewhere, DoorGone, DoorElsewhere
<1>10. Owing'
  BY <1>1, <1>3, <1>4, <1>5, <1>6, <1>7, <1>8, SettlerOwing
     DEF Owing, RewindOwed, Slot, DropStep, PutNone, Elsewhere, DoorGone,
         DoorElsewhere
<1>11. Settles'
  <2>1. step = 7 /\ step' = 8 /\ at' = Plain /\ roster' = roster
    BY <1>1, <1>2, <1>3, <1>4 DEF DropStep
  <2> QED
    BY <2>1, <1>1, <1>3, <1>4, <1>5, <1>6, <1>7, <1>8
       DEF Settles, Settler, Created, Joined, Recovered, Adopted, Whole,
           DoorGone
<1>12. Located' /\ Listed' /\ Carried' /\ Merges' /\ Leaves'
  BY <1>1, <1>3, SettlerElsewhere DEF DropStep
<1>13. HomeStep
  BY <1>3, <1>4, <1>5, <1>6, <1>7, <1>8, HomeStays, Kinds
     DEF RowsIn, AtHome, PutNone, Elsewhere, DoorGone, DoorElsewhere
<1> QED
  BY <1>9, <1>10, <1>11, <1>12, <1>13

\* The copy is empty at first: the rows are still in the plaintext store.
LEMMA CopyInPlain == ASSUME IInv, CopyStep, Settler PROVE IInv' /\ HomeStep
<1> USE DEF IInv
<1>1. pc = "flow"
  BY DEF CopyStep, Doing
<1>2. step = 8
  BY <1>1, In_create, In_join, In_recover DEF CopyStep, Settler
<1>3. step \in 1..11 /\ step' = step + 1 /\ UNCHANGED <<pc, app, flow, to, kept>>
  BY <1>1, <1>2, InSettler, Goes DEF CopyStep
<1>4. Work = Plain /\ Source = Plain /\ at = Plain /\ to \in Account /\ roster = {}
      /\ store[Plain] # None
  BY <1>1, <1>2 DEF Work, Source, Settles, Settler
<1>5. PutEmpty(to, chain.db)
  BY <1>4, EmptyPut DEF CopyStep, Slot, TypeOK, Chain
<1>6. to # Plain /\ store'[Plain] = store[Plain]
  BY <1>4, <1>5, Kinds DEF PutEmpty, Elsewhere, Slot
<1>7. UNCHANGED <<roster, door, chain, era>>
  BY DEF CopyStep
<1>8. TypeOK'
  BY <1>1, <1>5, <1>6, <1>7, Advances, JobTypes
     DEF TypeOK, CopyStep, PutEmpty, Elsewhere
<1>9. Owing'
  BY <1>1, <1>3, <1>4, <1>5, <1>6, <1>7, SettlerOwing
     DEF Owing, RewindOwed, Slot, CopyStep, PutEmpty, Elsewhere
<1>10. Settles'
  <2>1. step = 8 /\ step' = 9 /\ at' = Plain /\ roster' = roster
    BY <1>1, <1>2, <1>3, <1>4 DEF CopyStep
  <2> QED
    BY <2>1, <1>1, <1>3, <1>4, <1>5, <1>6, <1>7
       DEF Settles, Settler, Created, Joined, Recovered, Adopted, Whole
<1>11. Located' /\ Listed' /\ Carried' /\ Merges' /\ Leaves'
  BY <1>1, <1>3, SettlerElsewhere DEF CopyStep
<1>12. HomeStep
  BY <1>3, <1>4, <1>5, <1>6, <1>7, HomeStays, Kinds
     DEF RowsIn, AtHome, PutEmpty, Elsewhere
<1> QED
  BY <1>8, <1>9, <1>10, <1>11, <1>12

\* The copy's password door is sealed over its key.
LEMMA DoorInPlain == ASSUME IInv, DoorStep, Settler PROVE IInv' /\ HomeStep
<1> USE DEF IInv
<1>1. pc = "flow"
  BY DEF DoorStep, Doing
<1>2. step = 10
  BY <1>1, In_create, In_join, In_recover DEF DoorStep, Settler
<1>3. step \in 1..11 /\ step' = step + 1 /\ UNCHANGED <<pc, app, flow, to, kept>>
  BY <1>1, <1>2, InSettler, Goes DEF DoorStep
<1>4. Work = Plain /\ Source = Plain /\ at = Plain /\ to \in Account /\ roster = {}
      /\ store[Plain] # None
  BY <1>1, <1>2 DEF Work, Source, Settles, Settler
<1>5. PassDoor(to, chain.db)
  BY <1>4, PassDoorPut DEF DoorStep, TypeOK, Chain
<1>6. UNCHANGED <<roster, store, chain, era>>
  BY DEF DoorStep
<1>7. TypeOK'
  BY <1>1, <1>5, <1>6, Advances, JobTypes
     DEF TypeOK, DoorStep, PassDoor, DoorElsewhere, Slot
<1>8. Owing'
  BY <1>1, <1>3, <1>4, <1>5, <1>6
     DEF Owing, OwesHere, HasEnclave, RewindOwed, DoorStep, PassDoor,
         DoorElsewhere, Slot
<1>9. Settles'
  <2>1. step = 10 /\ step' = 11 /\ at' = Plain /\ roster' = roster
    BY <1>1, <1>2, <1>3, <1>4 DEF DoorStep
  <2> QED
    BY <2>1, <1>1, <1>3, <1>4, <1>5, <1>6
       DEF Settles, Settler, Created, Joined, Recovered, Adopted, Whole,
           PassDoor
<1>10. Located' /\ Listed' /\ Carried' /\ Merges' /\ Leaves'
  BY <1>1, <1>3, SettlerElsewhere DEF DoorStep
<1>11. HomeStep
  BY <1>3, <1>4, <1>5, <1>6, HomeStays, Kinds
     DEF RowsIn, AtHome, PassDoor, DoorElsewhere, Slot
<1> QED
  BY <1>7, <1>8, <1>9, <1>10, <1>11

\* Then the copy is the plaintext store, encrypted.
LEMMA FillInPlain == ASSUME IInv, FillStep, Settler PROVE IInv' /\ HomeStep
<1> USE DEF IInv
<1>1. pc = "flow"
  BY DEF FillStep, Doing
<1>2. step = 9
  BY <1>1, InSettler DEF FillStep
<1>3. step' = 10 /\ UNCHANGED <<roster, door, chain, era, pc, app, flow, to, kept>>
  BY <1>2 DEF FillStep, Settler
<1>4. Source = Plain /\ at = Plain /\ to \in Account /\ roster = {}
      /\ store[Plain] # None
  BY <1>1, <1>2 DEF Source, Settles, Settler
<1>5. PutCopy(to, Plain)
  BY <1>4, CopyPut DEF FillStep, Slot
<1>6. to # Plain /\ store'[Plain] = store[Plain]
  BY <1>4, <1>5, Kinds DEF PutCopy, Elsewhere, Slot
<1>7. TypeOK'
  <2>1. step' \in 1..Len(Steps[flow])
    <3>1. Len(Steps[flow]) = 12
      BY <1>1, InSettler
    <3> QED
      BY <1>3, <3>1
  <2> QED
    BY <1>1, <1>3, <1>5, <2>1 DEF FillStep, TypeOK, PutCopy, Elsewhere
<1>8. Owing'
  <2>1. ~store'[to].owed /\ (store'[to].enclave # None => store'[to].enclave.era <= era)
    BY <1>4, <1>5 DEF Owing, Slot, PutCopy
  <2>2. Elsewhere(to) /\ to \in Slot
    BY <1>4, <1>5 DEF Slot, PutCopy
  <2>3. UNCHANGED <<roster, pc, app, era>> /\ step <= 11
    BY <1>2, <1>3
  <2> QED
    BY <1>1, <2>1, <2>2, <2>3, SettlerOwing
<1>9. Settles'
  BY <1>1, <1>2, <1>3, <1>4, <1>5, <1>6
     DEF Settles, Settler, Created, Joined, Recovered, Adopted, Whole, PutCopy
<1>10. Located' /\ Listed' /\ Carried' /\ Merges' /\ Leaves'
  BY <1>1, <1>2, <1>3, SettlerElsewhere
<1>11. HomeStep
  BY <1>3, <1>4, <1>6, Kinds, HomeStays DEF RowsIn, AtHome
<1> QED
  BY <1>7, <1>8, <1>9, <1>10, <1>11

\* The account is listed: it is whole, it opens, and the rows came along.
LEMMA RosterInPlain == ASSUME IInv, RosterStep, Settler PROVE IInv' /\ HomeStep
<1> USE DEF IInv
<1>1. pc = "flow"
  BY DEF RosterStep, Doing
<1>2. step = 11
  BY <1>1, InSettler DEF RosterStep
<1>3. step' = 12 /\ UNCHANGED <<pc, app, flow, to, kept>>
  BY <1>1, <1>2, InSettler, Goes DEF RosterStep
<1>4. at = Plain /\ to \in Account /\ roster' = {to} /\ to # Plain
      /\ store[Plain] # None
  BY <1>1, <1>2, Kinds DEF RosterStep, Settles, Settler
<1>5. UNCHANGED <<store, door, chain, era, minted, torn>>
  BY DEF RosterStep
<1>6. TypeOK'
  <2>1. cut' \subseteq Account /\ roster' \subseteq Account
    BY <1>4 DEF TypeOK, RosterStep
  <2> QED
    BY <1>1, <1>5, <2>1, Advances, JobTypes DEF RosterStep, TypeOK
<1>7. Whole(store[Plain], to) /\ chain.db # None /\ door[to].phrase = None
      /\ door[to].pass = chain.db
  BY <1>1, <1>2 DEF Settles, Settler, Adopted
<1> DEFINE v == [store[Plain] EXCEPT !.lock = chain.db]
<1>8. v.lock = chain.db /\ v.acct = store[Plain].acct
      /\ v.enclave = store[Plain].enclave
      /\ v.pass = store[Plain].pass /\ v.phrase = store[Plain].phrase /\ v # None
      /\ v.pass # None /\ v.phrase # None
  <2>1. store[Plain] \in Store /\ chain.db \in KeyOrNone
    BY <1>4 DEF TypeOK, Slot, Chain
  <2>2. v \in Store
    BY <2>1 DEF Store
  <2>3. store[Plain].pass # None
    BY <1>7, <2>1, StoreFields, Kinds DEF Whole
  <2> QED
    BY <1>7, <2>1, <2>2, <2>3, StoreFields DEF Store, Whole
<1> HIDE DEF v
<1>9. store'[to] = v
  BY <1>1, <1>2, <1>5 DEF Settles, Settler, Adopted, v
<1>10. Sound(to)'
  BY <1>3, <1>5, <1>7, <1>8, <1>9 DEF Sound, Whole
<1>11. SamePhrase(to)'
  BY <1>1, <1>3, <1>5, <1>7, <1>8, <1>9
     DEF SamePhrase, PhraseOf, Whole, InMerge, Settler
<1>12. Located' /\ Listed' /\ Carried'
  BY <1>1, <1>3, <1>4, <1>10, <1>11 DEF Located, Ready, Launching, Listed, Carried
<1>13. Owing'
  BY <1>1, <1>3, <1>4, <1>5, <1>7 DEF Owing, OwesHere, HasEnclave, RewindOwed
<1>14. Settles' /\ Merges' /\ Leaves'
  BY <1>1, <1>2, <1>3, <1>4 DEF Settles, Settler, Merges, Leaves
<1>15. HomeStep
  <2>1. v.rows = store[Plain].rows
    BY <1>4 DEF v, Store, TypeOK, Slot
  <2>2. roster = {} /\ flow \notin {"forget", "reset"}
    BY <1>1, <1>2 DEF Settles, Settler
  <2> QED
    BY <1>3, <1>4, <1>8, <1>9, <2>1, <2>2, Kinds, HomeSettles DEF RowsIn, AtHome
<1> QED
  BY <1>6, <1>12, <1>13, <1>14, <1>15

\* A flow that stops leaves no store open.
LEMMA Stopped ==
  ASSUME IInv, NEW p \in {"swapped", "off"}, Stop(p), roster' \in {roster, {}}
  PROVE  Located' /\ Carried' /\ Settles' /\ Merges' /\ Leaves'
BY DEF IInv, Stop, Located, Ready, Launching, Carried, Settles, Merges, Leaves

-----------------------------------------------------------------------------
(* A store is merged into an account. *)

\* The copy is not listed yet, and the store it is made of stays as it was.
LEMMA MergeElsewhere ==
  ASSUME IInv, pc = "flow", flow = "merge", step \in 1..10, step # 3, step' = step + 1,
         UNCHANGED <<roster, era, pc, app, flow, to, kept, history>>,
         Elsewhere(to), DoorElsewhere(to), chain'.db = chain.db,
         chain'.rec = chain.rec \/ step = 8,
         store'[to] # None =>
             /\ store'[to].owed => store'[to].repair
             /\ store'[to].enclave # None => store'[to].enclave.era <= era
  PROVE  Located' /\ Owing' /\ Listed' /\ Carried' /\ Settles' /\ Leaves'
<1> USE DEF IInv
<1>1. /\ roster = {at} /\ at \in Account /\ to \in Account /\ at # to
      /\ at \in Slot /\ to \in Slot /\ Plain \in Slot /\ at # Plain /\ to # Plain
  BY Kinds DEF Merges, Slot, Account
<1>2. store'[at] = store[at] /\ store'[Plain] = store[Plain] /\ door'[at] = door[at]
  BY <1>1 DEF Elsewhere, DoorElsewhere
<1>3. Located'
  BY <1>1, <1>2 DEF Located, Ready, Launching
<1>4. Owing'
  BY <1>1, <1>2 DEF Owing, OwesHere, HasEnclave, RewindOwed, Elsewhere, Merges
<1>5. Listed'
  BY <1>1, <1>2 DEF Listed, Sound, SamePhrase, PhraseOf, InMerge, InRelayHalf
<1>6. Carried' /\ Settles' /\ Leaves'
  BY DEF Carried, Settles, Settler, Leaves
<1> QED
  BY <1>3, <1>4, <1>5, <1>6

\* A merge begins as an adoption does.
LEMMA DropInMerge == ASSUME IInv, DropStep, flow = "merge" PROVE IInv' /\ HomeStep
<1> USE DEF IInv
<1>1. pc = "flow"
  BY DEF DropStep, Doing
<1>2. step = 1
  BY <1>1, In_merge DEF DropStep
<1>3. step' = 2 /\ UNCHANGED <<pc, app, flow, to, kept>>
  BY <1>1, <1>2, In_merge, Goes DEF DropStep
<1>4. /\ Work = to /\ Source = at /\ to \in Synced /\ to \in Account /\ to \in Slot
      /\ to \in Key
      /\ at \in Account /\ at # to /\ at \in Slot /\ roster = {at} /\ store[at] # None
      /\ chain.db # None /\ chain.db \in Key
  BY <1>1, <1>2
     DEF Work, Source, Merges, Copied, Account, Slot, Key, TypeOK, Chain,
         KeyOrNone
<1>5. PutNone(to)
  BY <1>4, NonePut DEF DropStep, Merges
<1>6. DoorGone(to)
  BY <1>4, DoorRemoved DEF DropStep, Merges
<1>7. UNCHANGED <<roster, chain, era, minted, history>>
  BY DEF DropStep
<1>8. Elsewhere(to) /\ DoorElsewhere(to) /\ store'[at] = store[at]
  BY <1>4, <1>5, <1>6, <1>7
     DEF TypeOK, Elsewhere, DoorElsewhere, PutNone, DoorGone
<1>9. TypeOK'
  BY <1>1, <1>8, <1>5, <1>6, <1>7, Advances, JobTypes
     DEF TypeOK, DropStep, Elsewhere, DoorElsewhere
<1>10. store'[to] # None =>
           /\ store'[to].owed => store'[to].repair
           /\ store'[to].enclave # None => store'[to].enclave.era <= era
  BY <1>4, <1>5, <1>6, <1>7 DEF Owing, RewindOwed, PutNone, DoorGone
<1>11. Located' /\ Owing' /\ Listed' /\ Carried' /\ Settles' /\ Leaves'
  BY <1>1, <1>2, <1>3, <1>5, <1>6, <1>7, <1>8, <1>10, MergeElsewhere
<1>12. Merges'
  BY <1>1, <1>2, <1>3, <1>4, <1>5, <1>6, <1>7, <1>8
     DEF Merges, Copied, InMerge, DoorGone
<1>13. HomeStep
  BY <1>3, <1>4, <1>5, <1>6, <1>7, <1>8, HomeStays, Kinds DEF RowsIn, AtHome
<1> QED
  BY <1>9, <1>10, <1>11, <1>12, <1>13

LEMMA CopyInMerge == ASSUME IInv, CopyStep, flow = "merge" PROVE IInv' /\ HomeStep
<1> USE DEF IInv
<1>1. pc = "flow"
  BY DEF CopyStep, Doing
<1>2. step = 2
  BY <1>1, In_merge DEF CopyStep
<1>3. step' = 3 /\ UNCHANGED <<pc, app, flow, to, kept>>
  BY <1>1, <1>2, In_merge, Goes DEF CopyStep
<1>4. /\ Work = to /\ Source = at /\ to \in Synced /\ to \in Account /\ to \in Slot
      /\ to \in Key
      /\ at \in Account /\ at # to /\ at \in Slot /\ roster = {at} /\ store[at] # None
      /\ chain.db # None /\ chain.db \in Key
  BY <1>1, <1>2
     DEF Work, Source, Merges, Copied, Account, Slot, Key, TypeOK, Chain,
         KeyOrNone
<1>5. PutEmpty(to, chain.db)
  BY <1>4, EmptyPut DEF CopyStep, KeyOrNone
<1>6. UNCHANGED <<roster, door, chain, era, minted, history>>
  BY DEF CopyStep
<1>7. Elsewhere(to) /\ DoorElsewhere(to) /\ store'[at] = store[at]
  BY <1>4, <1>5, <1>6 DEF TypeOK, Elsewhere, DoorElsewhere, PutEmpty
<1>8. TypeOK'
  BY <1>1, <1>7, <1>5, <1>6, Advances, JobTypes
     DEF TypeOK, CopyStep, Elsewhere, DoorElsewhere
<1>9. store'[to] # None =>
           /\ store'[to].owed => store'[to].repair
           /\ store'[to].enclave # None => store'[to].enclave.era <= era
  BY <1>4, <1>5, <1>6 DEF Owing, RewindOwed, PutEmpty
<1>10. Located' /\ Owing' /\ Listed' /\ Carried' /\ Settles' /\ Leaves'
  BY <1>1, <1>2, <1>3, <1>5, <1>6, <1>7, <1>9, MergeElsewhere
<1>11. Merges'
  BY <1>1, <1>2, <1>3, <1>4, <1>5, <1>6, <1>7
     DEF Merges, Copied, InMerge, PutEmpty
<1>12. HomeStep
  BY <1>3, <1>4, <1>5, <1>6, <1>7, HomeStays, Kinds DEF RowsIn, AtHome
<1> QED
  BY <1>8, <1>9, <1>10, <1>11, <1>12

\* The copy loses the local account.
LEMMA ClearInMerge == ASSUME IInv, ClearStep, flow = "merge" PROVE IInv' /\ HomeStep
<1> USE DEF IInv
<1>1. pc = "flow"
  BY DEF ClearStep, Doing
<1>2. step = 4
  BY <1>1, In_merge DEF ClearStep
<1>3. step' = 5 /\ UNCHANGED <<pc, app, flow, to, kept>>
  BY <1>1, <1>2, In_merge, Goes DEF ClearStep
<1>4. /\ Work = to /\ Source = at /\ to \in Synced /\ to \in Account /\ to \in Slot
      /\ to \in Key
      /\ at \in Account /\ at # to /\ at \in Slot /\ roster = {at} /\ store[at] # None
      /\ chain.db # None /\ chain.db \in Key /\ store[to] # None
  BY <1>1, <1>2
     DEF Work, Source, Merges, Copied, Account, Slot, Key, TypeOK, Chain,
         KeyOrNone
<1>5. PutCleared(to)
  BY <1>4, ClearedPut DEF ClearStep
<1>6. UNCHANGED <<roster, door, chain, era, minted, history>>
  BY DEF ClearStep
<1>7. Elsewhere(to) /\ DoorElsewhere(to) /\ store'[at] = store[at]
  BY <1>4, <1>5, <1>6 DEF TypeOK, Elsewhere, DoorElsewhere, PutCleared
<1>8. TypeOK'
  BY <1>1, <1>7, <1>5, <1>6, Advances, JobTypes
     DEF TypeOK, ClearStep, Elsewhere, DoorElsewhere
<1>9. store'[to] # None =>
           /\ store'[to].owed => store'[to].repair
           /\ store'[to].enclave # None => store'[to].enclave.era <= era
  BY <1>4, <1>5, <1>6 DEF Owing, RewindOwed, PutCleared
<1>10. Located' /\ Owing' /\ Listed' /\ Carried' /\ Settles' /\ Leaves'
  BY <1>1, <1>2, <1>3, <1>5, <1>6, <1>7, <1>9, MergeElsewhere
<1>11. Merges'
  BY <1>1, <1>2, <1>3, <1>4, <1>5, <1>6, <1>7
     DEF Merges, Copied, InMerge, PutCleared
<1>12. HomeStep
  BY <1>3, <1>4, <1>5, <1>6, <1>7, HomeStays, Kinds DEF RowsIn, AtHome
<1> QED
  BY <1>8, <1>9, <1>10, <1>11, <1>12

\* It becomes the relay account's, step by step.
LEMMA AccountInMerge == ASSUME IInv, AccountStep, flow = "merge" PROVE IInv' /\ HomeStep
<1> USE DEF IInv
<1>1. pc = "flow"
  BY DEF AccountStep, Doing
<1>2. step = 5
  BY <1>1, In_merge DEF AccountStep
<1>3. step' = 6 /\ UNCHANGED <<pc, app, flow, to, kept>>
  BY <1>1, <1>2, In_merge, Goes DEF AccountStep
<1>4. /\ Work = to /\ Source = at /\ to \in Synced /\ to \in Account /\ to \in Slot
      /\ to \in Key
      /\ at \in Account /\ at # to /\ at \in Slot /\ roster = {at} /\ store[at] # None
      /\ chain.db # None /\ chain.db \in Key /\ store[to] # None
  BY <1>1, <1>2
     DEF Work, Source, Merges, Copied, Account, Slot, Key, TypeOK, Chain,
         KeyOrNone
<1>5. PutAcct(to, to, TRUE)
  BY <1>4, AcctPut DEF AccountStep
<1>6. UNCHANGED <<roster, door, chain, era, minted, history>>
  BY DEF AccountStep
<1>7. Elsewhere(to) /\ DoorElsewhere(to) /\ store'[at] = store[at]
  BY <1>4, <1>5, <1>6 DEF TypeOK, Elsewhere, DoorElsewhere, PutAcct
<1>8. TypeOK'
  BY <1>1, <1>7, <1>5, <1>6, Advances, JobTypes
     DEF TypeOK, AccountStep, Elsewhere, DoorElsewhere
<1>9. store'[to] # None =>
           /\ store'[to].owed => store'[to].repair
           /\ store'[to].enclave # None => store'[to].enclave.era <= era
  BY <1>4, <1>5, <1>6 DEF Owing, RewindOwed, PutAcct
<1>10. Located' /\ Owing' /\ Listed' /\ Carried' /\ Settles' /\ Leaves'
  BY <1>1, <1>2, <1>3, <1>5, <1>6, <1>7, <1>9, MergeElsewhere
<1>11. Merges'
  BY <1>1, <1>2, <1>3, <1>4, <1>5, <1>6, <1>7
     DEF Merges, Copied, InMerge, PutAcct
<1>12. HomeStep
  BY <1>3, <1>4, <1>5, <1>6, <1>7, HomeStays, Kinds DEF RowsIn, AtHome
<1> QED
  BY <1>8, <1>9, <1>10, <1>11, <1>12

LEMMA EnclaveInMerge == ASSUME IInv, EnclaveStep, flow = "merge" PROVE IInv' /\ HomeStep
<1> USE DEF IInv
<1>1. pc = "flow"
  BY DEF EnclaveStep, Doing
<1>2. step = 6
  BY <1>1, In_merge DEF EnclaveStep
<1>3. step' = 7 /\ UNCHANGED <<pc, app, flow, to, kept>>
  BY <1>1, <1>2, In_merge, Goes DEF EnclaveStep
<1>4. /\ Work = to /\ Source = at /\ to \in Synced /\ to \in Account /\ to \in Slot
      /\ to \in Key
      /\ at \in Account /\ at # to /\ at \in Slot /\ roster = {at} /\ store[at] # None
      /\ chain.db # None /\ chain.db \in Key /\ store[to] # None
  BY <1>1, <1>2
     DEF Work, Source, Merges, Copied, Account, Slot, Key, TypeOK, Chain,
         KeyOrNone
<1>5. EnclaveWrap(to) \in [era : 0..MaxEra, mk : Key] /\ EnclaveWrap(to).era = era
      /\ EnclaveWrap(to).mk = to
  BY <1>4 DEF TypeOK, EnclaveWrap
<1>6. EnclaveWrap(to) # None
  BY <1>5, NoneAssumption DEF NoneAssumption
<1>7. PutEnclave(to, EnclaveWrap(to))
  BY <1>4, <1>5, EnclavePut DEF EnclaveStep
<1>8. UNCHANGED <<roster, door, chain, era, minted, history>>
  BY DEF EnclaveStep
<1>9. Elsewhere(to) /\ DoorElsewhere(to) /\ store'[at] = store[at]
  BY <1>4, <1>5, <1>6, <1>7, <1>8
     DEF TypeOK, Elsewhere, DoorElsewhere, PutEnclave
<1>10. TypeOK'
  BY <1>1, <1>9, <1>5, <1>6, <1>7, <1>8, Advances, JobTypes
     DEF TypeOK, EnclaveStep, Elsewhere, DoorElsewhere
<1>11. store'[to] # None =>
           /\ store'[to].owed => store'[to].repair
           /\ store'[to].enclave # None => store'[to].enclave.era <= era
  BY <1>4, <1>5, <1>6, <1>7, <1>8 DEF Owing, RewindOwed, PutEnclave
<1>12. Located' /\ Owing' /\ Listed' /\ Carried' /\ Settles' /\ Leaves'
  BY <1>1, <1>2, <1>3, <1>5, <1>6, <1>7, <1>8, <1>9, <1>11, MergeElsewhere
<1>13. Merges'
  BY <1>1, <1>2, <1>3, <1>4, <1>5, <1>6, <1>7, <1>8, <1>9
     DEF Merges, Copied, InMerge, PutEnclave
<1>14. HomeStep
  BY <1>3, <1>4, <1>5, <1>6, <1>7, <1>8, <1>9, HomeStays, Kinds
     DEF RowsIn, AtHome
<1> QED
  BY <1>10, <1>11, <1>12, <1>13, <1>14

LEMMA PasswordInMerge ==
  ASSUME IInv, PasswordStep, flow = "merge"
  PROVE IInv' /\ HomeStep
<1> USE DEF IInv
<1>1. pc = "flow"
  BY DEF PasswordStep, Doing
<1>2. step = 7
  BY <1>1, In_merge DEF PasswordStep
<1>3. step' = 8 /\ UNCHANGED <<pc, app, flow, to, kept>>
  BY <1>1, <1>2, In_merge, Goes DEF PasswordStep
<1>4. /\ Work = to /\ Source = at /\ to \in Synced /\ to \in Account /\ to \in Slot
      /\ to \in Key
      /\ at \in Account /\ at # to /\ at \in Slot /\ roster = {at} /\ store[at] # None
      /\ chain.db # None /\ chain.db \in Key /\ store[to] # None
  BY <1>1, <1>2
     DEF Work, Source, Merges, Copied, Account, Slot, Key, TypeOK, Chain,
         KeyOrNone
<1>5. PutPass(to, to)
  BY <1>4, PassPut DEF PasswordStep, FlowMaster
<1>6. UNCHANGED <<roster, door, chain, era, minted, history>>
  BY DEF PasswordStep
<1>7. Elsewhere(to) /\ DoorElsewhere(to) /\ store'[at] = store[at]
  BY <1>4, <1>5, <1>6 DEF TypeOK, Elsewhere, DoorElsewhere, PutPass
<1>8. TypeOK'
  BY <1>1, <1>7, <1>5, <1>6, Advances, JobTypes
     DEF TypeOK, PasswordStep, Elsewhere, DoorElsewhere
<1>9. store'[to] # None =>
           /\ store'[to].owed => store'[to].repair
           /\ store'[to].enclave # None => store'[to].enclave.era <= era
  BY <1>4, <1>5, <1>6 DEF Owing, RewindOwed, PutPass
<1>10. Located' /\ Owing' /\ Listed' /\ Carried' /\ Settles' /\ Leaves'
  BY <1>1, <1>2, <1>3, <1>5, <1>6, <1>7, <1>9, MergeElsewhere
<1>11. Merges'
  BY <1>1, <1>2, <1>3, <1>4, <1>5, <1>6, <1>7
     DEF Merges, Copied, InMerge, PutPass
<1>12. HomeStep
  BY <1>3, <1>4, <1>5, <1>6, <1>7, HomeStays, Kinds DEF RowsIn, AtHome
<1> QED
  BY <1>8, <1>9, <1>10, <1>11, <1>12

\* From here to the roster the keychain's phrase is not the listed account's.
LEMMA PhraseInMerge == ASSUME IInv, PhraseStep, flow = "merge" PROVE IInv' /\ HomeStep
<1> USE DEF IInv
<1>1. pc = "flow"
  BY DEF PhraseStep, Doing
<1>2. step = 8
  BY <1>1, In_merge DEF PhraseStep
<1>3. step' = 9 /\ UNCHANGED <<pc, app, flow, to, kept>>
  BY <1>1, <1>2, In_merge, Goes DEF PhraseStep
<1>4. /\ Work = to /\ Source = at /\ to \in Synced /\ to \in Account /\ to \in Slot
      /\ to \in Key
      /\ at \in Account /\ at # to /\ at \in Slot /\ roster = {at} /\ store[at] # None
      /\ chain.db # None /\ chain.db \in Key /\ store[to] # None
  BY <1>1, <1>2
     DEF Work, Source, Merges, Copied, Account, Slot, Key, TypeOK, Chain,
         KeyOrNone
<1>5. chain' \in Chain /\ chain'.db = chain.db /\ chain'.rec = to
  BY <1>4 DEF PhraseStep, TypeOK, Chain, KeyOrNone
<1>6. UNCHANGED <<era, minted>>
  BY DEF PhraseStep
<1>7. UNCHANGED <<roster, store, door, history>>
  BY DEF PhraseStep
<1>8. Elsewhere(to) /\ DoorElsewhere(to) /\ store'[at] = store[at]
  BY <1>4, <1>5, <1>6, <1>7 DEF TypeOK, Elsewhere, DoorElsewhere
<1>9. TypeOK'
  BY <1>1, <1>8, <1>5, <1>6, <1>7, Advances, JobTypes
     DEF TypeOK, PhraseStep, Elsewhere, DoorElsewhere
<1>10. store'[to] # None =>
           /\ store'[to].owed => store'[to].repair
           /\ store'[to].enclave # None => store'[to].enclave.era <= era
  BY <1>4, <1>5, <1>6, <1>7 DEF Owing, RewindOwed
<1>11. Located' /\ Owing' /\ Listed' /\ Carried' /\ Settles' /\ Leaves'
  BY <1>1, <1>2, <1>3, <1>5, <1>6, <1>7, <1>8, <1>10, MergeElsewhere
<1>12. Merges'
  BY <1>1, <1>2, <1>3, <1>4, <1>5, <1>6, <1>7, <1>8 DEF Merges, Copied, InMerge
<1>13. HomeStep
  BY <1>3, <1>4, <1>5, <1>6, <1>7, <1>8, HomeStays, Kinds DEF RowsIn, AtHome
<1> QED
  BY <1>9, <1>10, <1>11, <1>12, <1>13

LEMMA EscrowInMerge == ASSUME IInv, EscrowStep, flow = "merge" PROVE IInv' /\ HomeStep
<1> USE DEF IInv
<1>1. pc = "flow"
  BY DEF EscrowStep, Doing
<1>2. step = 9
  BY <1>1, In_merge DEF EscrowStep
<1>3. step' = 10 /\ UNCHANGED <<pc, app, flow, to, kept>>
  BY <1>1, <1>2, In_merge, Goes DEF EscrowStep
<1>4. /\ Work = to /\ Source = at /\ to \in Synced /\ to \in Account /\ to \in Slot
      /\ to \in Key
      /\ at \in Account /\ at # to /\ at \in Slot /\ roster = {at} /\ store[at] # None
      /\ chain.db # None /\ chain.db \in Key /\ store[to] # None
  BY <1>1, <1>2
     DEF Work, Source, Merges, Copied, Account, Slot, Key, TypeOK, Chain,
         KeyOrNone
<1> DEFINE p == [key |-> to, mk |-> to]
<1>5. p \in [key : Key, mk : Key] /\ p # None
  BY <1>4, NoneAssumption DEF NoneAssumption
<1>6. PutPhrase(to, p)
  BY <1>4, <1>5, PhrasePut DEF EscrowStep, FlowMaster
<1>7. p = [key |-> to, mk |-> to]
  OBVIOUS
<1> HIDE DEF p
<1>8. UNCHANGED <<roster, door, chain, era, minted, history>>
  BY DEF EscrowStep
<1>9. Elsewhere(to) /\ DoorElsewhere(to) /\ store'[at] = store[at]
  BY <1>4, <1>5, <1>6, <1>7, <1>8
     DEF TypeOK, Elsewhere, DoorElsewhere, PutPhrase
<1>10. TypeOK'
  BY <1>1, <1>9, <1>5, <1>6, <1>7, <1>8, Advances, JobTypes
     DEF TypeOK, EscrowStep, Elsewhere, DoorElsewhere
<1>11. store'[to] # None =>
           /\ store'[to].owed => store'[to].repair
           /\ store'[to].enclave # None => store'[to].enclave.era <= era
  BY <1>4, <1>5, <1>6, <1>7, <1>8 DEF Owing, RewindOwed, PutPhrase
<1>12. Located' /\ Owing' /\ Listed' /\ Carried' /\ Settles' /\ Leaves'
  BY <1>1, <1>2, <1>3, <1>5, <1>6, <1>7, <1>8, <1>9, <1>11, MergeElsewhere
<1>13. Merges'
  BY <1>1, <1>2, <1>3, <1>4, <1>5, <1>6, <1>7, <1>8, <1>9
     DEF Merges, Copied, InMerge, PutPhrase
<1>14. HomeStep
  BY <1>3, <1>4, <1>5, <1>6, <1>7, <1>8, <1>9, HomeStays, Kinds
     DEF RowsIn, AtHome
<1> QED
  BY <1>10, <1>11, <1>12, <1>13, <1>14

LEMMA DoorInMerge == ASSUME IInv, DoorStep, flow = "merge" PROVE IInv' /\ HomeStep
<1> USE DEF IInv
<1>1. pc = "flow"
  BY DEF DoorStep, Doing
<1>2. step = 10
  BY <1>1, In_merge DEF DoorStep
<1>3. step' = 11 /\ UNCHANGED <<pc, app, flow, to, kept>>
  BY <1>1, <1>2, In_merge, Goes DEF DoorStep
<1>4. /\ Work = to /\ Source = at /\ to \in Synced /\ to \in Account /\ to \in Slot
      /\ to \in Key
      /\ at \in Account /\ at # to /\ at \in Slot /\ roster = {at} /\ store[at] # None
      /\ chain.db # None /\ chain.db \in Key /\ store[to] # None
  BY <1>1, <1>2
     DEF Work, Source, Merges, Copied, Account, Slot, Key, TypeOK, Chain,
         KeyOrNone
<1>5. PassDoor(to, chain.db)
  BY <1>4, PassDoorPut DEF DoorStep, KeyOrNone
<1>6. UNCHANGED <<roster, store, chain, era, minted, history>>
  BY DEF DoorStep
<1>7. Elsewhere(to) /\ DoorElsewhere(to) /\ store'[at] = store[at]
  BY <1>4, <1>5, <1>6 DEF TypeOK, Elsewhere, DoorElsewhere, PassDoor
<1>8. TypeOK'
  BY <1>1, <1>7, <1>5, <1>6, Advances, JobTypes
     DEF TypeOK, DoorStep, Elsewhere, DoorElsewhere
<1>9. store'[to] # None =>
           /\ store'[to].owed => store'[to].repair
           /\ store'[to].enclave # None => store'[to].enclave.era <= era
  BY <1>4, <1>5, <1>6 DEF Owing, RewindOwed, PassDoor
<1>10. Located' /\ Owing' /\ Listed' /\ Carried' /\ Settles' /\ Leaves'
  BY <1>1, <1>2, <1>3, <1>5, <1>6, <1>7, <1>9, MergeElsewhere
<1>11. Merges'
  BY <1>1, <1>2, <1>3, <1>4, <1>5, <1>6, <1>7
     DEF Merges, Copied, InMerge, PassDoor
<1>12. HomeStep
  BY <1>3, <1>4, <1>5, <1>6, <1>7, HomeStays, Kinds DEF RowsIn, AtHome
<1> QED
  BY <1>8, <1>9, <1>10, <1>11, <1>12

\* The keychain is looked at as the copy is filled.
LEMMA FillInMerge == ASSUME IInv, FillStep, flow = "merge" PROVE IInv' /\ HomeStep
<1> USE DEF IInv
<1>1. pc = "flow"
  BY DEF FillStep, Doing
<1>2. step = 3
  BY <1>1, In_merge DEF FillStep
<1>3. /\ step' = 4 /\ kept' = chain
      /\ UNCHANGED <<roster, door, chain, era, minted, history, pc, app, flow, to>>
  BY <1>2 DEF FillStep
<1>4. /\ Source = at /\ to \in Synced /\ at \in Account /\ at # to
      /\ at \in Slot /\ to \in Slot /\ Plain \in Slot /\ to # Plain /\ at # Plain
      /\ roster = {at} /\ store[at] # None /\ store[at].lock = chain.db
  BY <1>1, <1>2, Kinds DEF Source, Merges, Account, Slot
<1>5. PutCopy(to, at)
  BY <1>4, CopyPut DEF FillStep
<1>6. store'[at] = store[at] /\ store'[Plain] = store[Plain]
  BY <1>4, <1>5 DEF PutCopy, Elsewhere
<1>7. TypeOK'
  <2>1. step' \in 1..Len(Steps[flow])
    <3>1. Len(Steps[flow]) = 12
      BY <1>1, In_merge
    <3> QED
      BY <1>3, <3>1
  <2> QED
    BY <1>1, <1>3, <1>5, <2>1 DEF TypeOK, PutCopy, Elsewhere
<1>8. Located'
  BY <1>1, <1>3, <1>4, <1>6 DEF Located, Ready, Launching
<1>9. Owing'
  <2>1. /\ store'[to].owed => store'[to].repair
        /\ store'[to].enclave # None => store'[to].enclave.era <= era
    BY <1>4, <1>5 DEF Owing, RewindOwed, PutCopy
  <2>2. \A s \in Slot \ {to} : store'[s] = store[s]
    BY <1>5 DEF PutCopy, Elsewhere
  <2> QED
    BY <1>1, <1>3, <1>4, <1>6, <2>1, <2>2
       DEF Owing, OwesHere, HasEnclave, RewindOwed, Merges
<1>10. Listed'
  BY <1>1, <1>2, <1>3, <1>4, <1>6
     DEF Listed, Sound, SamePhrase, PhraseOf, InMerge, InRelayHalf
<1>11. Merges'
  BY <1>1, <1>2, <1>3, <1>4, <1>5, <1>6 DEF Merges, Copied, InMerge, PutCopy
<1>12. Carried' /\ Settles' /\ Leaves'
  BY <1>1, <1>3 DEF Carried, Settles, Settler, Leaves
<1>13. HomeStep
  BY <1>3, <1>4, <1>6, Kinds, HomeStays DEF RowsIn, AtHome
<1> QED
  BY <1>7, <1>8, <1>9, <1>10, <1>11, <1>12, <1>13

\* One account for the other, in one write: the copy is whole, it opens, and it
\* has the same rows.
LEMMA RosterInMerge == ASSUME IInv, RosterStep, flow = "merge" PROVE IInv' /\ HomeStep
<1> USE DEF IInv
<1>1. pc = "flow"
  BY DEF RosterStep, Doing
<1>2. step = 11
  BY <1>1, In_merge DEF RosterStep
<1>3. step' = 12 /\ UNCHANGED <<pc, app, flow, to, kept>>
  BY <1>1, <1>2, In_merge, Goes DEF RosterStep
<1>4. /\ to \in Synced /\ to \in Account /\ at \in Account /\ at # to
      /\ at \in Slot /\ to \in Slot /\ Plain \in Slot /\ at # Plain
      /\ roster = {at} /\ roster' = {to} /\ to # None
  BY <1>1, <1>2, Kinds DEF RosterStep, Merges, Account, Slot
<1>5. UNCHANGED <<store, door, chain, era, minted, torn>>
  BY DEF RosterStep
<1>6. TypeOK'
  <2>1. cut' \subseteq Account /\ roster' \subseteq Account
    BY <1>4 DEF TypeOK, RosterStep
  <2> QED
    BY <1>1, <1>5, <2>1, Advances, JobTypes DEF RosterStep, TypeOK
<1>7. /\ Copied(store[to]) /\ chain.db # None /\ door[to].phrase = None
  BY <1>1, <1>2 DEF Merges
<1>8. Sound(to)'
  BY <1>2, <1>3, <1>4, <1>5, <1>7 DEF Sound, Copied
<1>9. SamePhrase(to)'
  BY <1>1, <1>2, <1>3, <1>4, <1>5, <1>7 DEF SamePhrase, PhraseOf, Copied, InMerge
<1>10. Located' /\ Listed' /\ Carried'
  BY <1>1, <1>3, <1>4, <1>5, <1>8, <1>9 DEF Located, Ready, Launching, Listed, Carried
<1>11. Owing'
  BY <1>1, <1>3, <1>4, <1>5, <1>7 DEF Owing, OwesHere, HasEnclave, RewindOwed
<1>12. Settles' /\ Merges' /\ Leaves'
  BY <1>1, <1>2, <1>3, <1>4, <1>5, <1>7 DEF Settles, Settler, Merges, InMerge, Leaves
<1>13. HomeStep
  <2>1. store[to] # None /\ store[at] # None /\ store[to].rows = store[at].rows
    BY <1>1, <1>2, <1>7 DEF Copied, Merges
  <2> QED
    BY <1>3, <1>4, <1>5, <2>1, Kinds, HomeSettles DEF RowsIn, AtHome
<1> QED
  BY <1>6, <1>10, <1>11, <1>12, <1>13

\* The original goes with its doors, and is no longer the listed account's.
LEMMA RemoveStepKeeps == IInv /\ RemoveStep => IInv' /\ HomeStep
<1> SUFFICES ASSUME IInv, RemoveStep PROVE IInv' /\ HomeStep
  OBVIOUS
<1> USE DEF IInv
<1>1. pc = "flow"
  BY DEF RemoveStep, Doing
<1>2. Settler \/ flow = "merge"
  BY <1>1, Flows, In_signOut, In_forget, In_reset DEF RemoveStep, Settler, TypeOK
<1>3. step = 12 /\ Len(Steps[flow]) = 12
  BY <1>1, <1>2, InSettler, In_merge DEF RemoveStep
<1>4. Stop("swapped")
  BY <1>3 DEF RemoveStep, Advance
<1>5. /\ roster = {to} /\ to \in Account /\ to \in Slot /\ Source \in Slot
      /\ Source # to
      /\ flow = "merge" => Source = at /\ at \in Account
  BY <1>1, <1>2, <1>3, Kinds DEF Settles, Merges, Settler, Source, Account, Slot
<1>6. store' = store \/ PutNone(Source)
  BY <1>5, NonePut DEF RemoveStep
<1>7. door' = door \/ (flow = "merge" /\ DoorGone(at))
  BY <1>5, DoorRemoved DEF RemoveStep
<1>8. UNCHANGED <<roster, chain, era, minted, history>>
  BY DEF RemoveStep
<1>9. /\ store' \in [Slot -> Store \cup {None}] /\ door' \in [Account -> Door]
      /\ store'[to] = store[to] /\ door'[to] = door[to]
      /\ \A s \in Slot : store'[s] # None => store'[s] = store[s]
  BY <1>5, <1>6, <1>7 DEF TypeOK, PutNone, Elsewhere, DoorGone, DoorElsewhere
<1>10. TypeOK'
  BY <1>1, <1>8, <1>9, Advances, JobTypes DEF RemoveStep, TypeOK
<1>11. Located' /\ Carried' /\ Settles' /\ Merges' /\ Leaves'
  BY <1>4, <1>8, Stopped
<1>12. pc' = "swapped" /\ through' = NotADoor
  BY <1>4 DEF Stop
<1>13. Owing'
  BY <1>5, <1>8, <1>9, <1>12 DEF Owing, OwesHere, HasEnclave, RewindOwed, Slot
<1>14. Listed'
  BY <1>2, <1>3, <1>5, <1>8, <1>9, <1>12
     DEF Listed, Sound, SamePhrase, PhraseOf, InMerge, InRelayHalf, Settler
<1>15. HomeStep
  <2>1. flow' = "none" /\ flow \notin {"forget", "reset"}
    BY <1>2, <1>4 DEF Stop, Settler
  <2> QED
    BY <1>5, <1>8, <1>9, <2>1, Kinds, HomeStays DEF RowsIn, AtHome
<1> QED
  BY <1>10, <1>11, <1>13, <1>14, <1>15

\* The other steps, in whichever flow they are one of.
LEMMA MasterStepKeeps == IInv /\ MasterStep => IInv' /\ HomeStep
<1> SUFFICES ASSUME IInv, MasterStep PROVE IInv' /\ HomeStep
  OBVIOUS
<1>1. Settler
  BY Flows, In_create, In_join, In_recover, In_merge, In_signOut, In_forget, In_reset
     DEF IInv, TypeOK, MasterStep, Doing, Settler
<1> QED
  BY <1>1, MasterInPlain

LEMMA PhraseStepKeeps == IInv /\ PhraseStep => IInv' /\ HomeStep
<1> SUFFICES ASSUME IInv, PhraseStep PROVE IInv' /\ HomeStep
  OBVIOUS
<1>1. Settler \/ flow = "merge"
  BY Flows, In_create, In_join, In_recover, In_merge, In_signOut, In_forget, In_reset
     DEF IInv, TypeOK, PhraseStep, Doing, Settler
<1> QED
  BY <1>1, PhraseInPlain, PhraseInMerge

LEMMA AccountStepKeeps == IInv /\ AccountStep => IInv' /\ HomeStep
<1> SUFFICES ASSUME IInv, AccountStep PROVE IInv' /\ HomeStep
  OBVIOUS
<1>1. Settler \/ flow = "merge"
  BY Flows, In_create, In_join, In_recover, In_merge, In_signOut, In_forget, In_reset
     DEF IInv, TypeOK, AccountStep, Doing, Settler
<1> QED
  BY <1>1, AccountInPlain, AccountInMerge

LEMMA EnclaveStepKeeps == IInv /\ EnclaveStep => IInv' /\ HomeStep
<1> SUFFICES ASSUME IInv, EnclaveStep PROVE IInv' /\ HomeStep
  OBVIOUS
<1>1. Settler \/ flow = "merge"
  BY Flows, In_create, In_join, In_recover, In_merge, In_signOut, In_forget, In_reset
     DEF IInv, TypeOK, EnclaveStep, Doing, Settler
<1> QED
  BY <1>1, EnclaveInPlain, EnclaveInMerge

LEMMA PasswordStepKeeps == IInv /\ PasswordStep => IInv' /\ HomeStep
<1> SUFFICES ASSUME IInv, PasswordStep PROVE IInv' /\ HomeStep
  OBVIOUS
<1>1. Settler \/ flow = "merge"
  BY Flows, In_create, In_join, In_recover, In_merge, In_signOut, In_forget, In_reset
     DEF IInv, TypeOK, PasswordStep, Doing, Settler
<1> QED
  BY <1>1, PasswordInPlain, PasswordInMerge

LEMMA EscrowStepKeeps == IInv /\ EscrowStep => IInv' /\ HomeStep
<1> SUFFICES ASSUME IInv, EscrowStep PROVE IInv' /\ HomeStep
  OBVIOUS
<1>1. Settler \/ flow = "merge"
  BY Flows, In_create, In_join, In_recover, In_merge, In_signOut, In_forget, In_reset
     DEF IInv, TypeOK, EscrowStep, Doing, Settler
<1> QED
  BY <1>1, EscrowInPlain, EscrowInMerge

LEMMA DbKeyStepKeeps == IInv /\ DbKeyStep => IInv' /\ HomeStep
<1> SUFFICES ASSUME IInv, DbKeyStep PROVE IInv' /\ HomeStep
  OBVIOUS
<1>1. Settler
  BY Flows, In_create, In_join, In_recover, In_merge, In_signOut, In_forget, In_reset
     DEF IInv, TypeOK, DbKeyStep, Doing, Settler
<1> QED
  BY <1>1, DbKeyInPlain

LEMMA DropStepKeeps == IInv /\ DropStep => IInv' /\ HomeStep
<1> SUFFICES ASSUME IInv, DropStep PROVE IInv' /\ HomeStep
  OBVIOUS
<1>1. Settler \/ flow = "merge"
  BY Flows, In_create, In_join, In_recover, In_merge, In_signOut, In_forget, In_reset
     DEF IInv, TypeOK, DropStep, Doing, Settler
<1> QED
  BY <1>1, DropInPlain, DropInMerge

LEMMA CopyStepKeeps == IInv /\ CopyStep => IInv' /\ HomeStep
<1> SUFFICES ASSUME IInv, CopyStep PROVE IInv' /\ HomeStep
  OBVIOUS
<1>1. Settler \/ flow = "merge"
  BY Flows, In_create, In_join, In_recover, In_merge, In_signOut, In_forget, In_reset
     DEF IInv, TypeOK, CopyStep, Doing, Settler
<1> QED
  BY <1>1, CopyInPlain, CopyInMerge

LEMMA FillStepKeeps == IInv /\ FillStep => IInv' /\ HomeStep
<1> SUFFICES ASSUME IInv, FillStep PROVE IInv' /\ HomeStep
  OBVIOUS
<1>1. Settler \/ flow = "merge"
  BY Flows, In_create, In_join, In_recover, In_merge, In_signOut, In_forget, In_reset
     DEF IInv, TypeOK, FillStep, Doing, Settler
<1> QED
  BY <1>1, FillInPlain, FillInMerge

LEMMA ClearStepKeeps == IInv /\ ClearStep => IInv' /\ HomeStep
<1> SUFFICES ASSUME IInv, ClearStep PROVE IInv' /\ HomeStep
  OBVIOUS
<1>1. flow = "merge"
  BY Flows, In_create, In_join, In_recover, In_merge, In_signOut, In_forget, In_reset
     DEF IInv, TypeOK, ClearStep, Doing, Settler
<1> QED
  BY <1>1, ClearInMerge

LEMMA DoorStepKeeps == IInv /\ DoorStep => IInv' /\ HomeStep
<1> SUFFICES ASSUME IInv, DoorStep PROVE IInv' /\ HomeStep
  OBVIOUS
<1>1. Settler \/ flow = "merge"
  BY Flows, In_create, In_join, In_recover, In_merge, In_signOut, In_forget, In_reset
     DEF IInv, TypeOK, DoorStep, Doing, Settler
<1> QED
  BY <1>1, DoorInPlain, DoorInMerge

LEMMA RosterStepKeeps == IInv /\ RosterStep => IInv' /\ HomeStep
<1> SUFFICES ASSUME IInv, RosterStep PROVE IInv' /\ HomeStep
  OBVIOUS
<1>1. Settler \/ flow = "merge"
  BY Flows, In_create, In_join, In_recover, In_merge, In_signOut, In_forget, In_reset
     DEF IInv, TypeOK, RosterStep, Doing, Settler
<1> QED
  BY <1>1, RosterInPlain, RosterInMerge

-----------------------------------------------------------------------------
(* Leaving. *)

\* A step of signing out, forgetting or resetting goes on or stops.
LEMMA LeavingGoes ==
  ASSUME IInv, pc = "flow", flow \in {"signOut", "forget", "reset"}, Advance,
         roster' \in {roster, {}}
  PROVE  /\ Carried' /\ Settles' /\ Merges'
         /\ ~InRelayHalf' /\ ~InMerge' /\ pc' \in {"flow", "swapped"}
<1>1. CASE step = Len(Steps[flow])
  BY <1>1, Stopped
     DEF Advance, Stop, InRelayHalf, InMerge
<1>2. CASE step # Len(Steps[flow])
  BY <1>2, Goes
     DEF IInv, Carried, Settles, Settler, Merges, InRelayHalf, InMerge
<1> QED
  BY <1>1, <1>2

\* A locked account is opened through its doors.
LEMMA LockStepKeeps == IInv /\ LockStep => IInv' /\ HomeStep
<1> SUFFICES ASSUME IInv, LockStep PROVE IInv' /\ HomeStep
  OBVIOUS
<1> USE DEF IInv
<1>1. pc = "flow"
  BY DEF LockStep, Doing
<1>2. \/ flow = "signOut" /\ step = 1
      \/ flow = "forget" /\ step = 3
  <2>1. flow \in Flow
    BY <1>1 DEF TypeOK
  <2>2. flow \notin {"create", "join", "recover", "merge", "reset"}
    BY <1>1, In_create, In_join, In_recover, In_merge, In_reset DEF LockStep
  <2> QED
    BY <1>1, <2>1, <2>2, Flows, In_signOut, In_forget DEF LockStep
<1>3. /\ flow = "signOut" => step' = 2 /\ UNCHANGED <<pc, app, flow, to, kept>>
      /\ flow = "forget" => step' = 4 /\ UNCHANGED <<pc, app, flow, to, kept>>
  BY <1>1, <1>2, Goes, In_signOut, In_forget DEF LockStep, Advance
<1>4. chain' \in Chain /\ chain'.db = None /\ chain'.rec = chain.rec
  BY DEF LockStep, TypeOK, Chain, KeyOrNone
<1>5. UNCHANGED <<roster, store, door, era, minted, history>>
  BY DEF LockStep
<1>6. \/ roster = {}
      \/ flow = "signOut" /\ roster = {at} /\ at # Plain /\ ~OwesHere(at)
  BY <1>1, <1>2 DEF Leaves
<1>7. TypeOK'
  BY <1>1, <1>4, <1>5, <1>6, Advances, JobTypes DEF TypeOK, LockStep
<1>8. /\ Carried' /\ Settles' /\ Merges'
      /\ ~InRelayHalf' /\ ~InMerge' /\ pc' \in {"flow", "swapped"}
  BY <1>1, <1>2, <1>4, <1>5, <1>6, LeavingGoes DEF LockStep
<1>9. Located'
  BY <1>1, <1>2, <1>3, <1>4, <1>5, <1>6, <1>8
     DEF Located, Ready, Launching, Stop
<1>10. Owing'
  BY <1>1, <1>2, <1>3, <1>4, <1>5, <1>6, <1>8
     DEF Owing, OwesHere, HasEnclave, RewindOwed, Stop, NotADoor
<1>11. Listed'
  BY <1>1, <1>2, <1>4, <1>5, <1>6, <1>8
     DEF Listed, Sound, SamePhrase, PhraseOf, InRelayHalf
<1>12. Leaves'
  BY <1>1, <1>2, <1>3, <1>4, <1>5, <1>6 DEF Leaves, Stop, OwesHere, HasEnclave
<1>13. HomeStep
  BY <1>1, <1>2, <1>3, <1>4, <1>5, <1>6, HomeStays, Kinds DEF RowsIn, AtHome
<1> QED
  BY <1>7, <1>8, <1>9, <1>10, <1>11, <1>12, <1>13

LEMMA LockPhraseStepKeeps == IInv /\ LockPhraseStep => IInv' /\ HomeStep
<1> SUFFICES ASSUME IInv, LockPhraseStep PROVE IInv' /\ HomeStep
  OBVIOUS
<1> USE DEF IInv
<1>1. pc = "flow"
  BY DEF LockPhraseStep, Doing
<1>2. \/ flow = "signOut" /\ step = 2
      \/ flow = "forget" /\ step = 4
  <2>1. flow \in Flow
    BY <1>1 DEF TypeOK
  <2>2. flow \notin {"create", "join", "recover", "merge", "reset"}
    BY <1>1, In_create, In_join, In_recover, In_merge, In_reset
       DEF LockPhraseStep
  <2> QED
    BY <1>1, <2>1, <2>2, Flows, In_signOut, In_forget DEF LockPhraseStep
<1>3. /\ flow = "signOut" => Stop("swapped")
      /\ flow = "forget" => Stop("swapped")
  BY <1>1, <1>2, Goes, In_signOut, In_forget DEF LockPhraseStep, Advance
<1>4. chain' \in Chain /\ chain'.db = chain.db /\ chain'.rec = None
  BY DEF LockPhraseStep, TypeOK, Chain, KeyOrNone
<1>5. UNCHANGED <<roster, store, door, era, minted, history>>
  BY DEF LockPhraseStep
<1>6. \/ roster = {}
      \/ flow = "signOut" /\ roster = {at} /\ at # Plain /\ ~OwesHere(at)
  BY <1>1, <1>2 DEF Leaves
<1>7. TypeOK'
  BY <1>1, <1>4, <1>5, <1>6, Advances, JobTypes DEF TypeOK, LockPhraseStep
<1>8. /\ Carried' /\ Settles' /\ Merges'
      /\ ~InRelayHalf' /\ ~InMerge' /\ pc' \in {"flow", "swapped"}
  BY <1>1, <1>2, <1>4, <1>5, <1>6, LeavingGoes DEF LockPhraseStep
<1>9. Located'
  BY <1>1, <1>2, <1>3, <1>4, <1>5, <1>6, <1>8
     DEF Located, Ready, Launching, Stop
<1>10. Owing'
  BY <1>1, <1>2, <1>3, <1>4, <1>5, <1>6, <1>8
     DEF Owing, OwesHere, HasEnclave, RewindOwed, Stop, NotADoor
<1>11. Listed'
  BY <1>1, <1>2, <1>4, <1>5, <1>6, <1>8
     DEF Listed, Sound, SamePhrase, PhraseOf, InRelayHalf
<1>12. Leaves'
  BY <1>1, <1>2, <1>3, <1>4, <1>5, <1>6 DEF Leaves, Stop, OwesHere, HasEnclave
<1>13. HomeStep
  BY <1>1, <1>2, <1>3, <1>4, <1>5, <1>6, HomeStays, HomeLeaves, Kinds
     DEF RowsIn, AtHome, Stop
<1> QED
  BY <1>7, <1>8, <1>9, <1>10, <1>11, <1>12, <1>13

\* The account is given up before its store is, and the rows with it.
LEMMA UnlistStepKeeps == IInv /\ UnlistStep => IInv' /\ HomeStep
<1> SUFFICES ASSUME IInv, UnlistStep PROVE IInv' /\ HomeStep
  OBVIOUS
<1> USE DEF IInv
<1>1. pc = "flow"
  BY DEF UnlistStep, Doing
<1>2. flow = "forget" /\ step = 1
  <2>1. flow = "forget"
    BY <1>1, Flows, In_create, In_join, In_recover, In_merge, In_signOut, In_forget,
       In_reset DEF TypeOK, UnlistStep
  <2> QED
    BY <1>1, <2>1, In_forget DEF UnlistStep
<1>3. /\ step' = 2 /\ UNCHANGED <<pc, app, flow, to, kept>>
  BY <1>1, <1>2, Goes, In_forget DEF UnlistStep, Advance
<1>4. roster = {at} /\ roster' = {} /\ torn' = FALSE /\ cut' \subseteq Account
  BY <1>1, <1>2 DEF Leaves, UnlistStep, TypeOK
<1>5. UNCHANGED <<store, door, chain, era, minted>>
  BY DEF UnlistStep
<1>6. TypeOK'
  BY <1>1, <1>4, <1>5, Advances, JobTypes DEF TypeOK, UnlistStep
<1>7. /\ Carried' /\ Settles' /\ Merges'
      /\ ~InRelayHalf' /\ ~InMerge' /\ pc' \in {"flow", "swapped"}
  BY <1>1, <1>2, <1>4, <1>5, LeavingGoes DEF UnlistStep
<1>8. Located'
  BY <1>1, <1>2, <1>3, <1>4, <1>5, <1>7 DEF Located, Ready, Launching, Stop
<1>9. Owing'
  BY <1>1, <1>2, <1>3, <1>4, <1>5, <1>7
     DEF Owing, OwesHere, HasEnclave, RewindOwed, Stop, NotADoor
<1>10. Listed'
  BY <1>1, <1>2, <1>4, <1>5, <1>7
     DEF Listed, Sound, SamePhrase, PhraseOf, InRelayHalf
<1>11. Leaves'
  BY <1>1, <1>2, <1>3, <1>4, <1>5 DEF Leaves, Stop, OwesHere, HasEnclave
<1>12. HomeStep
  BY <1>1, <1>2, <1>3, <1>4, <1>5, HomeErases, Kinds
     DEF RowsIn, AtHome, Located
<1> QED
  BY <1>6, <1>7, <1>8, <1>9, <1>10, <1>11, <1>12

LEMMA EraseStepKeeps == IInv /\ EraseStep => IInv' /\ HomeStep
<1> SUFFICES ASSUME IInv, EraseStep PROVE IInv' /\ HomeStep
  OBVIOUS
<1> USE DEF IInv
<1>1. pc = "flow"
  BY DEF EraseStep, Doing
<1>2. flow = "forget" /\ step = 2
  <2>1. flow = "forget"
    BY <1>1, Flows, In_create, In_join, In_recover, In_merge, In_signOut, In_forget,
       In_reset DEF TypeOK, EraseStep
  <2> QED
    BY <1>1, <2>1, In_forget DEF EraseStep
<1>3. /\ step' = 3 /\ UNCHANGED <<pc, app, flow, to, kept>>
  BY <1>1, <1>2, Goes, In_forget DEF EraseStep, Advance
<1>4. at \in Account /\ at \in Slot /\ roster = {}
  BY <1>1, <1>2 DEF Leaves, TypeOK, Slot
<1>5. PutNone(at)
  BY <1>4, NonePut DEF EraseStep
<1>6. DoorGone(at)
  BY <1>4, DoorRemoved DEF EraseStep
<1>7. UNCHANGED <<roster, chain, era, minted, history>>
  BY DEF EraseStep
<1>8. Plain \in Slot /\ \A s \in Slot : store'[s] # None => store'[s] = store[s]
  BY <1>4, <1>5 DEF PutNone, Elsewhere, Slot
<1>9. TypeOK'
  BY <1>1, <1>4, <1>5, <1>6, <1>7, <1>8, Advances, JobTypes
     DEF TypeOK, EraseStep, PutNone, Elsewhere, DoorGone, DoorElsewhere
<1>10. /\ Carried' /\ Settles' /\ Merges'
      /\ ~InRelayHalf' /\ ~InMerge' /\ pc' \in {"flow", "swapped"}
  BY <1>1, <1>2, <1>4, <1>5, <1>6, <1>7, <1>8, LeavingGoes DEF EraseStep
<1>11. Located'
  BY <1>1, <1>2, <1>3, <1>4, <1>5, <1>6, <1>7, <1>8, <1>10
     DEF Located, Ready, Launching, Stop
<1>12. Owing'
  BY <1>1, <1>2, <1>3, <1>4, <1>5, <1>6, <1>7, <1>8, <1>10
     DEF Owing, OwesHere, HasEnclave, RewindOwed, Stop, NotADoor
<1>13. Listed'
  BY <1>1, <1>2, <1>4, <1>5, <1>6, <1>7, <1>8, <1>10
     DEF Listed, Sound, SamePhrase, PhraseOf, InRelayHalf
<1>14. Leaves'
  BY <1>1, <1>2, <1>3, <1>4, <1>5, <1>6, <1>7, <1>8
     DEF Leaves, Stop, OwesHere, HasEnclave
<1>15. HomeStep
  BY <1>1, <1>2, <1>3, <1>4, <1>5, <1>6, <1>7, <1>8, HomeStays, Kinds
     DEF RowsIn, AtHome, Located
<1> QED
  BY <1>9, <1>10, <1>11, <1>12, <1>13, <1>14, <1>15

\* A reset gives up the store first: the roster it leaves is torn.
LEMMA EraseOpenStepKeeps == IInv /\ EraseOpenStep => IInv' /\ HomeStep
<1> SUFFICES ASSUME IInv, EraseOpenStep PROVE IInv' /\ HomeStep
  OBVIOUS
<1> USE DEF IInv
<1>1. pc = "flow"
  BY DEF EraseOpenStep, Doing
<1>2. flow = "reset" /\ step = 1
  <2>1. flow = "reset"
    BY <1>1, Flows, In_create, In_join, In_recover, In_merge, In_signOut, In_forget,
       In_reset DEF TypeOK, EraseOpenStep
  <2> QED
    BY <1>1, <2>1, In_reset DEF EraseOpenStep
<1>3. /\ step' = 2 /\ UNCHANGED <<pc, app, flow, to, kept>>
  BY <1>1, <1>2, Goes, In_reset DEF EraseOpenStep, Advance
<1>4. at \in Slot /\ roster = IF at = Plain THEN {} ELSE {at}
  BY <1>1, <1>2 DEF Leaves, TypeOK
<1>5. PutNone(at)
  BY <1>4, NonePut DEF EraseOpenStep
<1>6. door' \in [Account -> Door]
  BY <1>4, DoorRemoved DEF EraseOpenStep, TypeOK, Slot, DoorGone, DoorElsewhere
<1>7. UNCHANGED <<roster, chain, era, minted, cut>>
  BY DEF EraseOpenStep
<1>8. torn' = (at \in roster)
  BY DEF EraseOpenStep
<1>9. Plain \in Slot /\ \A s \in Slot : store'[s] # None => store'[s] = store[s]
  BY <1>4, <1>5 DEF PutNone, Elsewhere, Slot
<1>10. TypeOK'
  BY <1>1, <1>4, <1>5, <1>6, <1>7, <1>8, <1>9, Advances, JobTypes
     DEF TypeOK, EraseOpenStep, PutNone, Elsewhere
<1>11. /\ Carried' /\ Settles' /\ Merges'
      /\ ~InRelayHalf' /\ ~InMerge' /\ pc' \in {"flow", "swapped"}
  BY <1>1, <1>2, <1>4, <1>5, <1>6, <1>7, <1>8, <1>9, LeavingGoes
     DEF EraseOpenStep
<1>12. Located'
  BY <1>1, <1>2, <1>3, <1>4, <1>5, <1>6, <1>7, <1>8, <1>9, <1>11
     DEF Located, Ready, Launching, Stop, Slot
<1>13. Owing'
  BY <1>1, <1>2, <1>3, <1>4, <1>5, <1>6, <1>7, <1>8, <1>9, <1>11
     DEF Owing, OwesHere, HasEnclave, RewindOwed, Stop, NotADoor, Slot
<1>14. Listed'
  BY <1>1, <1>2, <1>4, <1>5, <1>6, <1>7, <1>8, <1>9, <1>11
     DEF Listed, Sound, SamePhrase, PhraseOf, InRelayHalf
<1>15. Leaves'
  BY <1>1, <1>2, <1>3, <1>4, <1>5, <1>6, <1>7, <1>8, <1>9
     DEF Leaves, Stop, OwesHere, HasEnclave, PutNone
<1>16. HomeStep
  BY <1>1, <1>2, <1>3, <1>4, <1>5, <1>6, <1>7, <1>8, <1>9, HomeErases, Kinds
     DEF RowsIn, AtHome, PutNone
<1> QED
  BY <1>10, <1>11, <1>12, <1>13, <1>14, <1>15, <1>16

\* A new keystore opens nothing, and no store is bound to it.
LEMMA EraseKeysStepKeeps == IInv /\ EraseKeysStep => IInv' /\ HomeStep
<1> SUFFICES ASSUME IInv, EraseKeysStep PROVE IInv' /\ HomeStep
  OBVIOUS
<1> USE DEF IInv
<1>1. pc = "flow"
  BY DEF EraseKeysStep, Doing
<1>2. flow = "reset" /\ step = 2
  <2>1. flow = "reset"
    BY <1>1, Flows, In_create, In_join, In_recover, In_merge, In_signOut, In_forget,
       In_reset DEF TypeOK, EraseKeysStep
  <2> QED
    BY <1>1, <2>1, In_reset DEF EraseKeysStep
<1>3. /\ step' = 3 /\ UNCHANGED <<pc, app, flow, to, kept>>
  BY <1>1, <1>2, Goes, In_reset DEF EraseKeysStep, Advance
<1>4. chain' \in Chain /\ chain'.db = None /\ chain'.rec = None
  BY DEF EraseKeysStep, NoKeys, Chain, KeyOrNone
<1>5. era' = era + 1 /\ era' \in 0..MaxEra
  BY Kinds DEF EraseKeysStep, TypeOK
<1>6. UNCHANGED <<roster, store, door, minted, history>>
  BY DEF EraseKeysStep
<1>7. \A s \in Slot :
          /\ ~OwesHere(s)'
          /\ store[s] # None /\ store[s].enclave # None => store[s].enclave.era <= era'
  BY <1>5, <1>6, StoreFields DEF Owing, OwesHere, HasEnclave, TypeOK
<1>8. at \in Slot /\ roster = IF at = Plain THEN {} ELSE {at}
  BY <1>1, <1>2 DEF Leaves, TypeOK
<1>9. TypeOK'
  BY <1>1, <1>4, <1>5, <1>6, <1>7, <1>8, Advances, JobTypes
     DEF TypeOK, EraseKeysStep
<1>10. /\ Carried' /\ Settles' /\ Merges'
      /\ ~InRelayHalf' /\ ~InMerge' /\ pc' \in {"flow", "swapped"}
  BY <1>1, <1>2, <1>4, <1>5, <1>6, <1>7, <1>8, LeavingGoes DEF EraseKeysStep
<1>11. Located'
  BY <1>1, <1>2, <1>3, <1>4, <1>5, <1>6, <1>7, <1>8, <1>10
     DEF Located, Ready, Launching, Stop
<1>12. Owing'
  BY <1>1, <1>2, <1>3, <1>4, <1>5, <1>6, <1>7, <1>8, <1>10
     DEF Owing, OwesHere, HasEnclave, RewindOwed, Stop, NotADoor, TypeOK, Slot
<1>13. Listed'
  BY <1>1, <1>2, <1>4, <1>5, <1>6, <1>7, <1>8, <1>10
     DEF Listed, Sound, SamePhrase, PhraseOf, InRelayHalf
<1>14. Leaves'
  BY <1>1, <1>2, <1>3, <1>4, <1>5, <1>6, <1>7, <1>8
     DEF Leaves, Stop, OwesHere, HasEnclave
<1>15. HomeStep
  BY <1>1, <1>2, <1>3, <1>4, <1>5, <1>6, <1>7, <1>8, HomeStays, Kinds
     DEF RowsIn, AtHome
<1> QED
  BY <1>9, <1>10, <1>11, <1>12, <1>13, <1>14, <1>15

\* Any other store may go: none is a listed account's that opens.
LEMMA EraseAllStepKeeps == IInv /\ EraseAllStep => IInv' /\ HomeStep
<1> SUFFICES ASSUME IInv, EraseAllStep PROVE IInv' /\ HomeStep
  OBVIOUS
<1> USE DEF IInv
<1>1. pc = "flow"
  BY DEF EraseAllStep, Doing
<1>2. flow = "reset" /\ step = 3
  <2>1. flow = "reset"
    BY <1>1, Flows, In_create, In_join, In_recover, In_merge, In_signOut, In_forget,
       In_reset DEF TypeOK, EraseAllStep
  <2> QED
    BY <1>1, <2>1, In_reset DEF EraseAllStep
<1>3. /\ step' = 4 /\ UNCHANGED <<pc, app, flow, to, kept>>
  BY <1>1, <1>2, Goes, In_reset DEF EraseAllStep, Advance
<1>4. store' \in [Slot -> Store \cup {None}] /\ \A s \in Slot : store'[s] = None
  BY DEF EraseAllStep
<1>5. door' \in [Account -> Door]
  BY DEF EraseAllStep, Door, NoDoor, KeyOrNone
<1>6. UNCHANGED <<roster, chain, era, minted, history>>
  BY DEF EraseAllStep
<1>7. at \in Slot /\ roster = IF at = Plain THEN {} ELSE {at}
  BY <1>1, <1>2 DEF Leaves, TypeOK
<1>8. roster # {} => torn
  BY <1>1, <1>2, <1>7 DEF Leaves, Listed, Sound
<1>9. TypeOK'
  BY <1>1, <1>4, <1>5, <1>6, <1>7, <1>8, Advances, JobTypes
     DEF TypeOK, EraseAllStep
<1>10. /\ Carried' /\ Settles' /\ Merges'
      /\ ~InRelayHalf' /\ ~InMerge' /\ pc' \in {"flow", "swapped"}
  BY <1>1, <1>2, <1>4, <1>5, <1>6, <1>7, <1>8, LeavingGoes DEF EraseAllStep
<1>11. Located'
  BY <1>1, <1>2, <1>3, <1>4, <1>5, <1>6, <1>7, <1>8, <1>10
     DEF Located, Ready, Launching, Stop, Slot
<1>12. Owing'
  BY <1>1, <1>2, <1>3, <1>4, <1>5, <1>6, <1>7, <1>8, <1>10
     DEF Owing, OwesHere, HasEnclave, RewindOwed, Stop, NotADoor, TypeOK, Slot
<1>13. Listed'
  BY <1>1, <1>2, <1>4, <1>5, <1>6, <1>7, <1>8, <1>10
     DEF Listed, Sound, SamePhrase, PhraseOf, InRelayHalf
<1>14. Leaves'
  BY <1>1, <1>2, <1>3, <1>4, <1>5, <1>6, <1>7, <1>8
     DEF Leaves, Stop, OwesHere, HasEnclave
<1>15. HomeStep
  BY <1>1, <1>2, <1>3, <1>4, <1>5, <1>6, <1>7, <1>8, HomeErases, Kinds
     DEF RowsIn, AtHome
<1> QED
  BY <1>9, <1>10, <1>11, <1>12, <1>13, <1>14, <1>15

\* No row is left when the roster goes.
LEMMA UnlistAllStepKeeps == IInv /\ UnlistAllStep => IInv' /\ HomeStep
<1> SUFFICES ASSUME IInv, UnlistAllStep PROVE IInv' /\ HomeStep
  OBVIOUS
<1> USE DEF IInv
<1>1. pc = "flow"
  BY DEF UnlistAllStep, Doing
<1>2. flow = "reset" /\ step = 4
  <2>1. flow = "reset"
    BY <1>1, Flows, In_create, In_join, In_recover, In_merge, In_signOut, In_forget,
       In_reset DEF TypeOK, UnlistAllStep
  <2> QED
    BY <1>1, <2>1, In_reset DEF UnlistAllStep
<1>3. /\ Stop("swapped")
  BY <1>1, <1>2, Goes, In_reset DEF UnlistAllStep, Advance
<1>4. roster' = {} /\ torn' = FALSE /\ cut' = {}
  BY DEF UnlistAllStep
<1>5. UNCHANGED <<store, door, chain, era, minted>>
  BY DEF UnlistAllStep
<1>6. TypeOK'
  BY <1>1, <1>4, <1>5, Advances, JobTypes DEF TypeOK, UnlistAllStep
<1>7. /\ Carried' /\ Settles' /\ Merges'
      /\ ~InRelayHalf' /\ ~InMerge' /\ pc' \in {"flow", "swapped"}
  BY <1>1, <1>2, <1>4, <1>5, LeavingGoes DEF UnlistAllStep
<1>8. Located'
  BY <1>1, <1>2, <1>3, <1>4, <1>5, <1>7 DEF Located, Ready, Launching, Stop
<1>9. Owing'
  BY <1>1, <1>2, <1>3, <1>4, <1>5, <1>7
     DEF Owing, OwesHere, HasEnclave, RewindOwed, Stop, NotADoor
<1>10. Listed'
  BY <1>1, <1>2, <1>4, <1>5, <1>7
     DEF Listed, Sound, SamePhrase, PhraseOf, InRelayHalf
<1>11. Leaves'
  BY <1>1, <1>2, <1>3, <1>4, <1>5 DEF Leaves, Stop, OwesHere, HasEnclave
<1>12. HomeStep
  BY <1>1, <1>2, <1>3, <1>4, <1>5, HomeErases, Kinds
     DEF RowsIn, AtHome, Located, Leaves
<1> QED
  BY <1>6, <1>7, <1>8, <1>9, <1>10, <1>11, <1>12

-----------------------------------------------------------------------------
(* What fails, and the user. *)

\* A step that throws before the store was closed leaves everything as it was.
LEMMA FailsOpen == ASSUME IInv, FlowFails, Coming("drop") PROVE IInv' /\ HomeStep
<1> USE DEF IInv
<1>1. pc = "flow"
  BY DEF FlowFails
<1>2. flow \in Flow
  BY <1>1 DEF TypeOK
<1>3. Settler /\ step \in 1..6
  <2>1. flow \notin {"merge", "signOut", "forget", "reset"}
    BY <1>1, In_merge, In_signOut, In_forget, In_reset
  <2>2. Settler
    BY <1>2, <2>1, Flows DEF Settler
  <2> QED
    BY <1>1, <2>2, InSettler
<1>4. /\ at = Plain /\ roster = {} /\ store[Plain] # None /\ flow # "merge"
  BY <1>1, <1>3 DEF Settles, Settler
<1>5. ~Doing("fill")
  BY <1>1, <1>3, InSettler
<1>6. /\ UNCHANGED <<roster, store, door, chain, era, minted, history, at, through,
                     session, kept>>
      /\ pc' = "open" /\ flow' = "none" /\ step' = 0 /\ to' = None
  BY <1>4, <1>5 DEF FlowFails, Undo
<1>7. TypeOK'
  <2>1. pc' \in Phase
    BY <1>6 DEF Phase
  <2> QED
    BY <1>6, <2>1 DEF TypeOK
<1>8. Located'
  BY <1>4, <1>6 DEF Located, Ready, Launching
<1>9. Owing'
  BY <1>4, <1>6 DEF Owing, OwesHere, HasEnclave, RewindOwed
<1>10. Listed' /\ Carried' /\ Settles' /\ Merges' /\ Leaves'
  BY <1>4, <1>6 DEF Listed, Carried, Settles, Merges, Leaves
<1>11. HomeStep
  BY <1>3, <1>6, HomeStays DEF RowsIn, AtHome, Settler
<1> QED
  BY <1>7, <1>8, <1>9, <1>10, <1>11

\* One that throws later does away with the copy it was making, at most.
Undone ==
    \/ store' = store /\ door' = door
    \/ to \in Account /\ PutNone(to) /\ DoorGone(to) /\ to \notin roster

\* After the store was closed, its account opens as it did; a merge that fails
\* before the roster puts the phrase back, one that fails there is cut.
LEMMA FailsClosed == ASSUME IInv, FlowFails, ~Coming("drop") PROVE IInv' /\ HomeStep
<1> USE DEF IInv
<1>1. pc = "flow" /\ flow \in Flow
  BY DEF FlowFails, TypeOK
<1>2. /\ Stop("swapped") /\ UNCHANGED <<roster, era, minted, torn>>
      /\ cut' = IF flow = "merge" /\ Doing("roster") THEN cut \cup {at} ELSE cut
  BY DEF FlowFails
<1>3. pc' = "swapped" /\ at' = Plain /\ flow' = "none" /\ through' = NotADoor
      /\ session' = None
  BY <1>2 DEF Stop
<1>4. Undone /\ chain' \in Chain /\ chain'.db = chain.db
  <2>1. CASE Settler
    <3>1. step \in 7..11
      BY <1>1, <2>1, InSettler DEF FlowFails
    <3>2. to \in Account /\ roster = {} /\ flow # "merge"
      BY <1>1, <2>1, <3>1 DEF Settles, Settler
    <3> QED
      BY <3>2, NonePut, DoorRemoved DEF FlowFails, Undo, Undone, TypeOK, Slot
  <2>2. CASE flow = "merge"
    <3>1. step \in 1..11 /\ (Doing("fill") <=> step = 3)
          /\ (Coming("roster") <=> step < 11)
          /\ (Coming("clear") <=> step < 4)
      BY <1>1, <2>2, In_merge DEF FlowFails
    <3>2. to \in Account /\ roster = {at} /\ at # to
      BY <1>1, <2>2, <3>1 DEF Merges, Account
    <3>3. step \in 4..10 => kept.db = chain.db
      BY <1>1, <2>2 DEF Merges, InMerge
    <3>4. chain' \in Chain /\ chain'.db = chain.db
      BY <2>2, <3>1, <3>3 DEF FlowFails, Undo, TypeOK
    <3> QED
      BY <3>2, <3>4, NonePut, DoorRemoved DEF FlowFails, Undo, Undone, Slot
  <2>3. CASE flow \in {"signOut", "forget", "reset"}
    <3>1. ~Doing("fill") /\ flow # "merge"
      BY <1>1, <2>3, In_signOut, In_forget, In_reset
    <3> QED
      BY <3>1 DEF FlowFails, Undo, Undone, TypeOK
  <2> QED
    BY <1>1, <2>1, <2>2, <2>3, Flows DEF Settler
<1>5. \A a \in roster : a \in Slot /\ store'[a] = store[a] /\ door'[a] = door[a]
  BY <1>4 DEF Undone, PutNone, Elsewhere, DoorGone, DoorElsewhere, TypeOK, Slot
<1>6. /\ \A s \in Slot : store'[s] # None => store'[s] = store[s]
      /\ Plain \in Slot
  BY <1>4 DEF Undone, PutNone, Elsewhere, Slot
<1>7. TypeOK'
  <2>1. JobTyped
    BY <1>2, Stops DEF Phase
  <2>2. cut' \subseteq Account
    <3>1. flow = "merge" => at \in Account
      BY <1>1 DEF Merges
    <3> QED
      BY <1>2, <3>1 DEF TypeOK
  <2>3. store' \in [Slot -> Store \cup {None}] /\ door' \in [Account -> Door]
    BY <1>4 DEF Undone, PutNone, Elsewhere, DoorGone, DoorElsewhere, TypeOK
  <2> QED
    BY <1>2, <1>4, <2>1, <2>2, <2>3, JobTypes DEF TypeOK
<1>8. Located' /\ Carried' /\ Settles' /\ Merges' /\ Leaves'
  BY <1>2, Stopped
<1>9. Owing'
  BY <1>2, <1>3, <1>4, <1>5, <1>6 DEF Owing, OwesHere, HasEnclave, RewindOwed
<1>10. ASSUME ~torn, NEW a \in roster, a \notin cut'
       PROVE  a \notin cut /\ chain'.rec \in {None, PhraseOf(a)}
  <2>1. a \notin cut /\ SamePhrase(a)
    BY <1>2, <1>10 DEF Listed
  <2>2. CASE flow = "merge"
    <3>1. /\ step \in 1..11 /\ (Doing("fill") <=> step = 3)
          /\ (Coming("roster") <=> step < 11)
          /\ (Coming("clear") <=> step < 4) /\ (Doing("roster") <=> step = 11)
      BY <1>1, <2>2, In_merge DEF FlowFails
    <3>2. roster = {at}
      BY <1>1, <2>2, <3>1 DEF Merges
    <3>3. CASE step \in 1..3
      BY <1>1, <2>1, <2>2, <3>1, <3>3 DEF FlowFails, Undo, SamePhrase, InRelayHalf
    <3>4. CASE step \in 4..10
      <4>1. chain' = kept
        BY <2>2, <3>1, <3>4 DEF FlowFails, Undo
      <4> QED
        BY <1>1, <2>1, <2>2, <3>4, <4>1 DEF SamePhrase, InMerge
    <3>5. CASE step = 11
      BY <1>2, <1>10, <2>2, <3>1, <3>2, <3>5
    <3> QED
      BY <3>1, <3>3, <3>4, <3>5
  <2>3. CASE flow # "merge"
    BY <2>1, <2>3 DEF FlowFails, Undo, SamePhrase, InRelayHalf
  <2> QED
    BY <2>1, <2>2, <2>3
<1>11. Listed'
  BY <1>2, <1>3, <1>4, <1>5, <1>10
     DEF Listed, Sound, SamePhrase, PhraseOf, InMerge, InRelayHalf
<1>12. HomeStep
  <2>1. \A s \in Slot : AtHome(s) => RowsIn(s)' = RowsIn(s)
    BY <1>4, <1>5, <1>6, Kinds DEF RowsIn, AtHome, Undone, PutNone, Elsewhere
  <2> QED
    BY <1>2, <1>3, <2>1, HomeStays, HomeLeaves
<1> QED
  BY <1>7, <1>8, <1>9, <1>11, <1>12

LEMMA FlowFailsKeeps == IInv /\ FlowFails => IInv' /\ HomeStep
BY FailsOpen, FailsClosed

\* A row more changes nothing that is promised.
LEMMA WriteKeeps == IInv /\ Write => IInv' /\ HomeStep
<1> SUFFICES ASSUME IInv, Write PROVE IInv' /\ HomeStep
  OBVIOUS
<1> USE DEF IInv
<1>1. \/ pc = "open"
      \/ pc = "flow" /\ Settler /\ step \in 1..7
      \/ pc = "flow" /\ flow = "merge" /\ step = 1
  <2>1. CASE pc = "flow"
    <3>1. Doing("drop") \/ Coming("drop")
      BY <2>1 DEF Write
    <3>2. Settler \/ flow = "merge"
      BY <2>1, <3>1, Flows, In_signOut, In_forget, In_reset DEF Settler, TypeOK
    <3> QED
      BY <2>1, <3>1, <3>2, InSettler, In_merge
  <2> QED
    BY <2>1 DEF Write
<1>2. at \in Slot /\ store[at] # None
  BY <1>1 DEF TypeOK, Located, Settles, Merges
<1>3. PutRows(at, store[at].rows + 1)
  <2>1. store[at].rows \in 0..MaxRows
    BY <1>2, StoreFields DEF TypeOK
  <2>2. store[at].rows < MaxRows
    BY <1>2 DEF Write
  <2>3. store[at].rows + 1 \in 0..MaxRows
    BY <2>1, <2>2, Kinds
  <2> QED
    BY <1>2, <2>3, RowsPut DEF Write
<1>4. UNCHANGED <<roster, door, chain, era, minted, pc, app, job, history>>
  BY DEF Write
<1>5. TypeOK'
  BY <1>3, <1>4 DEF TypeOK, PutRows, Elsewhere
<1>6. Located'
  BY <1>2, <1>3, <1>4 DEF Located, Ready, Launching, PutRows, Elsewhere, TypeOK, Slot
<1>7. Owing'
  BY <1>1, <1>2, <1>3, <1>4
     DEF Owing, OwesHere, HasEnclave, RewindOwed, PutRows, Elsewhere, TypeOK, Slot
<1>8. Listed'
  BY <1>2, <1>3, <1>4
     DEF Listed, Sound, SamePhrase, PhraseOf, InMerge, InRelayHalf, PutRows, Elsewhere,
         TypeOK, Slot
<1>9. Carried'
  BY <1>4 DEF Carried
<1>10. Settles' /\ Merges' /\ Leaves'
  <2>1. CASE pc = "open"
    BY <1>4, <2>1 DEF Settles, Merges, Leaves
  <2>2. CASE pc = "flow" /\ Settler /\ step \in 1..7
    <3>1. at = Plain /\ to \in Account /\ to # Plain
      BY <2>2, Kinds DEF Settles
    <3>2. Settles'
      BY <1>3, <1>4, <2>2, <3>1
         DEF Settles, Settler, Created, Joined, Recovered, Adopted, Whole, PutRows
    <3> QED
      BY <1>4, <2>2, <3>2 DEF Settler, Merges, Leaves
  <2>3. CASE pc = "flow" /\ flow = "merge" /\ step = 1
    BY <1>3, <1>4, <2>3 DEF Settles, Settler, Merges, Copied, InMerge, Leaves, PutRows
  <2> QED
    BY <1>1, <2>1, <2>2, <2>3
<1>11. HomeStep
  <2>1. AtHome(at)
    BY <1>1, <1>2, Kinds DEF AtHome, Located, Settles, Settler, Merges, TypeOK, Slot
  <2>2. \A s \in Slot : AtHome(s) => s = at
    BY <2>1, Kinds DEF AtHome
  <2> QED
    BY <1>2, <1>3, <1>4, <2>2, HomeWritten DEF RowsIn, PutRows
<1> QED
  BY <1>5, <1>6, <1>7, <1>8, <1>9, <1>10, <1>11

\* Nor does its relay.
LEMMA BindKeeps == IInv /\ Bind => IInv' /\ HomeStep
<1> SUFFICES ASSUME IInv, Bind PROVE IInv' /\ HomeStep
  OBVIOUS
<1> USE DEF IInv
<1>1. at \in Account /\ at \in Slot /\ store[at] # None /\ pc = "open"
  BY Kinds DEF Bind, Located, TypeOK, Slot
<1>2. PutRelay(at, TRUE)
  BY <1>1, RelayPut DEF Bind
<1>3. UNCHANGED <<roster, door, chain, era, minted, pc, app, job, history>>
  BY DEF Bind
<1>4. TypeOK'
  BY <1>2, <1>3 DEF TypeOK, PutRelay, Elsewhere
<1>5. Located'
  BY <1>1, <1>2, <1>3 DEF Located, Ready, Launching, PutRelay, Elsewhere, TypeOK, Slot
<1>6. Owing'
  BY <1>1, <1>2, <1>3
     DEF Owing, OwesHere, HasEnclave, RewindOwed, PutRelay, Elsewhere, TypeOK, Slot
<1>7. Listed'
  BY <1>1, <1>2, <1>3
     DEF Listed, Sound, SamePhrase, PhraseOf, InMerge, InRelayHalf, PutRelay, Elsewhere,
         TypeOK, Slot
<1>8. Carried' /\ Settles' /\ Merges' /\ Leaves'
  BY <1>1, <1>3 DEF Carried, Settles, Merges, Leaves
<1>9. HomeStep
  BY <1>1, <1>2, <1>3, HomeStays DEF RowsIn, PutRelay, Elsewhere
<1> QED
  BY <1>4, <1>5, <1>6, <1>7, <1>8, <1>9

\* A crash leaves what is on the disk; a merge that it cuts short is cut.
LEMMA CrashKeeps == IInv /\ Crash => IInv' /\ HomeStep
<1> SUFFICES ASSUME IInv, Crash PROVE IInv' /\ HomeStep
  OBVIOUS
<1> USE DEF IInv
<1>1. /\ Stop("off") /\ UNCHANGED <<roster, store, door, chain, era, minted, torn>>
      /\ cut' = IF flow = "merge" /\ at \in roster THEN cut \cup {at} ELSE cut
  BY DEF Crash
<1>2. pc' = "off" /\ at' = Plain /\ flow' = "none" /\ through' = NotADoor
  BY <1>1 DEF Stop
<1>3. TypeOK'
  <2>1. JobTyped
    BY <1>1, Stops DEF Phase
  <2>2. cut' \subseteq Account
    BY <1>1 DEF TypeOK
  <2> QED
    BY <1>1, <2>1, <2>2, JobTypes DEF TypeOK
<1>4. Located' /\ Carried' /\ Settles' /\ Merges' /\ Leaves'
  BY <1>1, Stopped
<1>5. Owing'
  BY <1>1, <1>2 DEF Owing, OwesHere, HasEnclave, RewindOwed
<1>6. InRelayHalf => roster = {at}
  BY DEF InRelayHalf, Merges
<1>7. Listed'
  BY <1>1, <1>2, <1>6
     DEF Listed, Sound, SamePhrase, PhraseOf, InMerge, InRelayHalf
<1>8. HomeStep
  BY <1>1, <1>2, HomeStays, HomeLeaves DEF RowsIn
<1> QED
  BY <1>3, <1>4, <1>5, <1>7, <1>8

\* A new keystore opens nothing, and no store is bound to it.
LEMMA KeychainLostKeeps == IInv /\ KeychainLost => IInv' /\ HomeStep
<1> SUFFICES ASSUME IInv, KeychainLost PROVE IInv' /\ HomeStep
  OBVIOUS
<1> USE DEF IInv
<1>1. /\ pc = "off" /\ UNCHANGED <<roster, store, door, minted, pc, app, job, history>>
  BY DEF KeychainLost
<1>2. chain' \in Chain /\ chain'.db = None /\ chain'.rec = None
  BY DEF KeychainLost, NoKeys, Chain, KeyOrNone
<1>3. era' = era + 1 /\ era' \in 0..MaxEra
  BY Kinds DEF KeychainLost, TypeOK
<1>4. \A s \in Slot :
          /\ ~OwesHere(s)'
          /\ store[s] # None /\ store[s].enclave # None => store[s].enclave.era <= era'
  BY <1>1, <1>3, StoreFields DEF Owing, OwesHere, HasEnclave, TypeOK
<1>5. TypeOK'
  BY <1>1, <1>2, <1>3 DEF TypeOK
<1>6. Located'
  BY <1>1 DEF Located, Ready, Launching
<1>7. Owing'
  <2>1. RewindOwed' /\ (store'[Plain] # None => ~store'[Plain].owed)
    BY <1>1 DEF Owing, RewindOwed
  <2>2. \A a \in roster' : ~OwesHere(a)'
    BY <1>1, <1>4 DEF TypeOK, Slot
  <2>3. \A s \in Slot : store'[s] # None /\ store'[s].enclave # None =>
            store'[s].enclave.era <= era'
    BY <1>1, <1>4
  <2> QED
    BY <1>1, <2>1, <2>2, <2>3 DEF Owing
<1>8. Listed'
  BY <1>1, <1>2 DEF Listed, Sound, SamePhrase, PhraseOf, InMerge, InRelayHalf
<1>9. Carried' /\ Settles' /\ Merges' /\ Leaves'
  BY <1>1 DEF Carried, Settles, Merges, Leaves
<1>10. HomeStep
  BY <1>1, HomeStays DEF RowsIn
<1> QED
  BY <1>5, <1>6, <1>7, <1>8, <1>9, <1>10

\* Nothing happens.
LEMMA Stutters == IInv /\ UNCHANGED vars => IInv' /\ HomeStep
<1> SUFFICES ASSUME IInv, UNCHANGED vars PROVE IInv' /\ HomeStep
  OBVIOUS
<1> USE DEF IInv, vars
<1>1. TypeOK' /\ Located' /\ Carried'
  BY DEF TypeOK, Located, Ready, Launching, Carried
<1>2. Owing'
  BY DEF Owing, OwesHere, HasEnclave, RewindOwed
<1>3. Listed'
  BY DEF Listed, Sound, SamePhrase, PhraseOf, InMerge, InRelayHalf
<1>4. Settles'
  BY DEF Settles, Settler, Created, Joined, Recovered, Adopted, Whole
<1>5. Merges' /\ Leaves'
  BY DEF Merges, Copied, InMerge, Leaves, OwesHere, HasEnclave
<1>6. HomeStep
  BY HomeStays DEF RowsIn
<1> QED
  BY <1>1, <1>2, <1>3, <1>4, <1>5, <1>6

\* A new device has no account and no rows.
LEMMA Begun == Init => IInv
<1> SUFFICES ASSUME Init PROVE IInv
  OBVIOUS
<1>1. TypeOK
  <2>1. store \in [Slot -> Store \cup {None}] /\ roster \subseteq Account
    BY DEF Init
  <2>2. door \in [Account -> Door]
    BY DEF Init, NoDoor, Door, KeyOrNone
  <2>3. chain \in Chain /\ kept \in Chain
    BY DEF Init, Chain, NoKeys, KeyOrNone
  <2>4. era \in 0..MaxEra /\ minted \in 0..MaxKeys
    BY Kinds DEF Init
  <2>5. pc \in Phase /\ at \in Slot
    BY DEF Init, Phase, Slot
  <2>6. through \in [by : {"none", "password", "recovery"}, key : KeyOrNone]
    BY DEF Init, NotADoor, KeyOrNone
  <2>7. session \in KeyOrNone /\ to \in Account \cup {None}
    BY DEF Init, KeyOrNone
  <2>8. /\ flow \in Flow \cup {"none"} /\ pc # "flow" /\ flow = "none" /\ step = 0
        /\ torn \in BOOLEAN /\ cut \subseteq Account
    BY DEF Init
  <2> QED
    BY <2>1, <2>2, <2>3, <2>4, <2>5, <2>6, <2>7, <2>8 DEF TypeOK
<1>2. Plain \in Slot /\ (\A s \in Slot : store[s] = None) /\ roster = {}
      /\ pc = "off" /\ at = Plain
  BY DEF Init, Slot
<1>3. Located /\ Listed /\ Carried /\ Settles /\ Merges /\ Leaves
  BY <1>2 DEF Located, Ready, Launching, Listed, Carried, Settles, Merges, Leaves
<1>4. Owing
  BY <1>2 DEF Owing, OwesHere, HasEnclave, RewindOwed
<1> QED
  BY <1>1, <1>3, <1>4 DEF IInv

-----------------------------------------------------------------------------
(* The invariants, for any number of accounts, keys, rows and keystores.     *)

\* Every step keeps the invariant, and AccountHome's promise.
LEMMA NextKeeps == IInv /\ [Next]_vars => IInv' /\ HomeStep
<1> SUFFICES ASSUME IInv, [Next]_vars PROVE IInv' /\ HomeStep
  OBVIOUS
<1>1. CASE Launch
  BY <1>1, LaunchPlainKeeps, LaunchAccountKeeps, UnlockByPasswordKeeps,
     UnlockByPhraseKeeps, OpenWithKeyKeeps, ResealKeeps, FlagRepairKeeps,
     ResumeRepairKeeps, AdoptKeeps, RewindKeeps, ClearRepairKeeps, EnsureSessionKeeps
     DEF Launch
<1>2. CASE Settling
  BY <1>2, BeginCreateKeeps, BeginJoinKeeps, BeginRecoverKeeps, BeginMergeKeeps,
     MasterStepKeeps, PhraseStepKeeps, AccountStepKeeps, EnclaveStepKeeps,
     PasswordStepKeeps, EscrowStepKeeps, DbKeyStepKeeps, DropStepKeeps, CopyStepKeeps,
     FillStepKeeps, ClearStepKeeps, DoorStepKeeps, RosterStepKeeps, RemoveStepKeeps
     DEF Settling
<1>3. CASE Leaving
  BY <1>3, BeginSignOutKeeps, BeginForgetKeeps, BeginResetKeeps, LockStepKeeps,
     LockPhraseStepKeeps, UnlistStepKeeps, EraseStepKeeps, EraseOpenStepKeeps,
     EraseKeysStepKeeps, EraseAllStepKeeps, UnlistAllStepKeeps
     DEF Leaving
<1>4. CASE FlowFails \/ Write \/ Bind \/ Crash \/ KeychainLost
  BY <1>4, FlowFailsKeeps, WriteKeeps, BindKeeps, CrashKeeps, KeychainLostKeeps
<1> QED
  BY <1>1, <1>2, <1>3, <1>4, Stutters DEF Next

\* The invariant the others follow from.
THEOREM LifecycleInductive == Spec => []IInv
<1>1. Init => IInv
  BY Begun
<1>2. IInv /\ [Next]_vars => IInv'
  BY NextKeeps
<1> QED
  BY <1>1, <1>2, PTL DEF Spec

\* Every variable stays in its domain.
THEOREM LifecycleTypeCorrect == Spec => []TypeOK
<1>1. IInv => TypeOK
  BY DEF IInv
<1> QED
  BY <1>1, LifecycleInductive, PTL

\* Whatever step of whatever flow is cut short or fails, the account the roster
\* names opens: with its password, and with the keychain's key if there is one.
THEOREM ListedAccountOpens == Spec => []AuthenticatedOpens
<1>1. IInv => AuthenticatedOpens
  BY DEF IInv, Listed, Sound, AuthenticatedOpens
<1> QED
  BY <1>1, LifecycleInductive, PTL

\* Its password, its phrase and its keystore give up the same master key, the
\* relay's if it has one, and the open session works with that one.
THEOREM AccountHasOneMasterKey == Spec => []OneMasterKey
<1>1. IInv => OneMasterKey
  BY DEF IInv, Listed, Sound, OneMasterKey
<1> QED
  BY <1>1, LifecycleInductive, PTL

\* The phrase in the keychain, the one that opens the file and the one that
\* opens the account are one phrase, but for an account whose merge was cut
\* short.
THEOREM OnePhrase == Spec => []PhraseHolds
<1>1. IInv => PhraseHolds
  BY DEF IInv, Listed, Sound, SamePhrase, PhraseOf, InRelayHalf, PhraseHolds
<1> QED
  BY <1>1, LifecycleInductive, PTL

\* No crash between a repair and its rewind loses the rewind.
THEOREM RepairRewinds == Spec => []RewindOwed
<1>1. IInv => RewindOwed
  BY DEF IInv, Owing
<1> QED
  BY <1>1, LifecycleInductive, PTL

\* The rows have one home, change it whole, and are given up only by a user who
\* leaves.
THEOREM LifecycleKeepsHome == Spec => HomeKept
<1>1. Init => AbstractHome!Init
  BY HomeIs DEF Init, AbstractHome!Init, AtHome, Slot
<1>2. IInv /\ [Next]_vars => [AbstractHome!Next]_<<Home, RowsIn(HomeSlot), Gone>>
  BY NextKeeps DEF HomeStep
<1> QED
  BY <1>1, <1>2, LifecycleInductive, PTL
     DEF Spec, HomeKept, AbstractHome!Spec, RowsIn, Gone
===============================================================================

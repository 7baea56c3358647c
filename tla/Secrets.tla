------------------------------- MODULE Secrets -------------------------------
(***************************************************************************)
(* SecretKeyCryptography: a key made of a login (salt and password), which *)
(* several threads make, use and compare, and the keys of the server in    *)
(* CryptoConfig it needs.                                                  *)
(*                                                                         *)
(* createKey reads the keys of the server before it takes the lock for     *)
(* writing, makes the key in place and then its hash; pwhash fails when    *)
(* there is not enough memory.  The other methods take the lock for        *)
(* reading, and isTheSame asks the other object for its hash while it      *)
(* holds the own lock.  std::shared_mutex lets a reader in whenever nobody *)
(* writes.  A key is abstracted to the login it was made of.               *)
(***************************************************************************)
EXTENDS Integers

CONSTANTS
    Threads, Objects, Logins,
    NoLogin,       \* no login, key or thread
    ServerKeys,    \* what crypto.server_key may be set to: "good", "wrong" (size)
    MaxCalls       \* bound: the calls of a thread

LoginAssumption == NoLogin \notin Threads /\ NoLogin \notin Logins

VARIABLES
    config,             \* g_CryptoAppSecret and g_ServerCryptoKey
    readers, writer,    \* mWorkingMutex of each object
    mEncryptionKey, mEncryptionKeyHash,
    asked,              \* the login of the last createKey of each object
    thread, calls       \* the call of each thread, and how many it has made

secretsVars == <<config, readers, writer, mEncryptionKey, mEncryptionKeyHash, asked, thread, calls>>
mutex == <<readers, writer>>
keyVars == <<mEncryptionKey, mEncryptionKeyHash, asked>>

Idle == [pc |-> "idle"]
Missing == [app |-> FALSE, server |-> NoLogin]

SecretsInit ==
    /\ config = Missing
    /\ readers = [o \in Objects |-> {}] /\ writer = [o \in Objects |-> NoLogin]
    /\ mEncryptionKey = [o \in Objects |-> NoLogin]
    /\ mEncryptionKeyHash = [o \in Objects |-> NoLogin]
    /\ asked = [o \in Objects |-> NoLogin]
    /\ thread = [t \in Threads |-> Idle] /\ calls = [t \in Threads |-> 0]

Goto(t, call) == thread' = [thread EXCEPT ![t] = call]

Call(t) == thread[t] = Idle /\ calls[t] < MaxCalls /\ calls' = [calls EXCEPT ![t] = @ + 1]

-----------------------------------------------------------------------------
(* CryptoConfig *)

\* loadCryptoKeys: what the configuration does not name keeps its value; a server
\* key of the wrong size stays although the call throws.
LoadCryptoKeys(app, server) ==
    /\ config' = [app |-> config.app \/ app, server |-> IF server = NoLogin THEN config.server ELSE server]
    /\ UNCHANGED <<mutex, keyVars, thread, calls>>

Unload ==
    /\ config' = Missing
    /\ UNCHANGED <<mutex, keyVars, thread, calls>>

-----------------------------------------------------------------------------
(* createKey *)

\* The keys of the server are read, and missed, before anything changes.
CreateKey(t, o, login) ==
    /\ Call(t)
    /\ IF ~config.app \/ config.server = NoLogin
         THEN Goto(t, Idle)
         ELSE Goto(t, [pc |-> "lock", o |-> o, login |-> login, server |-> config.server])
    /\ UNCHANGED <<config, mutex, keyVars>>

LockUnique(t) ==
    LET o == thread[t].o
    IN  /\ thread[t].pc = "lock" /\ writer[o] = NoLogin /\ readers[o] = {}
        /\ writer' = [writer EXCEPT ![o] = t]
        /\ Goto(t, [thread[t] EXCEPT !.pc = "pwhash"])
        /\ UNCHANGED <<config, readers, keyVars, calls>>

Pwhash(t) ==
    LET o == thread[t].o
    IN  /\ thread[t].pc = "pwhash"
        /\ mEncryptionKey' = [mEncryptionKey EXCEPT ![o] = thread[t].login]
        /\ asked' = [asked EXCEPT ![o] = thread[t].login]
        /\ Goto(t, [thread[t] EXCEPT !.pc = "hash"])
        /\ UNCHANGED <<config, mutex, mEncryptionKeyHash, calls>>

\* Not enough memory: the key is reset, its hash is not.
PwhashFails(t) ==
    LET o == thread[t].o
    IN  /\ thread[t].pc = "pwhash"
        /\ mEncryptionKey' = [mEncryptionKey EXCEPT ![o] = NoLogin]
        /\ asked' = [asked EXCEPT ![o] = thread[t].login]
        /\ writer' = [writer EXCEPT ![o] = NoLogin]
        /\ Goto(t, Idle)
        /\ UNCHANGED <<config, readers, mEncryptionKeyHash, calls>>

\* A server key of the wrong size is read beyond its end: the hash is any.
Shorthash(t) ==
    LET o == thread[t].o
    IN  /\ thread[t].pc = "hash"
        /\ \E hash \in (IF thread[t].server = "good" THEN {mEncryptionKey[o]} ELSE Logins) :
              mEncryptionKeyHash' = [mEncryptionKeyHash EXCEPT ![o] = hash]
        /\ writer' = [writer EXCEPT ![o] = NoLogin]
        /\ Goto(t, Idle)
        /\ UNCHANGED <<config, readers, mEncryptionKey, asked, calls>>

-----------------------------------------------------------------------------
(* What only reads: hasKey, getKeyHashed, encrypt and decrypt end inside    *)
(* their lock; isTheSame takes two.                                        *)

Unwritten(o) == writer[o] = NoLogin

\* encrypt: throws without a key; the answer is what the key in use encrypts.
Encrypt(t, o) ==
    /\ Call(t) /\ Unwritten(o)
    /\ Goto(t, [pc |-> "answered", call |-> "encrypt", o |-> o, text |-> mEncryptionKey[o]])
    /\ UNCHANGED <<config, mutex, keyVars>>

\* decrypt of what a key has encrypted: throws without a key, or with another.
Decrypt(t, o, login) ==
    /\ Call(t) /\ Unwritten(o)
    /\ Goto(t, [pc |-> "answered", call |-> "decrypt", o |-> o,
                text |-> IF mEncryptionKey[o] = login THEN login ELSE NoLogin])
    /\ UNCHANGED <<config, mutex, keyVars>>

IsTheSame(t, o, b) ==
    /\ Call(t) /\ Unwritten(o)
    /\ readers' = [readers EXCEPT ![o] = @ \union {t}]
    /\ Goto(t, [pc |-> "other", o |-> o, b |-> b])
    /\ UNCHANGED <<config, writer, keyVars>>

\* Fault: the hash of b is read without its lock.
CompareUnlocked(t) ==
    LET o == thread[t].o   b == thread[t].b
    IN  /\ thread[t].pc = "other"
        /\ readers' = [readers EXCEPT ![o] = @ \ {t}]
        /\ Goto(t, [pc |-> "answered", call |-> "same", keys |-> {mEncryptionKey[o], mEncryptionKey[b]},
                    same |-> mEncryptionKeyHash[o] = mEncryptionKeyHash[b]])
        /\ UNCHANGED <<config, writer, keyVars, calls>>

\* The hash of b is compared inside both locks; then both are released.
Compare(t) ==
    LET o == thread[t].o   b == thread[t].b
    IN  /\ thread[t].pc = "other" /\ Unwritten(b)
        /\ readers' = [readers EXCEPT ![o] = @ \ {t}]
        /\ Goto(t, [pc |-> "answered", call |-> "same", keys |-> {mEncryptionKey[o], mEncryptionKey[b]},
                    same |-> mEncryptionKeyHash[o] = mEncryptionKeyHash[b]])
        /\ UNCHANGED <<config, writer, keyVars, calls>>

Return(t) ==
    /\ thread[t].pc = "answered"
    /\ Goto(t, Idle)
    /\ UNCHANGED <<config, mutex, keyVars, calls>>

-----------------------------------------------------------------------------
Step(t) ==
    \/ LockUnique(t) \/ Pwhash(t) \/ PwhashFails(t) \/ Shorthash(t) \/ Compare(t) \/ Return(t)

SecretsNext ==
    \/ \E app \in BOOLEAN, server \in ServerKeys \union {NoLogin} : LoadCryptoKeys(app, server)
    \/ Unload
    \/ \E t \in Threads, o \in Objects :
          \/ \E login \in Logins : CreateKey(t, o, login) \/ Decrypt(t, o, login)
          \/ Encrypt(t, o)
          \/ \E b \in Objects \ {o} : IsTheSame(t, o, b)
    \/ \E t \in Threads : Step(t)

SecretsSpec == SecretsInit /\ [][SecretsNext]_secretsVars

-----------------------------------------------------------------------------
(* Properties *)

\* Whoever reads finds the key and the hash of the last createKey, or no key: never the key of a
\* login before it, and no key beside the hash of another.
KeyIsOfLastCall ==
    \A o \in Objects : Unwritten(o) /\ mEncryptionKey[o] # NoLogin =>
        mEncryptionKey[o] = asked[o] /\ mEncryptionKeyHash[o] = asked[o]

\* isTheSame of two objects with keys answers whether the keys are the same.
SameMeansSameKey ==
    \A t \in Threads : thread[t].pc = "answered" /\ thread[t].call = "same" /\ NoLogin \notin thread[t].keys =>
        (thread[t].same <=> \A a, b \in thread[t].keys : a = b)

\* A lock is held by a thread that is inside the call it was taken for, also when pwhash has failed:
\* nobody waits for a lock whose holder is gone.
WriterIsInside ==
    \A o \in Objects :
        /\ writer[o] # NoLogin => thread[writer[o]].pc \in {"pwhash", "hash"} /\ thread[writer[o]].o = o
        /\ \A t \in readers[o] : thread[t].pc = "other" /\ thread[t].o = o

\* What users of a key rely on, however the calls of several threads overlap.
KeyIsOfLogin == KeyIsOfLastCall /\ SameMeansSameKey /\ WriterIsInside

\* isTheSame says of an object without a key that it is not the same as one that has one.
\* createKey keeps the hash when pwhash fails, so the answer may be yes.
NoKeyIsNotTheSame ==
    \A t \in Threads : thread[t].pc = "answered" /\ thread[t].call = "same" /\ thread[t].same =>
        \A a, b \in thread[t].keys : a = b
=============================================================================

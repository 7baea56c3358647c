---------------------------- MODULE ExpireCache ----------------------------
(***************************************************************************)
(* ExpireCache and AccessExpireCache: values that live for a time-out.     *)
(* A cache keeps its values by key and, in a multimap of its own, the time *)
(* of each.  Values are only expired by add, which drops the entries older *)
(* than the time-out together with the values of their keys; remove drops  *)
(* the value and leaves the time.  An access cache measures from the last  *)
(* get, which moves the entry; the other one from the add, whose time is   *)
(* taken before the lock.                                                  *)
(*                                                                         *)
(* Dropping all entries older than the time-out is what the loop over the  *)
(* ordered multimap does, so the multimap is a bag.  The value itself      *)
(* plays no part.  An add of a key that is there is stopped by an assert.  *)
(***************************************************************************)
EXTENDS Integers, FiniteSets, Bags

CONSTANTS
    Keys, Adders, \* the threads that add
    Removable,    \* the keys that clients remove
    mTimeout,     \* the time-out
    MaxTime, MaxEntries   \* bounds: the clock, the entries of the multimap

Absent == -1   \* no value; no time taken

VARIABLES
    access,     \* the class of the cache: TRUE for AccessExpireCache, FALSE for ExpireCache
    now,        \* the clock
    values,     \* mValues: key -> its timepoint
    times,      \* mValuePairCreationTimes: a bag of <<time, key>>
    adding      \* the add a thread waits with for the lock

cacheVars == <<access, now, values, times, adding>>

NoAdd == [at |-> Absent]

CacheInit ==
    /\ access \in BOOLEAN
    /\ now = 0
    /\ values = [k \in Keys |-> Absent]
    /\ times = EmptyBag
    /\ adding = [t \in Adders |-> NoAdd]

Present == {k \in Keys : values[k] # Absent}

Expired(at) == now - at > mTimeout

-----------------------------------------------------------------------------
\* removeExpiredValues, applied to the values and times that add has made.
KeptTimes(tms) == [e \in {e \in DOMAIN tms : ~Expired(e[1])} |-> tms[e]]

\* Fault: a value as old as the time-out is dropped.
ExpiredKeysAtTimeout(tms) == {e[2] : e \in {e \in DOMAIN tms : now - e[1] >= mTimeout}}

ExpiredKeys(tms) == {e[2] : e \in {e \in DOMAIN tms : Expired(e[1])}}

\* ExpireCache::add takes the time before it has the lock, AccessExpireCache::add under it.
BeginAdd(t, k) ==
    /\ ~access /\ adding[t] = NoAdd
    /\ adding' = [adding EXCEPT ![t] = [at |-> now, key |-> k]]
    /\ UNCHANGED <<access, now, values, times>>

AddAt(k, at) ==
    LET tms == times (+) SetToBag({<<at, k>>})
    IN  /\ values[k] = Absent
        /\ BagCardinality(times) < MaxEntries
        /\ times' = KeptTimes(tms)
        /\ values' = [q \in Keys |-> IF q \in ExpiredKeys(tms) THEN Absent ELSE [values EXCEPT ![k] = at][q]]

EndAdd(t) ==
    /\ adding[t] # NoAdd
    /\ AddAt(adding[t].key, adding[t].at)
    /\ adding' = [adding EXCEPT ![t] = NoAdd]
    /\ UNCHANGED <<access, now>>

Add(k) == access /\ AddAt(k, now) /\ UNCHANGED <<access, now, adding>>

\* The time of a removed value stays "to spare us the time for searching for the key".
Remove(k) ==
    /\ k \in Removable
    /\ values' = [values EXCEPT ![k] = Absent]
    /\ UNCHANGED <<access, now, times, adding>>

\* AccessExpireCache::get moves the one entry of the key at its timepoint.
Get(k) ==
    /\ access /\ k \in Present
    /\ BagIn(<<values[k], k>>, times)
    /\ times' = (times (-) SetToBag({<<values[k], k>>})) (+) SetToBag({<<now, k>>})
    /\ values' = [values EXCEPT ![k] = now]
    /\ UNCHANGED <<access, now, adding>>

Clear ==
    /\ values' = [k \in Keys |-> Absent]
    /\ times' = EmptyBag
    /\ UNCHANGED <<access, now, adding>>

Tick == now < MaxTime /\ now' = now + 1 /\ UNCHANGED <<access, values, times, adding>>

CacheNext ==
    \/ \E k \in Keys : Add(k) \/ Remove(k) \/ Get(k)
    \/ \E t \in Adders : EndAdd(t) \/ \E k \in Keys : BeginAdd(t, k)
    \/ Clear
    \/ Tick

CacheSpec == CacheInit /\ [][CacheNext]_cacheVars

-----------------------------------------------------------------------------
(* Properties *)

\* Types; no time lies in the future.
CacheTypeOK ==
    /\ now \in 0 .. MaxTime
    /\ values \in [Keys -> Absent .. now]
    /\ IsABag(times) /\ DOMAIN times \subseteq (0 .. now) \X Keys
    /\ \A t \in Adders : adding[t] = NoAdd \/ (adding[t].at \in 0 .. now /\ adding[t].key \in Keys)

\* Every value has the entry that will expire it: none stays for ever.
EveryValueExpires == \A k \in Present : BagIn(<<values[k], k>>, times)

\* After an add no value is older than the time-out, whatever was added late, moved or left
\* behind: what the tests call "upate timeouts only occure if add is called".
Purged ==
    (\E t \in Adders : EndAdd(t)) \/ (\E k \in Keys : Add(k))
        => \A k \in Keys : values'[k] # Absent => ~Expired(values'[k])

\* A value is there until it is older than the time-out, counted from the last get in an access cache.
Kept(keys) ==
    \A k \in keys \cap Present :
        values'[k] = Absent => Remove(k) \/ Clear \/ Expired(values[k])

\* ExpireCache: every value has the entry that will expire it, an add leaves no value that is older
\* than the time-out, and a value of a key that clients do not remove stays for the time-out.
ExpiresInTime ==
    [][Kept(Keys \ Removable) /\ Purged /\ EveryValueExpires' /\ CacheTypeOK']_cacheVars

\* The same of a key that was removed and added again: the tests expect a value to be there until
\* its own time-out is over.
ReaddedKeptForTimeout == [][Kept(Keys)]_cacheVars
=============================================================================

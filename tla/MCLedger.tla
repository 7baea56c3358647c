------------------------------ MODULE MCLedger ------------------------------
(* A community of two users, and the calls its clients may make. *)
EXTENDS Ledger

CONSTANTS u1, u2, a1, a2, d1, d2, gmw, auf

MCUsers == {u1, u2}
MCAccounts == {a1, a2}
MCDeferredKeys == {d1, d2}

\* Three quarters of a balance are left after two units of time, half after four.
MCKeep == [d \in 0..(MaxTime + MaxDelay) |->
              CASE d <= 1 -> 4 [] d \in {2, 3} -> 3 [] OTHER -> 2]

Anchored(b, createdAt, at, anchor) ==
    [tx |-> [body |-> b, createdAt |-> createdAt], at |-> at, anchor |-> anchor,
     derivation |-> "node", balances |-> [k \in Keys |-> NoBalance]]

At(b, createdAt, at) == Anchored(b, createdAt, at, "hiero")

\* Calls with body b on any date, created up to lag units before.
AnyTime(b, lag) ==
    {At(b, at - l, at) : l \in 0..lag, at \in lag..MaxTime}

\* The community is founded, its users registered and one given coins.
Root == [type |-> "root"]
Register(u, a) == [type |-> "register", from |-> u, to |-> a]
Creation(u, a, amount) == [type |-> "creation", from |-> u, to |-> a, amount |-> amount]
Transfer(from, to, amount) == [type |-> "transfer", from |-> from, to |-> to, amount |-> amount]
Deferred(from, to, amount, timeout) ==
    [type |-> "deferred", from |-> from, to |-> to, amount |-> amount, timeout |-> timeout]
Redeem(from, to, amount, nr) ==
    [type |-> "redeem", from |-> from, to |-> to, amount |-> amount, nr |-> nr]
Timeout(nr) == [type |-> "timeout", nr |-> nr]

Founding == {At(b, 0, 0) : b \in {Root, Register(u1, a1), Register(u2, a2), Creation(u2, a1, 6)}}

\* Deferred transfers with equal, different and overlapping timeouts, one even
\* before there are coins; redeemed above and within the tolerance, by the
\* recipient and by the sender.
DeferredCalls ==
    Founding
    \cup AnyTime(Deferred(a1, d1, 4, 2), 0)
    \cup AnyTime(Deferred(a1, d2, 2, 1), 0)
    \cup AnyTime(Deferred(a1, d2, 2, 2), 0)
    \cup AnyTime(Redeem(d1, a2, 3, 5), 1)
    \cup AnyTime(Redeem(d1, a2, 2, 5), 1)
    \cup AnyTime(Redeem(d1, a1, 3, 5), 0)

\* Payments between accounts, from the community's own account, and calls that
\* arrive late or out of order; a second registration takes over an account.
PaymentCalls ==
    Founding
    \cup AnyTime(Creation(u2, a1, 3), 0)
    \cup AnyTime(Register(u2, a1), 0)
    \cup AnyTime(Transfer(a1, a2, 4), 2)
    \cup AnyTime(Transfer(a2, a1, 2), 0)
    \cup {Anchored(Transfer(gmw, a2, 3), 0, 0, anchor) : anchor \in Anchors \ {"node"}}
    \cup AnyTime(Transfer(gmw, a2, 3), 0)

\* One transfer, created on date 0, handed over on two dates.
RepeatedCalls == Founding \cup {At(Transfer(a1, a2, 2), 0, at) : at \in 0..1}

\* A timeout that is not triggered but handed over like any other transaction.
TimeoutCalls ==
    Founding
    \cup {At(Deferred(a1, d1, 4, 2), 0, 0)}
    \cup {At(Timeout(5), createdAt, at) : createdAt \in Dates, at \in Dates}

\* A history imported with its balances, continued by calls of the ledger.  The
\* imported balances of a1 are not those the node would calculate.
Imported(b, at, bal) ==
    [tx |-> [body |-> b, createdAt |-> at], at |-> at, anchor |-> "legacy", derivation |-> "extern",
     balances |-> [k \in Keys |-> IF k \in DOMAIN bal THEN bal[k] ELSE NoBalance]]

One(k, n) == [x \in {k} |-> n]

ImportCalls ==
    {Imported(Root, 0, [k \in {gmw, auf} |-> 0]),
     Imported(Register(u1, a1), 0, One(a1, 0)),
     Imported(Register(u2, a2), 0, One(a2, 0)),
     Imported(Creation(u2, a1, 6), 0, [k \in {a1, gmw, auf} |-> 6])}
    \cup {Imported(Deferred(a1, d1, 4, 2), at, [k \in {a1, d1} |-> IF k = d1 THEN 4 ELSE left]) :
              at \in 0..2, left \in {0, 5}}
    \cup {Imported(Redeem(d1, a2, 3, 5), at, [k \in {d1, a2} |-> IF k = d1 THEN 0 ELSE 3]) :
              at \in 1..2}
    \cup AnyTime(Deferred(a1, d2, 2, 1), 0)
    \cup AnyTime(Transfer(a2, a1, 2), 0)

-----------------------------------------------------------------------------
CONSTANT Scenarios      \* the sets of calls, by name, clients draw from

VARIABLE scenario       \* the one they draw from in this behaviour

CallsOf ==
    [deferred |-> DeferredCalls, payments |-> PaymentCalls, imports |-> ImportCalls,
     repeated |-> RepeatedCalls, timeouts |-> TimeoutCalls]

\* The calls of the scenarios that run.
MCCalls == UNION {CallsOf[s] : s \in Scenarios}

\* The longest chain of a scenario.
LengthOf == [deferred |-> 8, payments |-> 7, imports |-> 7, repeated |-> 8, timeouts |-> 8]

MCInit == Init /\ scenario \in Scenarios

MCNext ==
    \/ /\ Len(chain) < LengthOf[scenario]
       /\ \E c \in CallsOf[scenario] : Submit(c)
       /\ UNCHANGED scenario
    \/ CallStep /\ UNCHANGED scenario

\* Calls are followed to their return where they may trigger others.
MCSpec ==
    MCInit /\ [][MCNext]_<<vars, scenario>> /\ WF_vars(scenario = "deferred" /\ CallStep)

-----------------------------------------------------------------------------
(* A property of one scenario. *)

\* A call with nested calls returns: the loop over the triggers ends, although every
\* trigger is a call with a loop of its own.
NestedCallReturns == scenario = "deferred" => CallReturns
=============================================================================

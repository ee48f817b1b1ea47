-------------------------- MODULE AllowlistAirdrop --------------------------
(***************************************************************************)
(* What DistributionX promises, without saying how: a distributor offers   *)
(* amounts to the holders of an allowlist, deposits and reserves money for *)
(* them, and takes back what is left.  Every committed row carries a       *)
(* one-time ticket; a row is paid only while the offer is open and before  *)
(* its deadline, only to a destination its holder approved, only once, and *)
(* only out of money reserved for claims.                                  *)
(*                                                                         *)
(* There are no accounts, hashes, proofs or fees here.  The module         *)
(* DistributionXProgram is shown to implement this specification.          *)
(***************************************************************************)
EXTENDS Integers

CONSTANTS
    Airdrops,       \* identifiers of offers
    Amounts,        \* amounts deposited or reserved in one step
    Destinations,   \* where a payout may be sent
    Approvals,      \* the <<holder, airdrop, destination>> a holder ever approves
    Offers          \* the [rows: a set of [holder, amount, ticket], deadline] on offer

VARIABLES
    phase,      \* "none", then "open", then "closed"
    offer,      \* the rows and the deadline committed to
    spent,      \* the tickets paid
    pool,       \* money held for the airdrop
    budget,     \* the part of it reserved for claims
    time

vars == <<phase, offer, spent, pool, budget, time>>

NoOffer == [rows |-> {}, deadline |-> 0]

Init ==
    /\ phase = [a \in Airdrops |-> "none"]
    /\ offer = [a \in Airdrops |-> NoOffer]
    /\ spent = [a \in Airdrops |-> {}]
    /\ pool = [a \in Airdrops |-> 0]
    /\ budget = [a \in Airdrops |-> 0]
    /\ time = 0

Open(a, o) ==  \* the distributor commits to an allowlist
    /\ phase[a] = "none"
    /\ phase' = [phase EXCEPT ![a] = "open"]
    /\ offer' = [offer EXCEPT ![a] = o]
    /\ UNCHANGED <<spent, pool, budget, time>>

Deposit(a, n) ==  \* anybody may send money to the pool, at any time
    /\ n > 0
    /\ pool' = [pool EXCEPT ![a] = @ + n]
    /\ UNCHANGED <<phase, offer, spent, budget, time>>

Reserve(a, n) ==  \* only deposited money may be reserved for claims
    /\ phase[a] = "open"
    /\ n > 0
    /\ budget[a] + n <= pool[a]
    /\ budget' = [budget EXCEPT ![a] = @ + n]
    /\ UNCHANGED <<phase, offer, spent, pool, time>>

Pay(a, row, dest) ==  \* one committed row is paid, once, as its holder approved
    /\ phase[a] = "open"
    /\ time < offer[a].deadline
    /\ row \in offer[a].rows
    /\ row.ticket \notin spent[a]
    /\ <<row.holder, a, dest>> \in Approvals
    /\ row.amount <= budget[a]
    /\ spent' = [spent EXCEPT ![a] = @ \cup {row.ticket}]
    /\ budget' = [budget EXCEPT ![a] = @ - row.amount]
    /\ pool' = [pool EXCEPT ![a] = @ - row.amount]
    /\ UNCHANGED <<phase, offer, time>>

Sweep(a) ==  \* the distributor closes the offer, if it is open, and takes the pool
    /\ phase[a] # "none"
    /\ phase' = [phase EXCEPT ![a] = "closed"]
    /\ pool' = [pool EXCEPT ![a] = 0]
    /\ budget' = [budget EXCEPT ![a] = 0]
    /\ UNCHANGED <<offer, spent, time>>

Tick ==
    /\ time' > time
    /\ UNCHANGED <<phase, offer, spent, pool, budget>>

Next ==
    \/ \E a \in Airdrops :
        \/ \E o \in Offers : Open(a, o)
        \/ \E n \in Amounts : Deposit(a, n) \/ Reserve(a, n)
        \/ \E row \in offer[a].rows, dest \in Destinations : Pay(a, row, dest)
        \/ Sweep(a)
    \/ Tick

Spec == Init /\ [][Next]_vars

=============================================================================

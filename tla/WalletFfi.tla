------------------------------ MODULE WalletFfi ------------------------------
(***************************************************************************)
(* The generated C interface of the program                                 *)
(* (src/generated/distributionx_ffi.rs) called from several threads of one   *)
(* process, and the generated Rust client (distributionx_client.rs) beside   *)
(* it.  Every FFI call opens its own wallet.  The wallet library finds its   *)
(* files through the process-wide LEE_WALLET_HOME_DIR, so init_wallet sets   *)
(* the variable and opens the files under WALLET_INIT_LOCK.  A panic inside  *)
(* a call is caught and reported, but when it comes while the lock is held,  *)
(* the lock is poisoned for the rest of the process.                         *)
(*                                                                         *)
(* The wallet library and the sequencer are external: opening and sending    *)
(* may fail or panic, and a send that fails may have been received.          *)
(***************************************************************************)
EXTENDS Naturals, FiniteSets

CONSTANTS
    Threads,        \* threads that call
    Homes,          \* wallet directories
    Accounts,       \* public accounts
    signing_keys,   \* the accounts each directory holds a key of
    MaxCalls,       \* bound on the calls of a thread, for model checking
    Nothing

VARIABLES
    LEE_WALLET_HOME_DIR,    \* the environment variable
    WALLET_INIT_LOCK,       \* the thread that holds it, or Nothing
    poisoned,               \* whether a thread panicked while it held the lock
    call,                   \* what each thread is doing
    calls,                  \* calls each thread has made
    sent                    \* transactions the sequencer received, with their calls

ffiVars == <<LEE_WALLET_HOME_DIR, WALLET_INIT_LOCK, poisoned, call, calls, sent>>

\* What each operation sends: the accounts, whose names stand for the addresses
\* derived from the airdrop id, and whether the distributor signs.
distributionx_init_airdrop_impl ==
    [accounts |-> <<"airdrop", "vault", "distributor">>, signs |-> TRUE]
distributionx_fund_impl ==
    [accounts |-> <<"airdrop", "vault", "distributor">>, signs |-> TRUE]
distributionx_claim_impl ==
    [accounts |-> <<"airdrop", "nullifier_record", "vault">>, signs |-> FALSE]
distributionx_claim_private_impl ==
    [accounts |-> <<"airdrop", "nullifier_record", "vault">>, signs |-> FALSE]
distributionx_close_impl ==
    [accounts |-> <<"airdrop", "vault", "recovery", "distributor">>, signs |-> TRUE]

Operations ==
    {distributionx_init_airdrop_impl, distributionx_fund_impl, distributionx_claim_impl,
     distributionx_claim_private_impl, distributionx_close_impl}
Requests == [op: Operations, wallet_path: Homes, distributor: Accounts]
Files == {"config", "storage", "statistics"}
Free == [step |-> "returned", success |-> FALSE]

ASSUME FfiAssumption ==
    /\ signing_keys \in [Homes -> SUBSET Accounts]
    /\ MaxCalls \in Nat
    /\ Nothing \notin Threads \cup Homes

FfiInit ==
    /\ LEE_WALLET_HOME_DIR \in Homes \cup {Nothing}
    /\ WALLET_INIT_LOCK = Nothing /\ poisoned = FALSE
    /\ call = [t \in Threads |-> Free]
    /\ calls = [t \in Threads |-> 0]
    /\ sent = {}

At(t, step) == call[t].step = step
Become(t, step) == call' = [call EXCEPT ![t].step = step]
Return(t, success) == call' = [call EXCEPT ![t] = [step |-> "returned", success |-> success]]

-----------------------------------------------------------------------------
Begin(t, request, step, opened) ==
    /\ At(t, "returned") /\ calls[t] < MaxCalls
    /\ calls' = [calls EXCEPT ![t] = @ + 1]
    /\ call' = [call EXCEPT ![t] = [step |-> step, request |-> request, opened |-> opened]]
    /\ UNCHANGED <<LEE_WALLET_HOME_DIR, WALLET_INIT_LOCK, poisoned, sent>>

\* A call of the C interface whose JSON parses; others return at once.
ffi_call(t, request) == Begin(t, request, "lock", << >>)

\* A call of the Rust client, which the caller has given an open wallet.
client_call(t, request) ==
    Begin(t, request, "send", [file \in Files |-> request.wallet_path])

\* Faulty variant: the guard is dropped where it is taken (let _ = lock()).
lock_DroppedAtOnce(t) ==
    /\ At(t, "lock") /\ WALLET_INIT_LOCK = Nothing
    /\ IF poisoned THEN Return(t, FALSE) ELSE Become(t, "set_var")
    /\ UNCHANGED <<LEE_WALLET_HOME_DIR, WALLET_INIT_LOCK, poisoned, calls, sent>>

lock(t) ==
    /\ At(t, "lock") /\ WALLET_INIT_LOCK = Nothing
    /\ IF poisoned THEN Return(t, FALSE) /\ UNCHANGED WALLET_INIT_LOCK
       ELSE Become(t, "set_var") /\ WALLET_INIT_LOCK' = t
    /\ UNCHANGED <<LEE_WALLET_HOME_DIR, poisoned, calls, sent>>

set_var(t) ==
    /\ At(t, "set_var")
    /\ LEE_WALLET_HOME_DIR' = call[t].request.wallet_path
    /\ Become(t, "open")
    /\ UNCHANGED <<WALLET_INIT_LOCK, poisoned, calls, sent>>

\* fetch_config_path, fetch_persistent_storage_path, fetch_statistics_path: each
\* reads the variable.
fetch_path(t) ==
    /\ At(t, "open")
    /\ \E file \in Files \ DOMAIN call[t].opened :
         call' = [call EXCEPT ![t].opened =
                    [f \in DOMAIN @ \cup {file} |->
                       IF f = file THEN LEE_WALLET_HOME_DIR ELSE @[f]]]
    /\ UNCHANGED <<LEE_WALLET_HOME_DIR, WALLET_INIT_LOCK, poisoned, calls, sent>>

\* Faulty variant: a panic leaves the lock held.
release_NotByPanic(t, panic) ==
    /\ WALLET_INIT_LOCK' = IF panic THEN WALLET_INIT_LOCK ELSE Nothing
    /\ poisoned' = (poisoned \/ panic)

\* The guard goes out of scope.
release(t, panic) ==
    /\ WALLET_INIT_LOCK' = Nothing
    /\ poisoned' = (poisoned \/ panic)

\* WalletCore::new_update_chain synchronises with the chain, under the lock.
new_update_chain(t) ==
    /\ At(t, "open") /\ DOMAIN call[t].opened = Files
    /\ Become(t, "send")
    /\ release(t, FALSE)
    /\ UNCHANGED <<LEE_WALLET_HOME_DIR, calls, sent>>

\* Opening the wallet fails, or panics.
init_fails(t, panic) ==
    /\ call[t].step \in {"set_var", "open"}
    /\ Return(t, FALSE)
    /\ release(t, panic)
    /\ UNCHANGED <<LEE_WALLET_HOME_DIR, calls, sent>>

\* Faulty variant: the key is looked up for the operations that need none.
has_signing_key_Inverted(t) ==
    ~call[t].request.op.signs =>
      call[t].request.distributor \in signing_keys[call[t].opened["storage"]]

has_signing_key(t) ==
    call[t].request.op.signs =>
      call[t].request.distributor \in signing_keys[call[t].opened["storage"]]

Transaction(t) ==
    [by |-> <<t, calls[t]>>, request |-> call[t].request, wallet |-> call[t].opened]

\* An argument does not parse, or the instruction does not serialise.
bad_argument(t) ==
    /\ At(t, "send")
    /\ Return(t, FALSE)
    /\ UNCHANGED <<LEE_WALLET_HOME_DIR, WALLET_INIT_LOCK, poisoned, calls, sent>>

missing_key(t) ==
    /\ At(t, "send") /\ ~has_signing_key(t)
    /\ Return(t, FALSE)
    /\ UNCHANGED <<LEE_WALLET_HOME_DIR, WALLET_INIT_LOCK, poisoned, calls, sent>>

\* An error, or a panic, does not tell whether the sequencer got it.
send_pub_tx(t, received, success) ==
    /\ At(t, "send") /\ has_signing_key(t)
    /\ success => received
    /\ sent' = IF received THEN sent \cup {Transaction(t)} ELSE sent
    /\ Return(t, success)
    /\ UNCHANGED <<LEE_WALLET_HOME_DIR, WALLET_INIT_LOCK, poisoned, calls>>

-----------------------------------------------------------------------------
Step(t) ==
    \/ lock(t) \/ set_var(t) \/ fetch_path(t) \/ new_update_chain(t)
    \/ \E panic \in BOOLEAN : init_fails(t, panic)
    \/ bad_argument(t) \/ missing_key(t)
    \/ \E received, success \in BOOLEAN : send_pub_tx(t, received, success)

FfiNext ==
    \E t \in Threads :
      \/ \E request \in Requests : ffi_call(t, request) \/ client_call(t, request)
      \/ Step(t)

FfiSpec == FfiInit /\ [][FfiNext]_ffiVars

\* Threads run and the wallet library's calls return.
RunsOn(t) == WF_ffiVars(Step(t))
FairFfiSpec == FfiSpec /\ \A t \in Threads : RunsOn(t)

-----------------------------------------------------------------------------
(* Properties.                                                              *)

Opening == UNION {[opened -> Homes] : opened \in SUBSET Files}
Calls ==
    [step: {"returned"}, success: BOOLEAN] \cup
    [step: {"lock", "set_var", "open"}, request: Requests, opened: Opening] \cup
    [step: {"send"}, request: Requests, opened: [Files -> Homes]]

\* Types.  In particular a call in progress names the directory of every file
\* it has opened, and a call that sends has opened all of them.
FfiTypeOK ==
    /\ LEE_WALLET_HOME_DIR \in Homes \cup {Nothing}
    /\ WALLET_INIT_LOCK \in Threads \cup {Nothing}
    /\ poisoned \in BOOLEAN
    /\ call \in [Threads -> Calls]
    /\ calls \in [Threads -> 0 .. MaxCalls]
    /\ sent \subseteq [by: Threads \X (0 .. MaxCalls), request: Requests, wallet: [Files -> Homes]]

\* Whatever other threads do to the environment, a wallet is opened from the
\* directory its own call names, all three files of it (init_wallet).
OwnWallet ==
    \A t \in {u \in Threads : ~At(u, "returned")} :
      \A file \in DOMAIN call[t].opened : call[t].opened[file] = call[t].request.wallet_path

\* A transaction that names a distributor was signed with a key that the
\* directory named in the call holds, whatever other calls opened meanwhile (the
\* distributionx_*_impl functions, init_wallet).
SignedFromOwnDirectory ==
    \A tx \in sent :
      (\E i \in DOMAIN tx.request.op.accounts : tx.request.op.accounts[i] = "distributor") =>
        tx.request.distributor \in signing_keys[tx.request.wallet_path]

\* A call can always go on, or waits for the lock while the thread that holds it
\* can: no panic, and no order of calls, leaves the lock with a thread that is
\* through with it (init_wallet, ffi_call).
NoCallStuck ==
    \A t \in {u \in Threads : ~At(u, "returned")} :
      \/ ENABLED <<Step(t)>>_ffiVars
      \/ /\ At(t, "lock")
         /\ \E u \in Threads : WALLET_INIT_LOCK = u /\ ENABLED <<Step(u)>>_ffiVars

\* A thread inside init_wallet is the one that holds the lock, so a poisoned lock
\* never strands a call: every call returns, after a panic of another one too
\* (ffi_call, init_wallet).
EveryCallReturns == \A t \in Threads : ~At(t, "returned") ~> At(t, "returned")
=============================================================================

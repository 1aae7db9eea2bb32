----------------------------- MODULE TokenVault -----------------------------
(***************************************************************************)
(* The token vault of one session: run_tokenize asking redis_store.py for  *)
(* the token of each value it detects, update_token_map merging the new    *)
(* tokens into the session's map, and the read of the map that restores    *)
(* the model's answer.  Requests of one session run concurrently, on one   *)
(* gateway or several; one action is one Redis round trip.                 *)
(*                                                                         *)
(* Every key carries the session, and a value is hashed with its entity    *)
(* type, which also selects the counter and the token's name: one session  *)
(* and one entity type are the whole story, and a token is its number.     *)
(* Time is counted in ticks of which a key lives TTL; a session's          *)
(* configuration is written at 0 and never refreshed.                      *)
(***************************************************************************)
EXTENDS Integers, Sequences, FiniteSets

CONSTANTS
    Requests,       \* chat requests that can be in flight at once
    Values,         \* identifiers that occur in messages
    TTL,            \* SessionStore.TTL
    MaxClock,       \* bound: ticks
    MaxMessages,    \* bound: messages tokenized
    MaxSpans        \* bound: identifiers in a message

ASSUME VaultAssumption ==
    /\ TTL \in Nat \ {0}
    /\ MaxClock \in Nat
    /\ MaxMessages \in Nat
    /\ MaxSpans \in Nat \ {0}

VARIABLES
    clock,
    hash,           \* session:{id}:hash:{v}, the token of a value
    counter,        \* session:{id}:counter:{type}
    vault,          \* session:{id}:tokens, the map from token to value
    req,            \* the locals of each request
    messages,       \* messages tokenized so far
    issued,         \* every (token, value) get_or_create has returned
    overran,        \* a request was tokenizing when the session expired
    clobbered       \* a merge overwrote a map it had not read

vars == <<clock, hash, counter, vault, req, messages, issued, overran,
          clobbered>>
ghosts == <<issued, overran, clobbered>>

-----------------------------------------------------------------------------
Never == 0                      \* the expiry of a key that does not exist
Live(key) == key.exp > clock

Tokens == Nat \ {0}
Empty == [t \in {} |-> {}]

\* The dict.update of Python: new wins.
Merge(old, new) ==
    [t \in DOMAIN old \cup DOMAIN new |->
        IF t \in DOMAIN new THEN new[t] ELSE old[t]]

Map == IF Live(vault) THEN vault.map ELSE Empty

Messages == UNION {[1..n -> Values] : n \in 0..MaxSpans}

NoRequest == [pc |-> "idle", todo |-> <<>>, tok |-> 0, new |-> Empty,
              snap |-> Empty, sent |-> Empty]

Tokenizing(r) == req[r].pc \notin {"idle", "sent"}

Init ==
    /\ clock = 0
    /\ hash = [v \in Values |-> [tok |-> 0, exp |-> Never]]
    /\ counter = [n |-> 0, exp |-> Never]
    /\ vault = [map |-> Empty, exp |-> Never]
    /\ req = [r \in Requests |-> NoRequest]
    /\ messages = 0
    /\ issued = {}
    /\ overran = FALSE
    /\ clobbered = FALSE

-----------------------------------------------------------------------------
\* What run_tokenize holds before the first span of a message.
Detected(q, msg) ==
    [q EXCEPT !.pc = IF msg = <<>> THEN "readMap" ELSE "find",
              !.todo = msg, !.new = Empty, !.snap = Empty]

\* The request finds the session's configuration and its first message is
\* analysed.
Begin(r, msg) ==
    /\ req[r].pc = "idle"
    /\ clock < TTL
    /\ messages < MaxMessages
    /\ messages' = messages + 1
    /\ req' = [req EXCEPT ![r] = Detected(NoRequest, msg)]
    /\ UNCHANGED <<clock, hash, counter, vault, ghosts>>

\* The next message of the same request.
Another(r, msg) ==
    /\ req[r].pc = "merged"
    /\ messages < MaxMessages
    /\ messages' = messages + 1
    /\ req' = [req EXCEPT ![r] = Detected(@, msg)]
    /\ UNCHANGED <<clock, hash, counter, vault, ghosts>>

\* get_or_create_token_for_hash returns tok for the span in hand.
Returns(r, tok) ==
    LET q == req[r]
        v == Head(q.todo)
    IN
    /\ issued' = issued \cup {[tok |-> tok, value |-> v]}
    /\ req' = [req EXCEPT ![r] =
          [q EXCEPT !.pc = IF Len(q.todo) = 1 THEN "readMap" ELSE "find",
                    !.todo = Tail(q.todo), !.tok = 0,
                    !.new = Merge(@, [t \in {tok} |-> v])]]

Find(r) ==
    LET key == hash[Head(req[r].todo)] IN
    /\ req[r].pc = "find"
    /\ IF Live(key)
       THEN Returns(r, key.tok)
       ELSE /\ req' = [req EXCEPT ![r].pc = "incr"]
            /\ UNCHANGED issued
    /\ UNCHANGED <<clock, hash, counter, vault, messages, overran, clobbered>>

\* Mutants of Incr: the next number is the size of the map plus one; the
\* number before the increment is used.
IncrFromMap(r) ==
    LET n == Cardinality(DOMAIN Map) + 1 IN
    /\ req[r].pc = "incr"
    /\ counter' = [n |-> n,
                   exp |-> IF Live(counter) THEN counter.exp ELSE MaxClock + 1]
    /\ req' = [req EXCEPT ![r].tok = n, ![r].pc = "expire"]
    /\ UNCHANGED <<clock, hash, vault, messages, ghosts>>

IncrPrevious(r) ==
    LET n == IF Live(counter) THEN counter.n + 1 ELSE 1 IN
    /\ req[r].pc = "incr"
    /\ counter' = [n |-> n,
                   exp |-> IF Live(counter) THEN counter.exp ELSE MaxClock + 1]
    /\ req' = [req EXCEPT ![r].tok = n - 1, ![r].pc = "expire"]
    /\ UNCHANGED <<clock, hash, vault, messages, ghosts>>

\* INCR: a counter that has expired starts again at 1, for now without a TTL.
Incr(r) ==
    LET n == IF Live(counter) THEN counter.n + 1 ELSE 1 IN
    /\ req[r].pc = "incr"
    /\ counter' = [n |-> n,
                   exp |-> IF Live(counter) THEN counter.exp ELSE MaxClock + 1]
    /\ req' = [req EXCEPT ![r].tok = n, ![r].pc = "expire"]
    /\ UNCHANGED <<clock, hash, vault, messages, ghosts>>

ExpireCounter(r) ==
    /\ req[r].pc = "expire"
    /\ counter' = IF Live(counter)
                  THEN [counter EXCEPT !.exp = clock + TTL] ELSE counter
    /\ req' = [req EXCEPT ![r].pc = "claim"]
    /\ UNCHANGED <<clock, hash, vault, messages, ghosts>>

\* Mutant of Claim: SET without NX.
ClaimAlways(r) ==
    LET v == Head(req[r].todo) IN
    /\ req[r].pc = "claim"
    /\ hash' = [hash EXCEPT ![v] = [tok |-> req[r].tok, exp |-> clock + TTL]]
    /\ Returns(r, req[r].tok)
    /\ UNCHANGED <<clock, counter, vault, messages, overran, clobbered>>

\* SET NX EX: the first claim of a value wins.
Claim(r) ==
    LET v == Head(req[r].todo) IN
    /\ req[r].pc = "claim"
    /\ IF Live(hash[v])
       THEN /\ req' = [req EXCEPT ![r].pc = "winner"]
            /\ UNCHANGED <<hash, issued>>
       ELSE /\ hash' = [hash EXCEPT ![v] = [tok |-> req[r].tok,
                                            exp |-> clock + TTL]]
            /\ Returns(r, req[r].tok)
    /\ UNCHANGED <<clock, counter, vault, messages, overran, clobbered>>

\* The loser reads the winner's token, or keeps its own if that is gone.
ReadWinner(r) ==
    LET key == hash[Head(req[r].todo)] IN
    /\ req[r].pc = "winner"
    /\ Returns(r, IF Live(key) THEN key.tok ELSE req[r].tok)
    /\ UNCHANGED <<clock, hash, counter, vault, messages, overran, clobbered>>

\* update_token_map: get_token_map ...
ReadMap(r) ==
    /\ req[r].pc = "readMap"
    /\ req' = [req EXCEPT ![r].snap = Map, ![r].pc = "writeMap"]
    /\ UNCHANGED <<clock, hash, counter, vault, messages, ghosts>>

\* Mutant of WriteMap: the new tokens replace the map.
WriteMapNew(r) ==
    LET q == req[r] IN
    /\ q.pc = "writeMap"
    /\ vault' = [map |-> q.new, exp |-> clock + TTL]
    /\ clobbered' = (clobbered \/ q.snap # Map)
    /\ req' = [req EXCEPT ![r] = [q EXCEPT !.sent = Merge(@, q.new),
                                           !.pc = "merged"]]
    /\ UNCHANGED <<clock, hash, counter, messages, issued, overran>>

\* ... and set_token_map of what it had read, updated.
WriteMap(r) ==
    LET q == req[r] IN
    /\ q.pc = "writeMap"
    /\ vault' = [map |-> Merge(q.snap, q.new), exp |-> clock + TTL]
    /\ clobbered' = (clobbered \/ q.snap # Map)
    /\ req' = [req EXCEPT ![r] = [q EXCEPT !.sent = Merge(@, q.new),
                                           !.pc = "merged"]]
    /\ UNCHANGED <<clock, hash, counter, messages, issued, overran>>

\* All messages are tokenized and the prompt goes to the model.
Send(r) ==
    /\ req[r].pc = "merged"
    /\ req' = [req EXCEPT ![r].pc = "sent"]
    /\ UNCHANGED <<clock, hash, counter, vault, messages, ghosts>>

\* The answer is restored from get_token_map; or an exception ended the
\* request, whatever it had written.
Finish(r) ==
    /\ req[r].pc # "idle"
    /\ req' = [req EXCEPT ![r] = NoRequest]
    /\ UNCHANGED <<clock, hash, counter, vault, messages, ghosts>>

Tick ==
    /\ clock < MaxClock
    /\ clock' = clock + 1
    /\ overran' = \/ overran
                  \/ clock + 1 >= TTL /\ \E r \in Requests : Tokenizing(r)
    /\ UNCHANGED <<hash, counter, vault, req, messages, issued, clobbered>>

Next ==
    \/ \E r \in Requests :
        \/ \E msg \in Messages : Begin(r, msg) \/ Another(r, msg)
        \/ Find(r) \/ Incr(r) \/ ExpireCounter(r) \/ Claim(r) \/ ReadWinner(r)
        \/ ReadMap(r) \/ WriteMap(r) \/ Send(r) \/ Finish(r)
    \/ Tick

Spec == Init /\ [][Next]_vars

-----------------------------------------------------------------------------
IsMap(m) == DOMAIN m \subseteq Tokens /\ \A t \in DOMAIN m : m[t] \in Values

TypeOK ==
    /\ clock \in Nat
    /\ \A v \in Values : hash[v] \in [tok : Nat, exp : Nat]
    /\ counter \in [n : Nat, exp : Nat]
    /\ IsMap(vault.map) /\ vault.exp \in Nat
    /\ \A r \in Requests :
          /\ req[r].pc \in {"idle", "find", "incr", "expire", "claim", "winner",
                            "readMap", "writeMap", "merged", "sent"}
          /\ req[r].todo \in Seq(Values) /\ req[r].tok \in Nat
          /\ IsMap(req[r].new) /\ IsMap(req[r].snap) /\ IsMap(req[r].sent)
    /\ issued \in SUBSET [tok : Tokens, value : Values]
    /\ overran \in BOOLEAN /\ clobbered \in BOOLEAN

\* Concurrent requests cannot mint two tokens for one value
\* (whitepaper.md:86-87), nor one token for two values (llm_router.py:42),
\* however they interleave, over the whole life of the session: its keys
\* outlive its configuration, counters expire and claims are lost.
TokensAreOneToOne ==
    ~overran => \A p, q \in issued : p.value = q.value <=> p.tok = q.tok

\* Lost updates of the map may leave a token in the answer, but never put
\* another individual in its place: what the vault holds for a token that a
\* request has sent is the value that request had replaced.
NeverSwapped ==
    ~overran =>
        \A r \in Requests : \A t \in DOMAIN req[r].sent \cap DOMAIN Map :
            Map[t] = req[r].sent[t]

\* If no merge overwrote another, every token in a prompt can be restored
\* until the vault expires, although requests fail half-way.
SentIsVaulted ==
    ~overran /\ ~clobbered /\ Live(vault) =>
        \A r \in Requests : DOMAIN req[r].sent \subseteq DOMAIN Map

\* whitepaper.md:98-100 "tokens are restored": every token in a prompt is in
\* the vault while that lives.
SentIsRestorable ==
    Live(vault) => \A r \in Requests : DOMAIN req[r].sent \subseteq DOMAIN Map
=============================================================================

---------------------------- MODULE KeyRotation ----------------------------
(***************************************************************************)
(* The secrets of the gateway and their rotation: the signing secrets of   *)
(* tokens (auth.py), the keys of the vault (redis_store.py), and the       *)
(* denylist (revocation.py).  Several instances share one Redis; each has  *)
(* the settings it read at its start.                                      *)
(* The operator follows the runbook (docs/runbooks/ha-dr-runbook.md): new  *)
(* value in, old value to the previous ones, instances restarted one by    *)
(* one, the old value dropped when no instance has used it for Grace.      *)
(* Secrets are numbered in the order they are generated; 0 is a setting    *)
(* that is empty.                                                          *)
(***************************************************************************)
EXTENDS Naturals

CONSTANTS
    Instances,      \* gateway processes
    Tokens,         \* tokens that are watched
    TokenTTL,       \* jwt_ttl_hours
    SessionTTL,     \* SessionStore.TTL
    Grace,          \* how long a secret that nobody uses is kept
    MaxSecrets,     \* bound on secrets
    MaxClock        \* bound on the clock

ASSUME TimesAssumption ==
    /\ TokenTTL \in Nat /\ SessionTTL \in Nat \ {0} /\ Grace \in Nat
    /\ MaxClock \in Nat /\ MaxSecrets \in Nat

VARIABLES
    clock,
    env,            \* the environment: what an instance that starts will read
    settings,       \* settings[i]: what instance i has read
    generated,      \* the secrets generated so far
    retired,        \* retired[s]: when the last instance stopped using s
    token,          \* token[t]: the secret it is signed with, its exp
    denied,         \* denied[t]: when its denylist entry dies, 0 without one
    stored,         \* stored[k]: the key a value in the vault is under, when it dies
    hidden          \* secrets in their grace when the vault got its own key

rotationVars == <<clock, env, settings, generated, retired, token, denied, stored,
          hidden>>

Secrets == 1..MaxSecrets

\* The API key of the provider config, and the token map.
Kinds == {"provider", "tokens"}

Settings ==
    [jwt : Secrets, jwtPrevious : SUBSET Secrets,
     encryption : Secrets \cup {0}, encryptionPrevious : SUBSET Secrets]

Nothing == [secret |-> 0, dies |-> 0]

Value == [secret : Secrets \cup {0}, dies : Nat]
-----------------------------------------------------------------------------
\* Mutant of SigningSecrets: the current secret only.
CurrentSecret(s) == {s.jwt}

\* _signing_secrets.
SigningSecrets(s) == {s.jwt} \cup s.jwtPrevious

\* _get_multifernet: what is encrypted with, and what may decrypt.
VaultKey(s) == IF s.encryption # 0 THEN s.encryption ELSE s.jwt

\* Mutant of VaultKeys: previous keys of the vault only, without the fallback.
VaultKeysOwn(s) == {VaultKey(s)} \cup s.encryptionPrevious

VaultKeys(s) ==
    {VaultKey(s)} \cup
        (IF s.encryptionPrevious # {} THEN s.encryptionPrevious ELSE s.jwtPrevious)

\* Some instance signs or encrypts with secret.
Used(secret, running) ==
    \E i \in Instances : secret \in {running[i].jwt, VaultKey(running[i])}

\* A deployment that has run for a while, with or without a key of its own
\* for the vault.
RotationInit ==
    /\ clock = 0
    /\ env \in {s \in Settings :
                  /\ s.jwt = 1 /\ s.jwtPrevious = {} /\ s.encryptionPrevious = {}
                  /\ s.encryption \in {0, 2}}
    /\ settings = [i \in Instances |-> env]
    /\ generated = 2
    /\ retired = [s \in Secrets |-> 0]
    /\ token = [t \in Tokens |-> Nothing]
    /\ denied = [t \in Tokens |-> 0]
    /\ stored = [k \in Kinds |-> Nothing]
    /\ hidden = {}

Elapse ==
    /\ clock < MaxClock
    /\ clock' = clock + 1
    /\ stored' = [k \in Kinds |-> IF clock' < stored[k].dies THEN stored[k] ELSE Nothing]
    /\ UNCHANGED <<env, settings, generated, retired, token, denied, hidden>>
-----------------------------------------------------------------------------
\* The operator.

Generate ==
    /\ generated < MaxSecrets
    /\ generated' = generated + 1

RotateSigning ==
    /\ Generate
    /\ env' = [env EXCEPT !.jwt = generated + 1, !.jwtPrevious = @ \cup {env.jwt}]
    /\ UNCHANGED <<clock, settings, retired, token, denied, stored, hidden>>

\* The vault's key; the first time it takes the place of the signing secret.
RotateVault ==
    /\ Generate
    /\ env' = [env EXCEPT !.encryption = generated + 1,
                          !.encryptionPrevious = @ \cup {VaultKey(env)}]
    /\ hidden' = IF env.encryption = 0 THEN hidden \cup env.jwtPrevious ELSE hidden
    /\ UNCHANGED <<clock, settings, retired, token, denied, stored>>

GraceOver(secret) == ~Used(secret, settings) /\ clock >= retired[secret] + Grace

DropSigning(secret) ==
    /\ secret \in env.jwtPrevious
    /\ GraceOver(secret)
    /\ env' = [env EXCEPT !.jwtPrevious = @ \ {secret}]
    /\ UNCHANGED <<clock, settings, generated, retired, token, denied, stored, hidden>>

DropVault(secret) ==
    /\ secret \in env.encryptionPrevious
    /\ GraceOver(secret)
    /\ env' = [env EXCEPT !.encryptionPrevious = @ \ {secret}]
    /\ UNCHANGED <<clock, settings, generated, retired, token, denied, stored, hidden>>

Restart(i) ==
    /\ settings[i] # env
    /\ settings' = [settings EXCEPT ![i] = env]
    /\ retired' = [s \in Secrets |->
                      IF Used(s, settings) /\ ~Used(s, settings') THEN clock ELSE retired[s]]
    /\ UNCHANGED <<clock, env, generated, token, denied, stored, hidden>>
-----------------------------------------------------------------------------
\* The gateway.

\* issue_token, with a jti of its own.
Issue(i, t) ==
    /\ token' = [token EXCEPT ![t] = [secret |-> settings[i].jwt, dies |-> clock + TokenTTL]]
    /\ denied' = [denied EXCEPT ![t] = 0]
    /\ UNCHANGED <<clock, env, settings, generated, retired, stored, hidden>>

\* validate_token and is_revoked, at instance i.
Expired(t) == clock >= token[t].dies

Signed(i, t) == token[t].secret \in SigningSecrets(settings[i])

OnDenylist(t) == clock < denied[t]

Accepted(i, t) == ~Expired(t) /\ Signed(i, t) /\ ~OnDenylist(t)

\* Mutant of Remaining: the smaller of the two.
RemainingMin(t) == IF token[t].dies > clock + 1 THEN 1 ELSE token[t].dies - clock

\* max(int(ttl_seconds), 1), for what is left of the token's life.
Remaining(t) == IF token[t].dies > clock + 1 THEN token[t].dies - clock ELSE 1

\* revoke.
Revoke(t) ==
    /\ token[t] # Nothing
    /\ denied' = [denied EXCEPT ![t] = clock + Remaining(t)]
    /\ UNCHANGED <<clock, env, settings, generated, retired, token, stored, hidden>>

\* Redis has dropped what has expired.
Alive(k) == stored[k] # Nothing

Readable(i, k) == stored[k].secret \in VaultKeys(settings[i])

Encrypt(i, k) ==
    /\ stored' = [stored EXCEPT ![k] =
                     [secret |-> VaultKey(settings[i]), dies |-> clock + SessionTTL]]
    /\ UNCHANGED <<clock, env, settings, generated, retired, token, denied, hidden>>

\* set_provider_config writes without reading.
Configure(i) == Encrypt(i, "provider")

\* update_token_map reads the map before it writes it: with a map that it
\* cannot decrypt the request ends here.
UpdateMap(i) == (Alive("tokens") => Readable(i, "tokens")) /\ Encrypt(i, "tokens")

Operator ==
    \/ RotateSigning \/ RotateVault
    \/ \E s \in Secrets : DropSigning(s) \/ DropVault(s)
    \/ \E i \in Instances : Restart(i)

Gateway ==
    \/ \E i \in Instances : Configure(i) \/ UpdateMap(i)
    \/ \E i \in Instances, t \in Tokens : Issue(i, t)
    \/ \E t \in Tokens : Revoke(t)

RotationNext == Elapse \/ Operator \/ Gateway

RotationSpec == RotationInit /\ [][RotationNext]_rotationVars
-----------------------------------------------------------------------------
TypeOK ==
    /\ clock \in Nat
    /\ env \in Settings
    /\ settings \in [Instances -> Settings]
    /\ generated \in Nat
    /\ retired \in [Secrets -> Nat]
    /\ token \in [Tokens -> Value]
    /\ denied \in [Tokens -> Nat]
    /\ stored \in [Kinds -> Value]
    /\ hidden \subseteq Secrets

Revoked(t) == denied[t] # 0

\* With a grace as long as a token's life, a token in flight is refused by no
\* instance but one that has not yet read the secret it is signed with,
\* through any number of rotations, restarts and drops, half done or not.
RefusedOnlyByOlder ==
    \A i \in Instances, t \in Tokens :
        ~Expired(t) /\ ~Revoked(t) /\ ~Accepted(i, t)
            => token[t].secret > settings[i].jwt

\* A token that was revoked is never accepted again, by any instance
\* (revocation.py:21: "at least its remaining lifetime").
RevokedStaysOut == \A i \in Instances, t \in Tokens : Revoked(t) => ~Accepted(i, t)

\* A value in the vault is unreadable only to an instance that is older than
\* its key, or when the vault got its first own key while an old signing
\* secret was in its grace: previous keys of the vault shut out those.
UnreadableOnlyToOlder ==
    \A i \in Instances, k \in Kinds :
        Alive(k) /\ ~Readable(i, k)
            => stored[k].secret > VaultKey(settings[i]) \/ stored[k].secret \in hidden
=============================================================================

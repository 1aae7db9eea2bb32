------------------------------ MODULE Waitlist ------------------------------
(***************************************************************************)
(* The waitlist: the form of the contact page (app/contact/page.tsx) and   *)
(* the route behind it (app/api/waitlist/route.ts) with its rate limit.    *)
(* Time passes between any two steps.  The map of hits is in the memory of *)
(* one instance, and a new instance starts without it.  accepted is not in *)
(* the code; the Retry-After of a refusal is left out.                     *)
(***************************************************************************)
EXTENDS Naturals, FiniteSets

CONSTANTS
    Visitors,       \* open contact pages
    Behind,         \* Behind[v]: the address of visitor v, as clientIp has it
    RateLimit,      \* RATE_LIMIT
    Window,         \* RATE_WINDOW_MS, in ticks
    MaxTime,        \* bound on the clock
    MaxInstances,   \* bound on restarts
    MaxPosts,       \* bound on requests
    None

ASSUME WaitlistAssumption ==
    /\ {RateLimit, Window} \subseteq Nat \ {0}
    /\ {MaxTime, MaxInstances, MaxPosts} \subseteq Nat
    /\ None \notin [count : Nat, resetAt : Nat]

VARIABLES
    now,
    instance,       \* number of the server instance
    hits,           \* hits[ip]: [count, resetAt] or None
    posts,          \* requests so far
    form,           \* form[v]: "idle", "loading", "ok" or "err"
    post,           \* post[v]: the request of visitor v and how far it is
    accepted        \* requests let through: [ip, instance, at, n]

waitlistVars == <<now, instance, hits, posts, form, post, accepted>>

Addresses == {Behind[v] : v \in Visitors}

WaitlistInit ==
    /\ now = 0
    /\ instance = 0
    /\ hits = [ip \in Addresses |-> None]
    /\ posts = 0
    /\ form = [v \in Visitors |-> "idle"]
    /\ post = [v \in Visitors |-> "none"]
    /\ accepted = {}

Tick ==
    /\ now < MaxTime
    /\ now' = now + 1
    /\ UNCHANGED <<instance, hits, posts, form, post, accepted>>

\* The form is gone once it is "ok", its button off while "loading".
ContactForm(v) == form[v] \in {"idle", "err"}

\* submit
Submit(v) ==
    /\ ContactForm(v)
    /\ post[v] = "none"
    /\ posts < MaxPosts
    /\ posts' = posts + 1
    /\ form' = [form EXCEPT ![v] = "loading"]
    /\ post' = [post EXCEPT ![v] = "sent"]
    /\ UNCHANGED <<now, instance, hits, accepted>>

\* Mutant of Fresh: resetAt is taken for the window's start.
FreshAtOnce(ip) == hits[ip] = None \/ now > hits[ip].resetAt - Window

\* A window has run out only after its last tick.
Fresh(ip) == hits[ip] = None \/ now > hits[ip].resetAt

\* rateLimited and the checks of the body, an entry that is not valid being
\* refused after it has been counted.
Admit(v) ==
    LET ip == Behind[v]
        count == IF Fresh(ip) THEN 1 ELSE hits[ip].count + 1
        resetAt == IF Fresh(ip) THEN now + Window ELSE hits[ip].resetAt
    IN
    /\ post[v] = "sent"
    /\ hits' = [hits EXCEPT ![ip] = [count |-> count, resetAt |-> resetAt]]
    /\ \/ /\ count > RateLimit
          /\ post' = [post EXCEPT ![v] = "refused"]
          /\ UNCHANGED accepted
       \/ /\ count <= RateLimit
          /\ accepted' = accepted \cup
                 {[ip |-> ip, instance |-> instance, at |-> now, n |-> count]}
          /\ \E answer \in {"refused", "notifying"} :
                post' = [post EXCEPT ![v] = answer]
    /\ UNCHANGED <<now, instance, posts, form>>

\* The mail has been sent, or has failed, or is switched off; the webhook is
\* not waited for.
Notify(v) ==
    /\ post[v] = "notifying"
    /\ post' = [post EXCEPT ![v] = "thanked"]
    /\ UNCHANGED <<now, instance, hits, posts, form, accepted>>

Answered(v) ==
    /\ post[v] \in {"refused", "thanked"}
    /\ form' = [form EXCEPT ![v] = IF post[v] = "thanked" THEN "ok" ELSE "err"]
    /\ post' = [post EXCEPT ![v] = "none"]
    /\ UNCHANGED <<now, instance, hits, posts, accepted>>

\* The request or its answer is lost; the visitor may try again.
Lost(v) ==
    /\ post[v] # "none"
    /\ form' = [form EXCEPT ![v] = "err"]
    /\ post' = [post EXCEPT ![v] = "none"]
    /\ UNCHANGED <<now, instance, hits, posts, accepted>>

\* A new instance: what was under way is lost with the old one.
Redeploy ==
    /\ instance < MaxInstances
    /\ instance' = instance + 1
    /\ hits' = [ip \in Addresses |-> None]
    /\ form' = [v \in Visitors |-> IF post[v] = "none" THEN form[v] ELSE "err"]
    /\ post' = [v \in Visitors |-> "none"]
    /\ UNCHANGED <<now, posts, accepted>>

WaitlistNext ==
    \/ Tick \/ Redeploy
    \/ \E v \in Visitors :
          Submit(v) \/ Admit(v) \/ Notify(v) \/ Answered(v) \/ Lost(v)

WaitlistSpec == WaitlistInit /\ [][WaitlistNext]_waitlistVars
-----------------------------------------------------------------------------
\* The requests of an address that an instance let through from t until a
\* window later.
Within(ip, i, t) ==
    {a \in accepted : a.ip = ip /\ a.instance = i /\ a.at \in t .. t + Window}

\* The limit holds for a window of its own: over any stretch as long as a
\* window, which may lie across the end of one, an instance lets through from
\* an address less than twice as much, as the request that opened the first
\* window is not in it; a restart starts the count again.
AtMostTwice ==
    \A ip \in Addresses, i \in 0..instance, t \in 0..now :
        Cardinality(Within(ip, i, t)) < 2 * RateLimit
=============================================================================

------------------------------ MODULE Connections ------------------------------
(***************************************************************************)
(* Tokens and the applications that issue them: consent, callback,         *)
(* refresh, disconnection, and the organisation's own provider apps        *)
(* (worker/fw/server.py, stores.py, oauth.py, xero.py, google.py), for one *)
(* organisation and one provider, which never changes.                     *)
(*                                                                         *)
(* Xero and Google differ: a Xero callback saves one connection for each   *)
(* organisation granted and records the app that issued its token; a       *)
(* Google callback saves the one mailbox granted, records no app, and, for *)
(* the inbox, adds a mailbox row and seeds the categories.                 *)
(*                                                                         *)
(* An app is a number, its place among the names in order; a client is the *)
(* credentials an app held at one time.  A tenant is what a token reads: a *)
(* Xero organisation, a mailbox.  Each transaction is an action, and calls *)
(* interleave; a call that raises, or whose host stops, ends (Die).        *)
(*                                                                         *)
(* External: who consents and to what; that a provider takes a code once,  *)
(* and takes a code or a refresh token only from the client it was issued  *)
(* to.  Left out: encryption, the platform having no client at all, and    *)
(* _fetch_tenant, for rows older than the callback that stores a tenant.   *)
(***************************************************************************)
EXTENDS Integers, Sequences, FiniteSets, Functions

CONSTANTS
    Providers,    \* which of "xero" and "google"
    Apps,         \* the names an app can have, numbered in their order
    Default,      \* the app called "default"
    Tenants,      \* what can be granted
    Slug,         \* what _slug makes of a tenant's name
    Capacity,     \* ORGS_PER_UNPUBLISHED_APP
    Calls,        \* threads serving requests
    MaxClients,   \* bound: credentials registered
    MaxConsents,  \* bound: consents started
    Deaths        \* whether a call may end at any step

NoApp == 0        \* no name: app_name is null, or absent
Platform == 0     \* the client of the environment

ASSUME AppsAssumption == Apps \subseteq Nat \ {NoApp} /\ Default \in Apps
ASSUME ProvidersAssumption == Providers \subseteq {"xero", "google"}
ASSUME BoundsAssumption ==
    /\ Capacity \in Nat /\ MaxClients \in Nat /\ MaxConsents \in Nat
    /\ Deaths \in BOOLEAN

VARIABLES
    provider,   \* the provider all this is about
    apps,       \* provider_apps: the client of each registered name
    conns,      \* connections: the row of each name
    mailboxes,  \* inbox_mailboxes: the addresses with a row
    seeded,     \* whether inbox_categories holds the shipped buckets
    consents,   \* consents started, with their row of oauth_states
    minted,     \* clients registered so far
    call,       \* where each call is, and its locals
    unplugged   \* history: mailboxes whose token went without them

vars == <<provider, apps, conns, mailboxes, seeded, consents, minted, call,
          unplugged>>

Clients == Platform..MaxClients
DefaultConn == <<"default">>
InboxConn(t) == <<"inbox", t>>
Names == {<<Slug[t]>> : t \in Tenants} \cup {<<Slug[t], t>> : t \in Tenants}
         \cup {DefaultConn} \cup {InboxConn(t) : t \in Tenants}
Delays == {"app", "name"}
Conn == [tenant : Tenants, app : Apps \cup {NoApp}, client : Clients,
         late : SUBSET Delays]
Consent == [app : Apps, inbox : BOOLEAN, client : Clients, row : BOOLEAN,
            spent : BOOLEAN]
Spent == [app |-> Default, inbox |-> FALSE, client |-> Platform, row |-> FALSE,
          spent |-> TRUE]

\* A call's locals: the app it is about, the client it resolved, the tenants
\* or names it has still to deal with, the names it found taken, the name and
\* tenant in hand; and, as history, what changed since it read them.
Idle == [pc |-> "idle", consent |-> 0, app |-> NoApp, client |-> Platform,
         inbox |-> FALSE, todo |-> {}, taken |-> {}, name |-> <<>>,
         tenant |-> {}, late |-> {}]
Steps == {"idle", "seen", "taken", "granted", "naming", "saving", "mailbox",
          "seed", "seeding", "refreshed", "clearing", "listing", "dropping",
          "unplug"}
Local == [pc : Steps, consent : 0..MaxConsents, app : Apps \cup {NoApp},
          client : Clients, inbox : BOOLEAN, todo : SUBSET (Tenants \cup Names),
          taken : SUBSET Names, name : Names \cup {<<>>},
          tenant : Tenants \cup {{}}, late : SUBSET Delays]

TypeOK ==
    /\ provider \in Providers
    /\ DOMAIN apps \subseteq Apps /\ apps \in [DOMAIN apps -> Clients]
    /\ DOMAIN conns \subseteq Names /\ conns \in [DOMAIN conns -> Conn]
    /\ mailboxes \subseteq Tenants /\ unplugged \subseteq Tenants
    /\ seeded \in BOOLEAN
    /\ consents \in Seq(Consent) /\ Len(consents) <= MaxConsents
    /\ minted \in 0..MaxClients
    /\ call \in [Calls -> Local]
    /\ \A c \in Calls :
        /\ call[c].pc = "idle" => call[c] = Idle
        /\ call[c].pc \in {"seen", "taken"} => call[c].consent \in DOMAIN consents
        /\ call[c].pc \in {"granted", "naming", "saving"} =>
              call[c].todo \subseteq Tenants
        /\ call[c].pc \in {"saving", "refreshed"} => call[c].name \in Names
        /\ call[c].pc \in {"saving", "mailbox", "refreshed", "unplug"} =>
              call[c].tenant \in Tenants
        /\ call[c].pc = "dropping" => call[c].todo \subseteq Names

Init ==
    /\ provider \in Providers
    /\ apps = <<>> /\ conns = <<>> /\ consents = <<>>
    /\ mailboxes = {} /\ unplugged = {} /\ seeded = FALSE /\ minted = 0
    /\ call = [c \in Calls |-> Idle]

(***************************************************************************)
(* Helpers                                                                 *)
(***************************************************************************)

\* _client: the named app's client if it is registered, the first app's if no
\* name is given, else the platform's.  Google's gives no name.
Issuer(app) ==
    IF app \in DOMAIN apps THEN apps[app]
    ELSE IF app = NoApp /\ apps # <<>>
         THEN apps[CHOOSE a \in DOMAIN apps : \A b \in DOMAIN apps : a <= b]
         ELSE Platform

\* ProviderAppStore.list: the distinct organisations an app is connected to.
Organisations(app) ==
    {conns[n].tenant : n \in {m \in DOMAIN conns : conns[m].app = app}}
Full(app) == Cardinality(Organisations(app)) >= Capacity

\* Mutant: an organisation already connected gets another row.
NamesForNewRow(t, taken) ==
    IF <<Slug[t]>> \in taken THEN {<<Slug[t], t>>} ELSE {<<Slug[t]>>}
\* Mutant: a slug that is taken is used again.
NamesForNoSuffix(t, taken) ==
    LET mine == {n \in DOMAIN conns : conns[n].tenant = t}
    IN IF mine # {} THEN mine ELSE {<<Slug[t]>>}
\* Mutant: where the slug is taken, the name is empty.
NamesForBlank(t, taken) ==
    LET mine == {n \in DOMAIN conns : conns[n].tenant = t}
    IN IF mine # {} THEN mine
       ELSE IF <<Slug[t]>> \in taken THEN {<<>>} ELSE {<<Slug[t]>>}
\* The names a callback may store a tenant under: the row the tenant has
\* already, else its slug, suffixed when the slug was taken.
NamesFor(t, taken) ==
    LET mine == {n \in DOMAIN conns : conns[n].tenant = t}
    IN IF mine # {} THEN mine
       ELSE IF <<Slug[t]>> \in taken THEN {<<Slug[t], t>>} ELSE {<<Slug[t]>>}

\* Mutant: only connections that record no app are dropped.
IssuedByUnnamed(app) ==
    IF app = NoApp THEN DOMAIN conns
    ELSE {n \in DOMAIN conns : conns[n].app = NoApp /\ app = Default}
\* _drop_connections: the connections of one app, all of them without a name.
IssuedBy(app) ==
    IF app = NoApp THEN DOMAIN conns
    ELSE {n \in DOMAIN conns :
            app = IF conns[n].app = NoApp THEN Default ELSE conns[n].app}

\* Calls that hold what they read of the apps or of the connections.
HoldsToken == {"granted", "naming", "saving", "refreshed"}
HoldsNames == IF provider = "xero" THEN {"naming", "saving", "refreshed"}
              ELSE {"mailbox"}

\* Call c goes on as `next`, and `what` changed under the others.
Overtake(c, next, what) ==
    call' = [d \in Calls |->
        IF d = c THEN next
        ELSE IF call[d].pc \in (IF what = "app" THEN HoldsToken ELSE HoldsNames)
             THEN [call[d] EXCEPT !.late = @ \cup {what}]
             ELSE call[d]]
Goto(c, next) == call' = [call EXCEPT ![c] = next]

\* Consents that have no row, and that no call has taken, are as good as spent.
Remembered(list, calls) ==
    [k \in DOMAIN list |->
        IF list[k].row \/ \E c \in Calls : calls[c].consent = k THEN list[k]
        ELSE Spent]

\* f with `value` at x.
With(f, x, value) == [y \in DOMAIN f \cup {x} |-> IF y = x THEN value ELSE f[y]]

\* A row keeps the mark of the call that named it, whoever writes it next.
Put(n, row) ==
    LET named == IF n \in DOMAIN conns THEN conns[n].late \cap {"name"} ELSE {}
    IN conns' = With(conns, n, [tenant |-> row.tenant, app |-> row.app,
                                client |-> row.client, late |-> row.late \cup named])
Delete(names) == conns' = Restrict(conns, DOMAIN conns \ names)

(***************************************************************************)
(* Consent                                                                 *)
(***************************************************************************)

\* start_xero, start_google and connect_mailbox: the consent goes to the
\* provider with the client of now.  put's sweep of expired rows is invisible.
Begin(app, inbox) ==
    /\ Len(consents) < MaxConsents
    /\ consents' = Append(consents,
                          [app |-> IF app = NoApp THEN Default ELSE app,
                           inbox |-> inbox, client |-> Issuer(app),
                           row |-> TRUE, spent |-> FALSE])
    /\ UNCHANGED <<provider, apps, conns, mailboxes, seeded, minted, call,
                   unplugged>>

StartXero(a) ==
    /\ provider = "xero"
    /\ IF apps = <<>> THEN a = NoApp ELSE a \in DOMAIN apps /\ ~Full(a)
    /\ Begin(a, FALSE)

StartGoogle(inbox) == provider = "google" /\ Begin(NoApp, inbox)

\* Ten minutes pass: take answers None from now on, so the row is as good as
\* gone.
Expire(k) ==
    /\ consents[k].row
    /\ consents' = Remembered([consents EXCEPT ![k].row = FALSE], call)
    /\ UNCHANGED <<provider, apps, conns, mailboxes, seeded, minted, call,
                   unplugged>>

\* OAuthStateStore.take: the row is read, then deleted; the deletion does not
\* say whether it found the row.
TakeRead(c, k) ==
    /\ call[c].pc = "idle" /\ consents[k].row
    /\ Goto(c, [Idle EXCEPT !.pc = "seen", !.consent = k])
    /\ UNCHANGED <<provider, apps, conns, mailboxes, seeded, consents, minted,
                   unplugged>>

TakeDelete(c) ==
    /\ call[c].pc = "seen"
    /\ consents' = [consents EXCEPT ![call[c].consent].row = FALSE]
    /\ Goto(c, [call[c] EXCEPT !.pc = "taken"])
    /\ UNCHANGED <<provider, apps, conns, mailboxes, seeded, minted, unplugged>>

\* exchange resolves the client again.  Granted is what the person granted.
Exchange(c, granted) ==
    LET k == call[c].consent
        app == IF provider = "xero" /\ apps # <<>> THEN consents[k].app
               ELSE NoApp
    IN /\ call[c].pc = "taken"
       /\ provider = "google" => Cardinality(granted) = 1
       /\ IF /\ granted # {}
             /\ Issuer(app) = consents[k].client /\ ~consents[k].spent
          THEN /\ consents' = [consents EXCEPT ![k] = Spent]
               /\ Goto(c, [Idle EXCEPT !.pc = "granted", !.app = app,
                               !.client = Issuer(app), !.todo = granted,
                               !.inbox = consents[k].inbox])
          ELSE /\ Goto(c, Idle)
               /\ consents' = Remembered(consents, call')
       /\ UNCHANGED <<provider, apps, conns, mailboxes, seeded, minted,
                      unplugged>>

\* xero_callback, once: the names in use before any of its tenants is saved.
ReadNames(c) ==
    /\ provider = "xero" /\ call[c].pc = "granted"
    /\ Goto(c, [call[c] EXCEPT !.pc = "naming", !.taken = DOMAIN conns])
    /\ UNCHANGED <<provider, apps, conns, mailboxes, seeded, consents, minted,
                   unplugged>>

\* For each tenant: its name, by a list read anew; then its row.
NameTenant(c, t) ==
    /\ call[c].pc = "naming" /\ t \in call[c].todo
    /\ \E n \in NamesFor(t, call[c].taken) :
        Goto(c, [call[c] EXCEPT !.pc = "saving", !.name = n, !.tenant = t,
                                !.taken = @ \cup {n}])
    /\ UNCHANGED <<provider, apps, conns, mailboxes, seeded, consents, minted,
                   unplugged>>

SaveTenant(c) ==
    LET rest == call[c].todo \ {call[c].tenant} IN
    /\ call[c].pc = "saving"
    /\ Put(call[c].name, [tenant |-> call[c].tenant, app |-> call[c].app,
                          client |-> call[c].client, late |-> call[c].late])
    /\ Overtake(c, IF rest = {} THEN Idle
                   ELSE [call[c] EXCEPT !.pc = "naming", !.todo = rest,
                                        !.name = <<>>, !.tenant = {}], "name")
    /\ UNCHANGED <<provider, apps, mailboxes, seeded, consents, minted,
                   unplugged>>

\* Mutant: what the consent was for is forgotten.
SaveMailboxTokenDefault(c, t) ==
    LET inbox == call[c].inbox IN
    /\ provider = "google" /\ call[c].pc = "granted" /\ t \in call[c].todo
    /\ Put(DefaultConn, [tenant |-> t, app |-> NoApp, client |-> call[c].client,
                         late |-> call[c].late])
    /\ Overtake(c, IF inbox THEN [Idle EXCEPT !.pc = "mailbox", !.tenant = t]
                   ELSE Idle, "name")
    /\ UNCHANGED <<provider, apps, mailboxes, seeded, consents, minted,
                   unplugged>>
\* google_callback: the connection, then, for the inbox, the mailbox, then the
\* categories that are missing, which are read and inserted apart.
SaveMailboxToken(c, t) ==
    LET inbox == call[c].inbox IN
    /\ provider = "google" /\ call[c].pc = "granted" /\ t \in call[c].todo
    /\ Put(IF inbox THEN InboxConn(t) ELSE DefaultConn,
           [tenant |-> t, app |-> NoApp, client |-> call[c].client,
            late |-> call[c].late])
    /\ Overtake(c, IF inbox THEN [Idle EXCEPT !.pc = "mailbox", !.tenant = t]
                   ELSE Idle, "name")
    /\ UNCHANGED <<provider, apps, mailboxes, seeded, consents, minted,
                   unplugged>>

UpsertMailbox(c) ==
    /\ call[c].pc = "mailbox"
    /\ mailboxes' = mailboxes \cup {call[c].tenant}
    /\ unplugged' = IF /\ "name" \in call[c].late
                       /\ InboxConn(call[c].tenant) \notin DOMAIN conns
                    THEN unplugged \cup {call[c].tenant}
                    ELSE unplugged \ {call[c].tenant}
    /\ Goto(c, [Idle EXCEPT !.pc = "seed"])
    /\ UNCHANGED <<provider, apps, conns, seeded, consents, minted>>

ReadCategories(c) ==
    /\ call[c].pc = "seed"
    /\ Goto(c, IF seeded THEN Idle ELSE [call[c] EXCEPT !.pc = "seeding"])
    /\ UNCHANGED <<provider, apps, conns, mailboxes, seeded, consents, minted,
                   unplugged>>

\* unique(org_id, key) fails the second of two that found none.
SeedCategories(c) ==
    /\ call[c].pc = "seeding"
    /\ seeded' = TRUE
    /\ Goto(c, Idle)
    /\ UNCHANGED <<provider, apps, conns, mailboxes, consents, minted,
                   unplugged>>

(***************************************************************************)
(* Refresh and disconnection                                               *)
(***************************************************************************)

\* xero() and access_token() on an expired token: load, resolve the client and
\* post.  A refusal changes nothing; the answer is saved later.
Refresh(c, n) ==
    /\ call[c].pc = "idle" /\ n \in DOMAIN conns
    /\ Issuer(conns[n].app) = conns[n].client
    /\ Goto(c, [Idle EXCEPT !.pc = "refreshed", !.name = n,
                    !.app = conns[n].app, !.tenant = conns[n].tenant,
                    !.client = conns[n].client, !.late = conns[n].late])
    /\ UNCHANGED <<provider, apps, conns, mailboxes, seeded, consents, minted,
                   unplugged>>

\* save is an upsert: a row deleted meanwhile is inserted again.
SaveRefreshed(c) ==
    /\ call[c].pc = "refreshed"
    /\ Put(call[c].name, [tenant |-> call[c].tenant, app |-> call[c].app,
                          client |-> call[c].client, late |-> call[c].late])
    /\ Overtake(c, Idle, "name")
    /\ UNCHANGED <<provider, apps, mailboxes, seeded, consents, minted,
                   unplugged>>

\* DELETE /connections/{name} is for Xero, /connections/google for the default.
Disconnect(c, n) ==
    /\ call[c].pc = "idle" /\ n \in DOMAIN conns
    /\ provider = "google" => n = DefaultConn
    /\ Delete({n})
    /\ Overtake(c, Idle, "name")
    /\ UNCHANGED <<provider, apps, mailboxes, seeded, consents, minted,
                   unplugged>>

\* remove_mailbox: the row, then its token.
RemoveMailbox(c, t) ==
    /\ call[c].pc = "idle" /\ t \in mailboxes
    /\ mailboxes' = mailboxes \ {t}
    /\ unplugged' = unplugged \ {t}
    /\ Goto(c, [Idle EXCEPT !.pc = "unplug", !.tenant = t])
    /\ UNCHANGED <<provider, apps, conns, seeded, consents, minted>>

Unplug(c) ==
    /\ call[c].pc = "unplug"
    /\ Delete({InboxConn(call[c].tenant)})
    /\ unplugged' = unplugged \cup (mailboxes \cap {call[c].tenant})
    /\ Overtake(c, Idle, "name")
    /\ UNCHANGED <<provider, apps, mailboxes, seeded, consents, minted>>

(***************************************************************************)
(* The organisation's own apps                                             *)
(***************************************************************************)

\* save_provider_app: the app's new credentials, then its connections go.
SaveApp(c, a) ==
    /\ call[c].pc = "idle" /\ minted < MaxClients
    /\ minted' = minted + 1
    /\ apps' = With(apps, a, minted + 1)
    /\ Overtake(c, [Idle EXCEPT !.pc = "listing", !.app = a], "app")
    /\ UNCHANGED <<provider, conns, mailboxes, seeded, consents, unplugged>>

\* clear_provider_app, of one app or of all (NoApp): refused while one holds
\* connections; then the apps go, then the connections.
CheckClear(c, a) ==
    /\ call[c].pc = "idle"
    /\ \A b \in DOMAIN apps : a \in {NoApp, b} => Organisations(b) = {}
    /\ Goto(c, [Idle EXCEPT !.pc = "clearing", !.app = a])
    /\ UNCHANGED <<provider, apps, conns, mailboxes, seeded, consents, minted,
                   unplugged>>

Clear(c) ==
    LET gone == {b \in DOMAIN apps : call[c].app \in {NoApp, b}} IN
    /\ call[c].pc = "clearing"
    /\ apps' = Restrict(apps, DOMAIN apps \ gone)
    /\ IF gone = {} THEN Goto(c, Idle)
       ELSE Overtake(c, [call[c] EXCEPT !.pc = "listing"], "app")
    /\ UNCHANGED <<provider, conns, mailboxes, seeded, consents, minted,
                   unplugged>>

ListIssued(c) ==
    LET names == IssuedBy(call[c].app) IN
    /\ call[c].pc = "listing"
    /\ Goto(c, IF names = {} THEN Idle
               ELSE [Idle EXCEPT !.pc = "dropping", !.todo = names])
    /\ UNCHANGED <<provider, apps, conns, mailboxes, seeded, consents, minted,
                   unplugged>>

DropOne(c, n) ==
    /\ call[c].pc = "dropping" /\ n \in call[c].todo
    /\ Delete({n})
    /\ unplugged' = unplugged \cup {t \in mailboxes : n = InboxConn(t)}
    /\ Overtake(c, IF call[c].todo = {n} THEN Idle
                   ELSE [call[c] EXCEPT !.todo = @ \ {n}], "name")
    /\ UNCHANGED <<provider, apps, mailboxes, seeded, consents, minted>>

\* A call ends where it is; what it had still to drop stays.
Die(c) ==
    LET left == CASE call[c].pc = "listing" -> IssuedBy(call[c].app)
                  [] call[c].pc = "dropping" -> call[c].todo
                  [] OTHER -> {}
    IN /\ Deaths /\ call[c].pc # "idle"
       /\ Goto(c, Idle)
       /\ conns' = [n \in DOMAIN conns |->
                      IF n \in left THEN [conns[n] EXCEPT !.late = @ \cup {"app"}]
                      ELSE conns[n]]
       /\ consents' = Remembered(consents, call')
       /\ UNCHANGED <<provider, apps, mailboxes, seeded, minted, unplugged>>

Next ==
    \/ \E a \in Apps \cup {NoApp} : StartXero(a)
    \/ \E inbox \in BOOLEAN : StartGoogle(inbox)
    \/ \E k \in DOMAIN consents : Expire(k)
    \/ \E c \in Calls :
        \/ \E k \in DOMAIN consents : TakeRead(c, k)
        \/ TakeDelete(c) \/ ReadNames(c) \/ SaveTenant(c)
        \/ \E granted \in SUBSET Tenants : Exchange(c, granted)
        \/ \E t \in Tenants :
            NameTenant(c, t) \/ SaveMailboxToken(c, t) \/ RemoveMailbox(c, t)
        \/ UpsertMailbox(c) \/ ReadCategories(c) \/ SeedCategories(c)
        \/ \E n \in DOMAIN conns : Refresh(c, n) \/ Disconnect(c, n)
        \/ SaveRefreshed(c) \/ Unplug(c)
        \/ \E a \in Apps : SaveApp(c, a)
        \/ \E a \in DOMAIN apps \cup {NoApp} : CheckClear(c, a)
        \/ Clear(c) \/ ListIssued(c) \/ Die(c)
        \/ \E n \in call[c].todo : DropOne(c, n)

Spec == Init /\ [][Next]_vars

(***************************************************************************)
(* Properties                                                              *)
(***************************************************************************)

\* No app change is between its write and the last of its drops.
Quiet == \A c \in Calls : call[c].pc \notin {"listing", "dropping"}

\* A Xero token that names its app is one that app's client of today can
\* refresh, unless the app was changed between the token's request and its
\* row, or the worker stopped while it dropped the app's connections
\* (xero.py, _refresh; server.py, _drop_connections).
IssuerIsKept ==
    provider = "xero" /\ Quiet =>
        \A n \in DOMAIN conns :
            conns[n].app # NoApp /\ "app" \notin conns[n].late =>
                Issuer(conns[n].app) = conns[n].client

\* The name a workflow's parameter stores goes on meaning the same Xero
\* organisation while it is connected; only a call that read the names before
\* another's write can turn it to a second one (server.py, xero_callback).
NameKeepsTenant ==
    [][provider = "xero" =>
        \A n \in DOMAIN conns \cap DOMAIN conns' :
            conns'[n].tenant # conns[n].tenant =>
                \E c \in Calls : "name" \in call[c].late /\ call'[c] # call[c]]_vars

\* A Xero organisation has one connection, however often it is granted, unless
\* one of the two was saved by a call another's write had overtaken
\* (server.py, xero_callback).
OneRowPerTenant ==
    provider = "xero" =>
        \A m, n \in DOMAIN conns :
            conns[m].tenant = conns[n].tenant =>
                m = n \/ "name" \in conns[m].late \cup conns[n].late

\* A mailbox on the inbox screen has its token, unless the app was changed or
\* the mailbox was removed while it was being connected (server.py,
\* google_callback; inbox/api.py, remove_mailbox).
MailboxHasToken ==
    \A t \in mailboxes : InboxConn(t) \in DOMAIN conns \/ t \in unplugged

(***************************************************************************)
(* What the documentation promises                                         *)
(***************************************************************************)

\* server.py, clear_provider_app: "Refused while any connection still depends
\* on it. A refresh token cannot outlive the client that issued it".
NoTokenOutlivesItsClient ==
    Quiet => \A n \in DOMAIN conns :
        "app" \in conns[n].late \/ Issuer(conns[n].app) = conns[n].client
================================================================================

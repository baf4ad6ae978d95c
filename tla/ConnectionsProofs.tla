--------------------------- MODULE ConnectionsProofs ---------------------------
(***************************************************************************)
(* Proofs about Connections, for either provider and any apps, tenants,    *)
(* slugs, threads and bounds.                                              *)
(***************************************************************************)
EXTENDS Connections, WellFoundedInduction, TLAPS

(***************************************************************************)
(* The inductive invariant.                                                *)
(***************************************************************************)

\* A Xero callback is Xero's, the mailbox's is Google's.
SideInv(l) ==
    /\ l.pc \in {"naming", "saving"} => provider = "xero"
    /\ l.pc = "mailbox" => provider = "google"

\* What a call holds, if no app changed since, its app can still refresh.
HolderInv(l) ==
    l.pc \in HoldsToken /\ l.app # NoApp /\ "app" \notin l.late =>
        Issuer(l.app) = l.client

\* An app's change is about to drop this connection.
Dooms(l, n) ==
    \/ l.pc = "listing" /\ n \in IssuedBy(l.app)
    \/ l.pc = "dropping" /\ n \in l.todo
Doomed(n) == \E c \in Calls : Dooms(call[c], n)

RowInv(n) ==
    conns[n].app # NoApp /\ "app" \notin conns[n].late =>
        Issuer(conns[n].app) = conns[n].client \/ Doomed(n)

\* A suffixed name is only ever its own tenant's.
Owns(n, t) == Len(n) = 2 => n[2] = t

\* A call that nobody overtook knows every name there is, and has found the row
\* of the tenant in hand, if it has one, or else a name nobody has.
NamedInv(l) ==
    /\ l.pc \in {"saving", "refreshed"} => Owns(l.name, l.tenant)
    /\ "name" \notin l.late =>
        /\ l.pc \in {"naming", "saving"} => DOMAIN conns \subseteq l.taken
        /\ l.pc = "saving" => l.name \in l.taken
        /\ l.pc \in {"saving", "refreshed"} =>
              /\ l.name \in DOMAIN conns => conns[l.name].tenant = l.tenant
              /\ \A n \in DOMAIN conns :
                    conns[n].tenant = l.tenant => l.name \in DOMAIN conns

PairInv(m, n) ==
    conns[m].tenant = conns[n].tenant =>
        m = n \/ "name" \in conns[m].late \cup conns[n].late

\* The token of a mailbox about to be connected is there, or was taken away.
TokenInv(l) ==
    l.pc = "mailbox" /\ "name" \notin l.late => InboxConn(l.tenant) \in DOMAIN conns

AppInv ==
    /\ \A c \in Calls : HolderInv(call[c])
    /\ \A n \in DOMAIN conns : RowInv(n)

NameInv ==
    provider = "xero" =>
        /\ \A c \in Calls : NamedInv(call[c])
        /\ \A n \in DOMAIN conns : Owns(n, conns[n].tenant)
        /\ \A m, n \in DOMAIN conns : PairInv(m, n)

MailInv ==
    /\ \A c \in Calls : SideInv(call[c]) /\ TokenInv(call[c])
    /\ provider = "xero" => mailboxes = {}
    /\ MailboxHasToken

IInv == TypeOK /\ AppInv /\ NameInv /\ MailInv

(***************************************************************************)
(* Type correctness.                                                       *)
(***************************************************************************)

USE AppsAssumption, ProvidersAssumption, BoundsAssumption

\* A call's locals, when the consents are D.
LocalOK(l, D) ==
    /\ l \in Local
    /\ l.pc = "idle" => l = Idle
    /\ l.pc \in {"seen", "taken"} => l.consent \in D
    /\ l.pc \in {"granted", "naming", "saving"} => l.todo \subseteq Tenants
    /\ l.pc \in {"saving", "refreshed"} => l.name \in Names
    /\ l.pc \in {"saving", "mailbox", "refreshed", "unplug"} => l.tenant \in Tenants
    /\ l.pc = "dropping" => l.todo \subseteq Names

LEMMA ClientsHold == Platform \in Clients /\ \A m \in 0..MaxClients : m \in Clients
BY DEF Platform, Clients

LEMMA IdleOK == ASSUME NEW D PROVE LocalOK(Idle, D)
<1>1. Idle \in Local
    BY ClientsHold DEF Idle, Local, Steps
<1> QED
    BY <1>1 DEF LocalOK, Idle

LEMMA TypeCalls ==
    ASSUME TypeOK, NEW c \in Calls
    PROVE  LocalOK(call[c], DOMAIN consents)
BY DEF TypeOK, LocalOK

\* Being overtaken is no step of the call's own.
LEMMA LateOK ==
    ASSUME NEW l, NEW D, LocalOK(l, D), l.pc # "idle", NEW what \in Delays
    PROVE  LET m == [l EXCEPT !.late = @ \cup {what}]
           IN  /\ LocalOK(m, D)
               /\ m.pc = l.pc /\ m.consent = l.consent /\ m.app = l.app
               /\ m.client = l.client /\ m.inbox = l.inbox /\ m.todo = l.todo
               /\ m.taken = l.taken /\ m.name = l.name /\ m.tenant = l.tenant
               /\ m.late = l.late \cup {what}
<1> DEFINE m == [l EXCEPT !.late = @ \cup {what}]
<1>1. l \in Local
    BY DEF LocalOK
<1>2. m \in Local
    BY <1>1 DEF Local
<1>3. /\ m.pc = l.pc /\ m.consent = l.consent /\ m.app = l.app
      /\ m.client = l.client /\ m.inbox = l.inbox /\ m.todo = l.todo
      /\ m.taken = l.taken /\ m.name = l.name /\ m.tenant = l.tenant
      /\ m.late = l.late \cup {what}
    BY <1>1 DEF Local
<1> HIDE DEF m
<1>4. LocalOK(m, D)
    BY <1>2, <1>3 DEF LocalOK
<1> QED
    BY <1>3, <1>4 DEF m

CallsOK ==
    /\ call \in [Calls -> Local]
    /\ \A c \in Calls : LocalOK(call[c], DOMAIN consents)

LEMMA LocalGrows ==
    ASSUME NEW l, NEW D, NEW E, LocalOK(l, D), D \subseteq E
    PROVE  LocalOK(l, E)
BY DEF LocalOK

LEMMA GotoTypes ==
    ASSUME TypeOK, NEW c \in Calls, NEW next, LocalOK(next, DOMAIN consents'),
           DOMAIN consents \subseteq DOMAIN consents', Goto(c, next)
    PROVE  CallsOK'
<1>1. \A d \in Calls : LocalOK(call[d], DOMAIN consents')
    BY TypeCalls, LocalGrows
<1>2. call \in [Calls -> Local] /\ next \in Local
    BY DEF TypeOK, LocalOK
<1>3. call' = [call EXCEPT ![c] = next]
    BY DEF Goto
<1> QED
    BY <1>1, <1>2, <1>3 DEF CallsOK

LEMMA OvertakeTypes ==
    ASSUME TypeOK, NEW c \in Calls, NEW next, LocalOK(next, DOMAIN consents'),
           DOMAIN consents \subseteq DOMAIN consents', NEW what \in Delays,
           Overtake(c, next, what)
    PROVE  CallsOK'
<1>1. \A d \in Calls : LocalOK(call[d], DOMAIN consents')
    BY TypeCalls, LocalGrows
<1>2. \A d \in Calls : LocalOK(call'[d], DOMAIN consents')
  <2> TAKE d \in Calls
  <2>1. CASE d = c
    BY <2>1 DEF Overtake
  <2>2. CASE d # c /\ call'[d] = call[d]
    BY <1>1, <2>2
  <2>3. CASE d # c /\ call'[d] # call[d]
    <3>1. call[d].pc # "idle" /\ call'[d] = [call[d] EXCEPT !.late = @ \cup {what}]
      BY <2>3 DEF Overtake, HoldsToken, HoldsNames
    <3> QED
      BY <1>1, <3>1, LateOK
  <2> QED
    BY <2>1, <2>2, <2>3
<1>3. call' \in [Calls -> Local]
    BY <1>2 DEF Overtake, LocalOK
<1> QED
    BY <1>2, <1>3 DEF CallsOK

\* The least of the apps is one of them.
LEMMA LeastApp ==
    ASSUME NEW S, S \subseteq Nat, S # {}
    PROVE  (CHOOSE a \in S : \A b \in S : a <= b) \in S
<1> DEFINE Less == {ss \in Nat \X Nat : ss[1] < ss[2]}
<1>1. IsWellFoundedOn(Less, Nat)
    BY NatLessThanWellFounded DEF OpToRel
<1>2. \E x \in S : \A y \in S : <<y, x>> \notin Less
  <2> HIDE DEF Less
  <2> QED
    BY <1>1, WFMin
<1>3. \A x, y \in Nat : <<y, x>> \notin Less => x <= y
  <2> SUFFICES ASSUME NEW x \in Nat, NEW y \in Nat, y < x
               PROVE  <<y, x>> \in Less
    OBVIOUS
  <2>1. <<y, x>> \in Nat \X Nat
    OBVIOUS
  <2>2. <<y, x>>[1] < <<y, x>>[2]
    OBVIOUS
  <2> QED
    BY <2>1, <2>2
<1>4. QED
    BY <1>2, <1>3

LEMMA IssuerType == ASSUME TypeOK, NEW app PROVE Issuer(app) \in Clients
<1>1. DOMAIN apps \subseteq Apps /\ apps \in [DOMAIN apps -> Clients]
    BY DEF TypeOK
<1>2. DOMAIN apps = {} => apps = <<>>
    BY <1>1
<1>3. DOMAIN apps # {} =>
          (CHOOSE a \in DOMAIN apps : \A b \in DOMAIN apps : a <= b) \in DOMAIN apps
    BY <1>1, LeastApp
<1> QED
    BY <1>1, <1>2, <1>3, ClientsHold DEF Issuer

LEMMA SpentType == Spent \in Consent
BY ClientsHold DEF Spent, Consent

LEMMA RememberedType ==
    ASSUME NEW list \in Seq(Consent), NEW calls
    PROVE  /\ Remembered(list, calls) \in Seq(Consent)
           /\ DOMAIN Remembered(list, calls) = DOMAIN list
           /\ Len(Remembered(list, calls)) = Len(list)
<1>1. \A k \in DOMAIN list : list[k] \in Consent
    OBVIOUS
<1>2. Remembered(list, calls) \in [1..Len(list) -> Consent]
    BY <1>1, SpentType DEF Remembered
<1> QED
    BY <1>2


AppsOK == DOMAIN apps \subseteq Apps /\ apps \in [DOMAIN apps -> Clients]
ConnsOK == DOMAIN conns \subseteq Names /\ conns \in [DOMAIN conns -> Conn]
MailOK == /\ mailboxes \subseteq Tenants /\ unplugged \subseteq Tenants
          /\ seeded \in BOOLEAN
ConsentsOK == consents \in Seq(Consent) /\ Len(consents) <= MaxConsents

LEMMA TypeParts ==
    TypeOK => AppsOK /\ ConnsOK /\ MailOK /\ ConsentsOK /\ CallsOK
              /\ provider \in Providers /\ minted \in 0..MaxClients
<1> SUFFICES ASSUME TypeOK
             PROVE  AppsOK /\ ConnsOK /\ MailOK /\ ConsentsOK /\ CallsOK
                    /\ provider \in Providers /\ minted \in 0..MaxClients
    OBVIOUS
<1>1. CallsOK
    BY TypeCalls DEF TypeOK, CallsOK
<1> QED
    BY <1>1 DEF TypeOK, AppsOK, ConnsOK, MailOK, ConsentsOK

LEMMA TypeWhole ==
    AppsOK' /\ ConnsOK' /\ MailOK' /\ ConsentsOK' /\ CallsOK'
    /\ provider' \in Providers /\ minted' \in 0..MaxClients => TypeOK'
BY DEF TypeOK, AppsOK, ConnsOK, MailOK, ConsentsOK, CallsOK, LocalOK

\* Each part, left as it is.
LEMMA PartsKept ==
    /\ AppsOK /\ UNCHANGED apps => AppsOK'
    /\ ConnsOK /\ UNCHANGED conns => ConnsOK'
    /\ MailOK /\ UNCHANGED <<mailboxes, seeded, unplugged>> => MailOK'
    /\ ConsentsOK /\ UNCHANGED consents => ConsentsOK'
    /\ CallsOK /\ UNCHANGED <<call, consents>> => CallsOK'
BY DEF AppsOK, ConnsOK, MailOK, ConsentsOK, CallsOK

LEMMA PutType ==
    ASSUME TypeOK, NEW n \in Names, NEW row, row.tenant \in Tenants,
           row.app \in Apps \cup {NoApp}, row.client \in Clients,
           row.late \subseteq Delays, Put(n, row)
    PROVE  /\ ConnsOK'
           /\ DOMAIN conns' = DOMAIN conns \cup {n}
           /\ conns'[n].tenant = row.tenant /\ conns'[n].app = row.app
           /\ conns'[n].client = row.client
           /\ row.late \subseteq conns'[n].late
           /\ conns'[n].late \subseteq row.late \cup {"name"}
           /\ n \in DOMAIN conns /\ "name" \in conns[n].late
                 => "name" \in conns'[n].late
           /\ \A m \in DOMAIN conns : m # n => conns'[m] = conns[m]
<1> DEFINE named == IF n \in DOMAIN conns THEN conns[n].late \cap {"name"} ELSE {}
           new == [tenant |-> row.tenant, app |-> row.app,
                   client |-> row.client, late |-> row.late \cup named]
<1>1. conns' = With(conns, n, new)
    BY DEF Put
<1>2. new \in Conn
    BY DEF Conn, Delays
<1>3. DOMAIN conns \subseteq Names /\ conns \in [DOMAIN conns -> Conn]
    BY DEF TypeOK
<1>4. /\ new.tenant = row.tenant /\ new.app = row.app /\ new.client = row.client
      /\ row.late \subseteq new.late /\ new.late \subseteq row.late \cup {"name"}
      /\ n \in DOMAIN conns /\ "name" \in conns[n].late => "name" \in new.late
    OBVIOUS
<1> HIDE DEF new
<1>5. /\ DOMAIN conns' = DOMAIN conns \cup {n}
      /\ DOMAIN conns' \subseteq Names
      /\ conns' \in [DOMAIN conns' -> Conn]
      /\ conns'[n] = new
      /\ \A m \in DOMAIN conns : m # n => conns'[m] = conns[m]
  <2> DEFINE f == With(conns, n, new)
  <2>1. /\ DOMAIN f = DOMAIN conns \cup {n}
        /\ DOMAIN f \subseteq Names /\ f \in [DOMAIN f -> Conn] /\ f[n] = new
        /\ \A m \in DOMAIN conns : m # n => f[m] = conns[m]
    BY <1>2, <1>3 DEF With
  <2> HIDE DEF f
  <2>2. conns' = f
    BY <1>1 DEF f
  <2> QED
    BY <2>1, <2>2
<1> QED
    BY <1>4, <1>5 DEF ConnsOK

LEMMA DeleteType ==
    ASSUME TypeOK, NEW names, Delete(names)
    PROVE  /\ ConnsOK'
           /\ DOMAIN conns' = DOMAIN conns \ names
           /\ \A m \in DOMAIN conns \ names : conns'[m] = conns[m]
BY DEF TypeOK, ConnsOK, Delete, Restrict

LEMMA NamesForType ==
    ASSUME TypeOK, NEW t \in Tenants, NEW taken, NEW n \in NamesFor(t, taken)
    PROVE  n \in Names
BY DEF TypeOK, NamesFor, Names

LEMMA InboxName == \A t \in Tenants : InboxConn(t) \in Names
BY DEF Names
LEMMA DefaultName == DefaultConn \in Names
BY DEF Names

LEMMA ConsentTypes ==
    ASSUME TypeOK,
           \/ \E a \in Apps \cup {NoApp} : StartXero(a)
           \/ \E inbox \in BOOLEAN : StartGoogle(inbox)
           \/ \E k \in DOMAIN consents : Expire(k)
    PROVE  TypeOK'
<1>q. AppsOK /\ ConnsOK /\ MailOK /\ ConsentsOK /\ CallsOK
      /\ provider \in Providers /\ minted \in 0..MaxClients
    BY TypeParts
<1>1. ASSUME ConsentsOK', DOMAIN consents \subseteq DOMAIN consents',
             UNCHANGED <<provider, apps, conns, mailboxes, seeded, minted, call,
                         unplugged>>
      PROVE  TypeOK'
  <2>1. CallsOK'
    BY <1>q, <1>1, LocalGrows DEF CallsOK
  <2> QED
    BY <1>q, <1>1, <2>1, PartsKept, TypeWhole
<1>2. ASSUME NEW a \in Apps \cup {NoApp}, NEW inbox \in BOOLEAN, Begin(a, inbox)
      PROVE  TypeOK'
  <2> DEFINE new == [app |-> IF a = NoApp THEN Default ELSE a,
                     inbox |-> inbox, client |-> Issuer(a),
                     row |-> TRUE, spent |-> FALSE]
  <2>1. new \in Consent
    BY IssuerType DEF Consent
  <2>2. Len(consents) < MaxConsents /\ consents' = Append(consents, new)
    BY <1>2 DEF Begin
  <2> HIDE DEF new
  <2>3. ConsentsOK' /\ DOMAIN consents \subseteq DOMAIN consents'
    BY <1>q, <2>1, <2>2 DEF ConsentsOK
  <2> QED
    BY <1>1, <1>2, <2>3 DEF Begin
<1>3. ASSUME NEW k \in DOMAIN consents, Expire(k) PROVE TypeOK'
  <2> DEFINE list == [consents EXCEPT ![k].row = FALSE]
  <2>1. consents[k] \in Consent
    BY <1>q DEF ConsentsOK
  <2>2. [consents[k] EXCEPT !.row = FALSE] \in Consent
    BY <2>1 DEF Consent
  <2>3. list \in Seq(Consent) /\ DOMAIN list = DOMAIN consents
        /\ Len(list) = Len(consents)
    BY <1>q, <2>2 DEF ConsentsOK
  <2>4. consents' = Remembered(list, call)
    BY <1>3 DEF Expire
  <2> HIDE DEF list
  <2>5. ConsentsOK' /\ DOMAIN consents' = DOMAIN consents
    BY <1>q, <2>3, <2>4, RememberedType DEF ConsentsOK
  <2> QED
    BY <1>1, <1>3, <2>5 DEF Expire
<1> QED
    BY <1>2, <1>3 DEF StartXero, StartGoogle


LEMMA CallTypes ==
    ASSUME TypeOK, NEW c \in Calls,
           \/ \E k \in DOMAIN consents : TakeRead(c, k)
           \/ TakeDelete(c)
           \/ \E granted \in SUBSET Tenants : Exchange(c, granted)
           \/ ReadNames(c) \/ \E t \in Tenants : NameTenant(c, t)
           \/ SaveTenant(c)
           \/ \E t \in Tenants : SaveMailboxToken(c, t)
           \/ UpsertMailbox(c) \/ ReadCategories(c) \/ SeedCategories(c)
    PROVE  TypeOK'
<1> DEFINE l == call[c]
           D == DOMAIN consents
<1>q. AppsOK /\ ConnsOK /\ MailOK /\ ConsentsOK /\ CallsOK
      /\ provider \in Providers /\ minted \in 0..MaxClients
    BY TypeParts
<1>l. LocalOK(l, D) /\ l \in Local
    BY TypeCalls DEF LocalOK
<1>i. LocalOK(Idle, D)
    BY IdleOK
<1> HIDE DEF D
<1>g. ASSUME NEW next, LocalOK(next, D), Goto(c, next), D = DOMAIN consents'
      PROVE  CallsOK'
    BY <1>g, GotoTypes DEF D
<1>o. ASSUME NEW next, LocalOK(next, D), Overtake(c, next, "name"), UNCHANGED consents
      PROVE  CallsOK'
    BY <1>o, OvertakeTypes DEF D, Delays
<1>1. ASSUME NEW k \in DOMAIN consents, TakeRead(c, k) PROVE TypeOK'
  <2> DEFINE next == [Idle EXCEPT !.pc = "seen", !.consent = k]
  <2>1. k \in 0..MaxConsents
    BY <1>q DEF ConsentsOK
  <2>2. LocalOK(next, D)
    BY <1>i, <2>1 DEF LocalOK, Local, Idle, Steps, D
  <2> HIDE DEF next
  <2>3. CallsOK'
    BY <1>1, <1>g, <2>2 DEF TakeRead, next, D
  <2> QED
    BY <1>1, <1>q, <2>3, PartsKept, TypeWhole DEF TakeRead
<1>2. CASE TakeDelete(c)
  <2> DEFINE k == l.consent
             next == [l EXCEPT !.pc = "taken"]
  <2>1. l.pc = "seen" /\ k \in DOMAIN consents
    BY <1>2, <1>l DEF TakeDelete, LocalOK, D
  <2>2. consents[k] \in Consent
    BY <1>q, <2>1 DEF ConsentsOK
  <2>3. [consents[k] EXCEPT !.row = FALSE] \in Consent
    BY <2>2 DEF Consent
  <2>4. consents' = [consents EXCEPT ![k] = [consents[k] EXCEPT !.row = FALSE]]
    BY <1>2 DEF TakeDelete
  <2>5. ConsentsOK' /\ DOMAIN consents' = D
    BY <1>q, <2>1, <2>3, <2>4 DEF ConsentsOK, D
  <2>6. LocalOK(next, D)
    BY <1>l, <2>1 DEF LocalOK, Local, Steps, D
  <2> HIDE DEF next
  <2>7. CallsOK'
    BY <1>2, <1>g, <2>5, <2>6 DEF TakeDelete, next, l
  <2> QED
    BY <1>2, <1>q, <2>5, <2>7, PartsKept, TypeWhole DEF TakeDelete
<1>3. ASSUME NEW granted \in SUBSET Tenants, Exchange(c, granted) PROVE TypeOK'
  <2> DEFINE k == l.consent
             app == IF provider = "xero" /\ apps # <<>> THEN consents[k].app
                    ELSE NoApp
             next == [Idle EXCEPT !.pc = "granted", !.app = app,
                               !.client = Issuer(app), !.todo = granted,
                               !.inbox = consents[k].inbox]
  <2>1. l.pc = "taken" /\ k \in DOMAIN consents
    BY <1>3, <1>l DEF Exchange, LocalOK, D
  <2>2. consents[k] \in Consent
    BY <1>q, <2>1 DEF ConsentsOK
  <2>3. app \in Apps \cup {NoApp} /\ consents[k].inbox \in BOOLEAN
    BY <2>2 DEF Consent
  <2>4. Issuer(app) \in Clients
    BY IssuerType
  <2>5. LocalOK(next, D)
    <3>1. /\ next.pc = "granted" /\ next.app = app /\ next.todo = granted
          /\ next.client = Issuer(app) /\ next.inbox = consents[k].inbox
      BY DEF Idle
    <3>2. next \in Local
      BY <1>i, <2>3, <2>4 DEF LocalOK, Local, Steps
    <3> QED
      BY <3>1, <3>2 DEF LocalOK
  <2>6. \/ consents' = [consents EXCEPT ![k] = Spent] /\ Goto(c, next)
        \/ Goto(c, Idle) /\ consents' = Remembered(consents, call')
    BY <1>3 DEF Exchange
  <2> HIDE DEF next
  <2>7. ConsentsOK' /\ DOMAIN consents' = D
    <3>1. CASE consents' = [consents EXCEPT ![k] = Spent]
      BY <1>q, <2>1, <3>1, SpentType DEF ConsentsOK, D
    <3>2. CASE consents' = Remembered(consents, call')
      BY <1>q, <3>2, RememberedType DEF ConsentsOK, D
    <3> QED
      BY <2>6, <3>1, <3>2
  <2>8. CallsOK'
    BY <1>g, <1>i, <2>5, <2>6, <2>7
  <2> QED
    BY <1>3, <1>q, <2>7, <2>8, PartsKept, TypeWhole DEF Exchange
<1>4. CASE ReadNames(c)
  <2> DEFINE next == [l EXCEPT !.pc = "naming", !.taken = DOMAIN conns]
  <2>1. LocalOK(next, D)
    BY <1>4, <1>l, <1>q DEF ReadNames, LocalOK, Local, Steps, ConnsOK
  <2> HIDE DEF next
  <2>2. CallsOK'
    BY <1>4, <1>g, <2>1 DEF ReadNames, next, l, D
  <2> QED
    BY <1>4, <1>q, <2>2, PartsKept, TypeWhole DEF ReadNames
<1>5. ASSUME NEW t \in Tenants, NameTenant(c, t) PROVE TypeOK'
  <2>1. PICK n \in NamesFor(t, l.taken) :
            Goto(c, [l EXCEPT !.pc = "saving", !.name = n, !.tenant = t,
                              !.taken = @ \cup {n}])
    BY <1>5 DEF NameTenant
  <2>2. n \in Names
    BY NamesForType
  <2> DEFINE next == [l EXCEPT !.pc = "saving", !.name = n, !.tenant = t,
                               !.taken = @ \cup {n}]
  <2>3. LocalOK(next, D)
    BY <1>5, <1>l, <2>2 DEF NameTenant, LocalOK, Local, Steps
  <2> HIDE DEF next
  <2>4. CallsOK'
    BY <1>5, <1>g, <2>1, <2>3 DEF NameTenant, next, D
  <2> QED
    BY <1>5, <1>q, <2>4, PartsKept, TypeWhole DEF NameTenant
<1>6. CASE SaveTenant(c)
  <2> DEFINE rest == l.todo \ {l.tenant}
             next == [l EXCEPT !.pc = "naming", !.todo = rest,
                               !.name = <<>>, !.tenant = {}]
             row == [tenant |-> l.tenant, app |-> l.app, client |-> l.client,
                     late |-> l.late]
  <2>1. LocalOK(next, D)
    BY <1>6, <1>l DEF SaveTenant, LocalOK, Local, Steps
  <2>2. l.name \in Names /\ l.tenant \in Tenants /\ l.app \in Apps \cup {NoApp}
        /\ l.client \in Clients /\ l.late \subseteq Delays
    BY <1>6, <1>l DEF SaveTenant, LocalOK, Local
  <2>3. Put(l.name, row)
    BY <1>6 DEF SaveTenant
  <2>4. ConnsOK'
    <3>1. /\ row.tenant \in Tenants /\ row.app \in Apps \cup {NoApp}
          /\ row.client \in Clients /\ row.late \subseteq Delays
      BY <2>2
    <3> HIDE DEF row
    <3> QED
      BY <2>2, <2>3, <3>1, PutType
  <2>5. Overtake(c, IF rest = {} THEN Idle ELSE next, "name")
    BY <1>6 DEF SaveTenant
  <2> HIDE DEF next
  <2>6. UNCHANGED <<provider, apps, mailboxes, seeded, consents, minted, unplugged>>
    BY <1>6 DEF SaveTenant
  <2>7. CallsOK'
    BY <1>i, <1>o, <2>1, <2>5, <2>6
  <2> QED
    BY <1>q, <2>4, <2>6, <2>7, PartsKept, TypeWhole
<1>7. ASSUME NEW t \in Tenants, SaveMailboxToken(c, t) PROVE TypeOK'
  <2> DEFINE next == [Idle EXCEPT !.pc = "mailbox", !.tenant = t]
             row == [tenant |-> t, app |-> NoApp, client |-> l.client,
                     late |-> l.late]
             n == IF l.inbox THEN InboxConn(t) ELSE DefaultConn
  <2>1. LocalOK(next, D)
    BY <1>i DEF LocalOK, Local, Idle, Steps
  <2>2. n \in Names /\ l.client \in Clients /\ l.late \subseteq Delays
    BY <1>l, InboxName, DefaultName DEF Local
  <2>3. Put(n, row)
    BY <1>7 DEF SaveMailboxToken
  <2> HIDE DEF n
  <2>4. ConnsOK'
    BY <2>2, <2>3, PutType
  <2>5. Overtake(c, IF l.inbox THEN next ELSE Idle, "name")
    BY <1>7 DEF SaveMailboxToken
  <2> HIDE DEF next
  <2>6. UNCHANGED <<provider, apps, mailboxes, seeded, consents, minted, unplugged>>
    BY <1>7 DEF SaveMailboxToken
  <2>7. CallsOK'
    BY <1>i, <1>o, <2>1, <2>5, <2>6
  <2> QED
    BY <1>q, <2>4, <2>6, <2>7, PartsKept, TypeWhole
<1>8. CASE UpsertMailbox(c)
  <2> DEFINE next == [Idle EXCEPT !.pc = "seed"]
  <2>1. LocalOK(next, D)
    BY <1>i DEF LocalOK, Local, Idle, Steps
  <2> HIDE DEF next
  <2>2. CallsOK'
    BY <1>8, <1>g, <2>1 DEF UpsertMailbox, next, D
  <2>3. l.tenant \in Tenants
    BY <1>8, <1>l DEF UpsertMailbox, LocalOK
  <2>4. MailOK'
    BY <1>8, <1>q, <2>3 DEF UpsertMailbox, MailOK
  <2> QED
    BY <1>8, <1>q, <2>2, <2>4, PartsKept, TypeWhole DEF UpsertMailbox
<1>9. CASE ReadCategories(c)
  <2> DEFINE next == [l EXCEPT !.pc = "seeding"]
  <2>1. LocalOK(next, D)
    BY <1>9, <1>l DEF ReadCategories, LocalOK, Local, Steps
  <2> HIDE DEF next
  <2>2. CallsOK'
    BY <1>9, <1>g, <1>i, <2>1 DEF ReadCategories, next, l, D
  <2> QED
    BY <1>9, <1>q, <2>2, PartsKept, TypeWhole DEF ReadCategories
<1>10. CASE SeedCategories(c)
  <2>1. CallsOK'
    BY <1>10, <1>g, <1>i DEF SeedCategories, D
  <2>2. MailOK'
    BY <1>10, <1>q DEF SeedCategories, MailOK
  <2> QED
    BY <1>10, <1>q, <2>1, <2>2, PartsKept, TypeWhole DEF SeedCategories
<1> QED
    BY <1>1, <1>2, <1>3, <1>4, <1>5, <1>6, <1>7, <1>8, <1>9, <1>10


LEMMA OtherTypes ==
    ASSUME TypeOK, NEW c \in Calls,
           \/ \E n \in DOMAIN conns : Refresh(c, n) \/ Disconnect(c, n)
           \/ SaveRefreshed(c) \/ Unplug(c)
           \/ \E t \in Tenants : RemoveMailbox(c, t)
           \/ \E a \in Apps : SaveApp(c, a)
           \/ \E a \in DOMAIN apps \cup {NoApp} : CheckClear(c, a)
           \/ Clear(c) \/ ListIssued(c) \/ Die(c)
           \/ \E n \in call[c].todo : DropOne(c, n)
    PROVE  TypeOK'
<1> DEFINE l == call[c]
           D == DOMAIN consents
<1>q. AppsOK /\ ConnsOK /\ MailOK /\ ConsentsOK /\ CallsOK
      /\ provider \in Providers /\ minted \in 0..MaxClients
    BY TypeParts
<1>l. LocalOK(l, D) /\ l \in Local
    BY TypeCalls DEF LocalOK
<1>i. LocalOK(Idle, D)
    BY IdleOK
<1> HIDE DEF D
<1>g. ASSUME NEW next, LocalOK(next, D), Goto(c, next), D = DOMAIN consents'
      PROVE  CallsOK'
    BY <1>g, GotoTypes DEF D
<1>o. ASSUME NEW next, LocalOK(next, D), NEW what \in Delays,
             Overtake(c, next, what), UNCHANGED consents
      PROVE  CallsOK'
    BY <1>o, OvertakeTypes DEF D
<1>d. "name" \in Delays /\ "app" \in Delays
    BY DEF Delays
<1>1. ASSUME NEW n \in DOMAIN conns, Refresh(c, n) PROVE TypeOK'
  <2> DEFINE next == [Idle EXCEPT !.pc = "refreshed", !.name = n,
                         !.app = conns[n].app, !.tenant = conns[n].tenant,
                         !.client = conns[n].client, !.late = conns[n].late]
  <2>1. n \in Names /\ conns[n] \in Conn
    BY <1>q DEF ConnsOK
  <2>2. /\ conns[n].app \in Apps \cup {NoApp} /\ conns[n].tenant \in Tenants
        /\ conns[n].client \in Clients /\ conns[n].late \subseteq Delays
    BY <2>1 DEF Conn
  <2>3. next \in Local
    BY <1>i, <2>1, <2>2 DEF LocalOK, Local, Steps
  <2>4. next.pc = "refreshed" /\ next.name = n /\ next.tenant = conns[n].tenant
    BY DEF Idle
  <2> HIDE DEF next
  <2>5. LocalOK(next, D)
    BY <2>1, <2>2, <2>3, <2>4 DEF LocalOK
  <2>6. CallsOK'
    BY <1>1, <1>g, <2>5 DEF Refresh, next, D
  <2> QED
    BY <1>1, <1>q, <2>6, PartsKept, TypeWhole DEF Refresh
<1>2. ASSUME NEW n \in DOMAIN conns, Disconnect(c, n) PROVE TypeOK'
  <2>1. ConnsOK'
    BY <1>2, DeleteType DEF Disconnect
  <2>2. CallsOK'
    BY <1>2, <1>i, <1>o, <1>d DEF Disconnect
  <2> QED
    BY <1>2, <1>q, <2>1, <2>2, PartsKept, TypeWhole DEF Disconnect
<1>3. CASE SaveRefreshed(c)
  <2> DEFINE row == [tenant |-> l.tenant, app |-> l.app, client |-> l.client,
                     late |-> l.late]
  <2>1. /\ l.name \in Names
        /\ row.tenant \in Tenants /\ row.app \in Apps \cup {NoApp}
        /\ row.client \in Clients /\ row.late \subseteq Delays
    BY <1>3, <1>l DEF SaveRefreshed, LocalOK, Local
  <2>2. Put(l.name, row)
    BY <1>3 DEF SaveRefreshed
  <2> HIDE DEF row
  <2>3. ConnsOK'
    BY <2>1, <2>2, PutType
  <2>4. CallsOK'
    BY <1>3, <1>i, <1>o, <1>d DEF SaveRefreshed
  <2> QED
    BY <1>3, <1>q, <2>3, <2>4, PartsKept, TypeWhole DEF SaveRefreshed
<1>4. CASE Unplug(c)
  <2>1. ConnsOK'
    BY <1>4, DeleteType DEF Unplug
  <2>2. CallsOK'
    BY <1>4, <1>i, <1>o, <1>d DEF Unplug
  <2>3. MailOK'
    BY <1>4, <1>q DEF Unplug, MailOK
  <2> QED
    BY <1>4, <1>q, <2>1, <2>2, <2>3, PartsKept, TypeWhole DEF Unplug
<1>5. ASSUME NEW t \in Tenants, RemoveMailbox(c, t) PROVE TypeOK'
  <2> DEFINE next == [Idle EXCEPT !.pc = "unplug", !.tenant = t]
  <2>1. LocalOK(next, D)
    BY <1>i DEF LocalOK, Local, Idle, Steps
  <2> HIDE DEF next
  <2>2. CallsOK'
    BY <1>5, <1>g, <2>1 DEF RemoveMailbox, next, D
  <2>3. MailOK'
    BY <1>5, <1>q DEF RemoveMailbox, MailOK
  <2> QED
    BY <1>5, <1>q, <2>2, <2>3, PartsKept, TypeWhole DEF RemoveMailbox
<1>6. ASSUME NEW a \in Apps, SaveApp(c, a) PROVE TypeOK'
  <2> DEFINE next == [Idle EXCEPT !.pc = "listing", !.app = a]
  <2>1. LocalOK(next, D)
    BY <1>i DEF LocalOK, Local, Idle, Steps
  <2> HIDE DEF next
  <2>2. CallsOK'
    BY <1>6, <1>o, <1>d, <2>1 DEF SaveApp, next
  <2>3. minted' \in 0..MaxClients /\ minted + 1 \in Clients
    <3>1. minted < MaxClients /\ minted' = minted + 1
      BY <1>6 DEF SaveApp
    <3>2. minted + 1 \in 0..MaxClients
      BY <1>q, <3>1
    <3> QED
      BY <3>1, <3>2, ClientsHold
  <2>4. AppsOK'
    BY <1>6, <1>q, <2>3 DEF SaveApp, AppsOK, With
  <2> QED
    BY <1>6, <1>q, <2>2, <2>3, <2>4, PartsKept, TypeWhole DEF SaveApp
<1>7. ASSUME NEW a \in DOMAIN apps \cup {NoApp}, CheckClear(c, a) PROVE TypeOK'
  <2> DEFINE next == [Idle EXCEPT !.pc = "clearing", !.app = a]
  <2>1. a \in Apps \cup {NoApp}
    BY <1>q DEF AppsOK
  <2>2. LocalOK(next, D)
    BY <1>i, <2>1 DEF LocalOK, Local, Idle, Steps
  <2> HIDE DEF next
  <2>3. CallsOK'
    BY <1>7, <1>g, <2>2 DEF CheckClear, next, D
  <2> QED
    BY <1>7, <1>q, <2>3, PartsKept, TypeWhole DEF CheckClear
<1>8. CASE Clear(c)
  <2> DEFINE next == [l EXCEPT !.pc = "listing"]
             gone == {b \in DOMAIN apps : l.app \in {NoApp, b}}
  <2>1. LocalOK(next, D)
    BY <1>8, <1>l DEF Clear, LocalOK, Local, Steps
  <2>2. /\ apps' = Restrict(apps, DOMAIN apps \ gone)
        /\ Goto(c, Idle) \/ Overtake(c, next, "app")
        /\ UNCHANGED <<provider, conns, mailboxes, seeded, consents, minted, unplugged>>
    BY <1>8 DEF Clear
  <2> HIDE DEF next
  <2>3. CallsOK'
    BY <1>i, <1>g, <1>o, <1>d, <2>1, <2>2 DEF D
  <2> HIDE DEF gone
  <2>4. AppsOK'
    BY <1>q, <2>2 DEF AppsOK, Restrict
  <2> QED
    BY <1>q, <2>2, <2>3, <2>4, PartsKept, TypeWhole
<1>9. CASE ListIssued(c)
  <2> DEFINE names == IssuedBy(l.app)
             next == [Idle EXCEPT !.pc = "dropping", !.todo = names]
  <2>1. names \subseteq Names
    BY <1>q DEF IssuedBy, ConnsOK
  <2> HIDE DEF names
  <2>2. LocalOK(next, D)
    BY <1>i, <2>1 DEF LocalOK, Local, Idle, Steps
  <2>3. Goto(c, IF names = {} THEN Idle ELSE next)
        /\ UNCHANGED <<provider, apps, conns, mailboxes, seeded, consents, minted,
                       unplugged>>
    BY <1>9 DEF ListIssued, names
  <2> HIDE DEF next
  <2>4. CallsOK'
    BY <1>g, <1>i, <2>2, <2>3 DEF D
  <2> QED
    BY <1>q, <2>3, <2>4, PartsKept, TypeWhole
<1>10. ASSUME NEW n \in l.todo, DropOne(c, n) PROVE TypeOK'
  <2> DEFINE next == [l EXCEPT !.todo = @ \ {n}]
  <2>1. LocalOK(next, D)
    BY <1>10, <1>l DEF DropOne, LocalOK, Local
  <2>2. Overtake(c, IF l.todo = {n} THEN Idle ELSE next, "name")
        /\ UNCHANGED consents
    BY <1>10 DEF DropOne
  <2> HIDE DEF next
  <2>3. CallsOK'
    BY <1>i, <1>o, <1>d, <2>1, <2>2
  <2>4. ConnsOK'
    BY <1>10, DeleteType DEF DropOne
  <2>5. MailOK'
    BY <1>10, <1>q DEF DropOne, MailOK
  <2> QED
    BY <1>10, <1>q, <2>3, <2>4, <2>5, PartsKept, TypeWhole DEF DropOne
<1>11. CASE Die(c)
  <2>1. ConsentsOK' /\ DOMAIN consents' = D
    BY <1>11, <1>q, RememberedType DEF Die, ConsentsOK, D
  <2>2. CallsOK'
    BY <1>11, <1>g, <1>i, <2>1 DEF Die
  <2>3. PICK left : conns' = [n \in DOMAIN conns |->
                      IF n \in left THEN [conns[n] EXCEPT !.late = @ \cup {"app"}]
                      ELSE conns[n]]
    BY <1>11 DEF Die
  <2>4. \A n \in DOMAIN conns :
            /\ conns[n] \in Conn
            /\ [conns[n] EXCEPT !.late = @ \cup {"app"}] \in Conn
    BY <1>q, <1>d DEF ConnsOK, Conn
  <2>5. ConnsOK'
    BY <1>q, <2>3, <2>4 DEF ConnsOK
  <2> QED
    BY <1>11, <1>q, <2>1, <2>2, <2>5, PartsKept, TypeWhole DEF Die
<1> QED
    BY <1>1, <1>2, <1>3, <1>4, <1>5, <1>6, <1>7, <1>8, <1>9, <1>10, <1>11

LEMMA TypeInit == Init => TypeOK
<1> SUFFICES ASSUME Init PROVE TypeOK
    OBVIOUS
<1>1. AppsOK /\ ConnsOK /\ MailOK /\ ConsentsOK
  <2>1. DOMAIN <<>> = {} /\ <<>> \in [{} -> Clients] /\ <<>> \in [{} -> Conn]
    OBVIOUS
  <2>2. <<>> \in Seq(Consent) /\ Len(<<>>) = 0
    OBVIOUS
  <2>3. AppsOK
    BY <2>1 DEF Init, AppsOK
  <2>4. ConnsOK
    BY <2>1 DEF Init, ConnsOK
  <2>5. ConsentsOK
    BY <2>2 DEF Init, ConsentsOK
  <2> QED
    BY <2>3, <2>4, <2>5 DEF Init, MailOK
<1>2. CallsOK
    BY IdleOK DEF Init, CallsOK, LocalOK
<1>3. provider \in Providers /\ minted \in 0..MaxClients
    BY DEF Init
<1> QED
    BY <1>1, <1>2, <1>3
       DEF TypeOK, AppsOK, ConnsOK, MailOK, ConsentsOK, CallsOK, LocalOK

LEMMA TypeStep == TypeOK /\ [Next]_vars => TypeOK'
<1> SUFFICES ASSUME TypeOK, [Next]_vars PROVE TypeOK'
    OBVIOUS
<1>1. CASE UNCHANGED vars
    BY <1>1, TypeParts, PartsKept, TypeWhole DEF vars
<1>2. CASE Next
    BY <1>2, ConsentTypes, CallTypes, OtherTypes DEF Next
<1> QED
    BY <1>1, <1>2


(***************************************************************************)
(* How calls move.                                                         *)
(***************************************************************************)

\* What another call's step leaves of this one.
Kept(d) ==
    /\ call'[d].pc = call[d].pc /\ call'[d].app = call[d].app
    /\ call'[d].client = call[d].client /\ call'[d].todo = call[d].todo
    /\ call'[d].taken = call[d].taken /\ call'[d].name = call[d].name
    /\ call'[d].tenant = call[d].tenant
    /\ call[d].late \subseteq call'[d].late

LEMMA GotoMoves ==
    ASSUME TypeOK, NEW c \in Calls, NEW next, Goto(c, next)
    PROVE  /\ call'[c] = next
           /\ \A d \in Calls : d # c => call'[d] = call[d]
           /\ \A d \in Calls : d # c => Kept(d)
<1>1. call'[c] = next /\ \A d \in Calls : d # c => call'[d] = call[d]
    BY DEF TypeOK, Goto
<1> QED
    BY <1>1 DEF Kept

LEMMA OvertakeMoves ==
    ASSUME TypeOK, NEW c \in Calls, NEW next, NEW what \in Delays,
           Overtake(c, next, what)
    PROVE  /\ call'[c] = next
           /\ \A d \in Calls : d # c => Kept(d)
           /\ \A d \in Calls :
                 d # c /\ call[d].pc \in (IF what = "app" THEN HoldsToken ELSE HoldsNames)
                 => what \in call'[d].late
<1>1. call'[c] = next
    BY DEF Overtake
<1>2. ASSUME NEW d \in Calls, d # c
      PROVE  /\ Kept(d)
             /\ call[d].pc \in (IF what = "app" THEN HoldsToken ELSE HoldsNames)
                => what \in call'[d].late
  <2>1. CASE call[d].pc \in (IF what = "app" THEN HoldsToken ELSE HoldsNames)
    <3>1. call'[d] = [call[d] EXCEPT !.late = @ \cup {what}]
      BY <1>2, <2>1 DEF Overtake
    <3>2. call[d].pc # "idle"
      BY <2>1 DEF HoldsToken, HoldsNames
    <3>3. LocalOK(call[d], DOMAIN consents)
      BY TypeCalls
    <3> QED
      BY <3>1, <3>2, <3>3, LateOK DEF Kept
  <2>2. CASE call[d].pc \notin (IF what = "app" THEN HoldsToken ELSE HoldsNames)
    BY <1>2, <2>2 DEF Overtake, Kept
  <2> QED
    BY <2>1, <2>2
<1> QED
    BY <1>1, <1>2

LEMMA DelaysAre == "name" \in Delays /\ "app" \in Delays
BY DEF Delays

\* Steps that touch no row and take no name in hand, and where they lead.
Aside == {"idle", "seen", "taken", "granted", "seed", "seeding", "clearing",
          "listing", "dropping", "unplug"}
Elsewhere(c) ==
    \/ \E k \in DOMAIN consents : TakeRead(c, k)
    \/ TakeDelete(c)
    \/ \E granted \in SUBSET Tenants : Exchange(c, granted)
    \/ UpsertMailbox(c) \/ ReadCategories(c) \/ SeedCategories(c)
    \/ \E t \in Tenants : RemoveMailbox(c, t)
    \/ \E a \in Apps : SaveApp(c, a)
    \/ \E a \in DOMAIN apps \cup {NoApp} : CheckClear(c, a)
    \/ Clear(c) \/ ListIssued(c)

LEMMA ElsewhereGoes ==
    ASSUME TypeOK, NEW c \in Calls, Elsewhere(c)
    PROVE  /\ UNCHANGED <<provider, conns>>
           /\ call'[c].pc \in Aside /\ \A d \in Calls : d # c => Kept(d)
<1> DEFINE l == call[c]
           Still == UNCHANGED <<provider, conns>>
<1>l. l \in Local
    BY DEF TypeOK
<1>i. Idle.pc \in Aside
    BY DEF Idle, Aside
<1>g. ASSUME NEW next, next.pc \in Aside, Goto(c, next) \/ Overtake(c, next, "app")
      PROVE  call'[c].pc \in Aside /\ \A d \in Calls : d # c => Kept(d)
    BY <1>g, GotoMoves, OvertakeMoves, DelaysAre
<1>1. ASSUME NEW k \in DOMAIN consents, TakeRead(c, k)
      PROVE  \E next : next.pc \in Aside /\ Goto(c, next) /\ Still
  <2> DEFINE next == [Idle EXCEPT !.pc = "seen", !.consent = k]
  <2>1. next.pc \in Aside
    BY DEF Idle, Aside
  <2>2. Goto(c, next) /\ Still
    BY <1>1 DEF TakeRead
  <2> QED
    BY <2>1, <2>2
<1>2. ASSUME TakeDelete(c)
      PROVE  \E next : next.pc \in Aside /\ Goto(c, next) /\ Still
  <2> DEFINE next == [l EXCEPT !.pc = "taken"]
  <2>1. next.pc \in Aside
    BY <1>l DEF Local, Aside
  <2>2. Goto(c, next) /\ Still
    BY <1>2 DEF TakeDelete
  <2> QED
    BY <2>1, <2>2
<1>3. ASSUME NEW granted \in SUBSET Tenants, Exchange(c, granted)
      PROVE  \E next : next.pc \in Aside /\ Goto(c, next) /\ Still
  <2> DEFINE k == l.consent
             app == IF provider = "xero" /\ apps # <<>> THEN consents[k].app
                    ELSE NoApp
             next == [Idle EXCEPT !.pc = "granted", !.app = app,
                             !.client = Issuer(app), !.todo = granted,
                             !.inbox = consents[k].inbox]
  <2>1. next.pc \in Aside
    BY DEF Idle, Aside
  <2>2. (Goto(c, next) \/ Goto(c, Idle)) /\ Still
    BY <1>3 DEF Exchange
  <2> HIDE DEF next
  <2> QED
    BY <1>i, <2>1, <2>2
<1>4. ASSUME ReadCategories(c)
      PROVE  \E next : next.pc \in Aside /\ Goto(c, next) /\ Still
  <2> DEFINE next == [l EXCEPT !.pc = "seeding"]
  <2>1. next.pc \in Aside
    BY <1>l DEF Local, Aside
  <2>2. (Goto(c, next) \/ Goto(c, Idle)) /\ Still
    BY <1>4 DEF ReadCategories
  <2> HIDE DEF next
  <2> QED
    BY <1>i, <2>1, <2>2
<1>5. SeedCategories(c) => Goto(c, Idle) /\ Still
    BY DEF SeedCategories
<1>6. ASSUME UpsertMailbox(c)
      PROVE  \E next : next.pc \in Aside /\ Goto(c, next) /\ Still
  <2> DEFINE next == [Idle EXCEPT !.pc = "seed"]
  <2>1. next.pc \in Aside
    BY DEF Idle, Aside
  <2>2. Goto(c, next) /\ Still
    BY <1>6 DEF UpsertMailbox
  <2> HIDE DEF next
  <2> QED
    BY <2>1, <2>2
<1>7. ASSUME NEW a \in Apps, SaveApp(c, a)
      PROVE  \E next : next.pc \in Aside /\ Overtake(c, next, "app") /\ Still
  <2> DEFINE next == [Idle EXCEPT !.pc = "listing", !.app = a]
  <2>1. next.pc \in Aside
    BY DEF Idle, Aside
  <2>2. Overtake(c, next, "app") /\ Still
    BY <1>7 DEF SaveApp
  <2> HIDE DEF next
  <2> QED
    BY <2>1, <2>2
<1>8. ASSUME NEW a \in DOMAIN apps \cup {NoApp}, CheckClear(c, a)
      PROVE  \E next : next.pc \in Aside /\ Goto(c, next) /\ Still
  <2> DEFINE next == [Idle EXCEPT !.pc = "clearing", !.app = a]
  <2>1. next.pc \in Aside
    BY DEF Idle, Aside
  <2>2. Goto(c, next) /\ Still
    BY <1>8 DEF CheckClear
  <2> HIDE DEF next
  <2> QED
    BY <2>1, <2>2
<1>9. ASSUME Clear(c)
      PROVE  \E next : /\ next.pc \in Aside
                       /\ Goto(c, next) \/ Overtake(c, next, "app")
                       /\ Still
  <2> DEFINE next == [l EXCEPT !.pc = "listing"]
  <2>1. next.pc \in Aside
    BY <1>l DEF Local, Aside
  <2>2. (Goto(c, Idle) \/ Overtake(c, next, "app")) /\ Still
    BY <1>9 DEF Clear
  <2> HIDE DEF next
  <2> QED
    BY <1>i, <2>1, <2>2
<1>10. ASSUME ListIssued(c)
       PROVE  \E next : next.pc \in Aside /\ Goto(c, next) /\ Still
  <2> DEFINE next == [Idle EXCEPT !.pc = "dropping", !.todo = IssuedBy(l.app)]
  <2>1. next.pc \in Aside
    BY DEF Idle, Aside
  <2>2. (Goto(c, next) \/ Goto(c, Idle)) /\ Still
    BY <1>10 DEF ListIssued
  <2> HIDE DEF next
  <2> QED
    BY <1>i, <2>1, <2>2
<1>11. ASSUME NEW t \in Tenants, RemoveMailbox(c, t)
       PROVE  \E next : next.pc \in Aside /\ Goto(c, next) /\ Still
  <2> DEFINE next == [Idle EXCEPT !.pc = "unplug", !.tenant = t]
  <2>1. next.pc \in Aside
    BY DEF Idle, Aside
  <2>2. Goto(c, next) /\ Still
    BY <1>11 DEF RemoveMailbox
  <2> HIDE DEF next
  <2> QED
    BY <2>1, <2>2
<1>12. \E next : /\ next.pc \in Aside
                 /\ Goto(c, next) \/ Overtake(c, next, "app")
                 /\ Still
  <2> HIDE DEF Still
  <2> QED
    BY <1>i, <1>1, <1>2, <1>3, <1>4, <1>5, <1>6, <1>7, <1>8, <1>9, <1>10, <1>11
       DEF Elsewhere
<1> QED
    BY <1>g, <1>12

\* The rows a call writes.
RowOf(l) == [tenant |-> l.tenant, app |-> l.app, client |-> l.client, late |-> l.late]

(***************************************************************************)
(* Tokens and the apps that issued them.                                   *)
(***************************************************************************)

LEMMA IssuerSame == ASSUME UNCHANGED apps, NEW a PROVE Issuer(a)' = Issuer(a)
BY DEF Issuer

LEMMA HolderKept ==
    ASSUME UNCHANGED apps, NEW d, HolderInv(call[d]), Kept(d)
    PROVE  HolderInv(call[d])'
BY IssuerSame DEF HolderInv, Kept, HoldsToken

\* A row that is left alone stays doomed while the call that dooms it goes on.
LEMMA DoomKept ==
    ASSUME NEW c \in Calls, NEW n \in DOMAIN conns, n \in DOMAIN conns',
           conns'[n].app = conns[n].app,
           \A d \in Calls : d # c => Kept(d),
           Dooms(call[c], n) => Dooms(call[c], n)'
    PROVE  Doomed(n) => Doomed(n)'
<1>1. ASSUME NEW d \in Calls, d # c, Dooms(call[d], n) PROVE Dooms(call[d], n)'
    BY <1>1 DEF Dooms, Kept, IssuedBy
<1> QED
    BY <1>1 DEF Doomed

Changing == {"listing", "dropping"}

\* Where no app changes, and the row is left alone.
LEMMA RowKept ==
    ASSUME UNCHANGED apps, NEW c \in Calls, NEW n \in DOMAIN conns, RowInv(n),
           n \in DOMAIN conns', conns'[n] = conns[n],
           \A d \in Calls : d # c => Kept(d),
           call[c].pc \notin Changing
    PROVE  RowInv(n)'
<1>1. ~Dooms(call[c], n)
    BY DEF Dooms, Changing
<1>2. Doomed(n) => Doomed(n)'
    BY <1>1, DoomKept
<1> QED
    BY <1>2, IssuerSame DEF RowInv

\* A call reads, or names a tenant: no row and no app changes.
LEMMA AppQuiet ==
    ASSUME TypeOK, AppInv, UNCHANGED <<apps, conns>>, NEW c \in Calls, NEW next,
           Goto(c, next), call[c].pc \notin Changing, HolderInv(next)
    PROVE  AppInv'
<1>1. call'[c] = next /\ \A d \in Calls : d # c => Kept(d)
    BY GotoMoves
<1>2. HolderInv(call[c])'
    BY <1>1, IssuerSame DEF HolderInv, HoldsToken
<1>3. ASSUME NEW d \in Calls PROVE HolderInv(call[d])'
    BY <1>1, <1>2, HolderKept DEF AppInv
<1>4. ASSUME NEW n \in DOMAIN conns' PROVE RowInv(n)'
    BY <1>1, <1>4, RowKept DEF AppInv
<1> QED
    BY <1>3, <1>4 DEF AppInv

\* A call writes one row.
LEMMA AppPut ==
    ASSUME TypeOK, AppInv, UNCHANGED apps, NEW c \in Calls, NEW next,
           NEW n \in Names, NEW row, Put(n, row),
           row.tenant \in Tenants, row.app \in Apps \cup {NoApp},
           row.client \in Clients, row.late \subseteq Delays,
           row.app # NoApp /\ "app" \notin row.late => Issuer(row.app) = row.client,
           Overtake(c, next, "name"), call[c].pc \notin Changing, HolderInv(next)
    PROVE  AppInv'
<1>1. call'[c] = next /\ \A d \in Calls : d # c => Kept(d)
    BY OvertakeMoves, DelaysAre
<1>2. HolderInv(call[c])'
    BY <1>1, IssuerSame DEF HolderInv, HoldsToken
<1>3. ASSUME NEW d \in Calls PROVE HolderInv(call[d])'
    BY <1>1, <1>2, HolderKept DEF AppInv
<1>4. /\ DOMAIN conns' = DOMAIN conns \cup {n}
      /\ conns'[n].app = row.app /\ conns'[n].client = row.client
      /\ row.late \subseteq conns'[n].late
      /\ \A m \in DOMAIN conns : m # n => conns'[m] = conns[m]
    BY PutType
<1>5. RowInv(n)'
    BY <1>4, IssuerSame DEF RowInv
<1>6. ASSUME NEW m \in DOMAIN conns' PROVE RowInv(m)'
  <2>1. CASE m = n
    BY <1>5, <2>1
  <2>2. CASE m # n
    BY <1>1, <1>4, <2>2, RowKept DEF AppInv
  <2> QED
    BY <2>1, <2>2
<1> QED
    BY <1>3, <1>6 DEF AppInv

\* A call that drops nothing for an app deletes rows, and is over.
LEMMA AppDelete ==
    ASSUME TypeOK, AppInv, UNCHANGED apps, NEW c \in Calls, NEW names, Delete(names),
           Overtake(c, Idle, "name"), call[c].pc \notin Changing
    PROVE  AppInv'
<1>1. call'[c] = Idle /\ \A d \in Calls : d # c => Kept(d)
    BY OvertakeMoves, DelaysAre
<1>2. HolderInv(call[c])'
    BY <1>1 DEF HolderInv, HoldsToken, Idle
<1>3. ASSUME NEW d \in Calls PROVE HolderInv(call[d])'
    BY <1>1, <1>2, HolderKept DEF AppInv
<1>4. /\ DOMAIN conns' = DOMAIN conns \ names
      /\ \A m \in DOMAIN conns \ names : conns'[m] = conns[m]
    BY DeleteType
<1>5. ASSUME NEW n \in DOMAIN conns' PROVE RowInv(n)'
    BY <1>1, <1>4, RowKept DEF AppInv
<1> QED
    BY <1>3, <1>5 DEF AppInv


LEMMA AppStill ==
    ASSUME AppInv, UNCHANGED <<apps, conns, call>>
    PROVE  AppInv'
BY DEF AppInv, HolderInv, RowInv, Doomed, Dooms, Issuer, IssuedBy

\* An app's new credentials doom the rows its old ones issued.
LEMMA AppSave ==
    ASSUME TypeOK, AppInv, NEW c \in Calls, NEW a \in Apps, SaveApp(c, a)
    PROVE  AppInv'
<1> DEFINE l == call[c]
           next == [Idle EXCEPT !.pc = "listing", !.app = a]
<1>1. /\ apps' = With(apps, a, minted + 1)
      /\ Overtake(c, next, "app") /\ UNCHANGED conns /\ l.pc = "idle"
    BY DEF SaveApp
<1>2. next.pc = "listing" /\ next.app = a
    BY DEF Idle
<1> HIDE DEF next
<1>3. /\ call'[c] = next /\ \A d \in Calls : d # c => Kept(d)
      /\ \A d \in Calls : d # c /\ call[d].pc \in HoldsToken
                          => "app" \in call'[d].late
    BY <1>1, OvertakeMoves, DelaysAre
<1>4. ASSUME NEW d \in Calls PROVE HolderInv(call[d])'
    BY <1>2, <1>3 DEF HolderInv, HoldsToken, Kept
<1>5. \A b : b # a /\ b # NoApp => Issuer(b)' = Issuer(b)
    BY <1>1 DEF Issuer, With
<1>6. ASSUME NEW n \in DOMAIN conns PROVE RowInv(n)'
  <2>1. ~Dooms(l, n)
    BY <1>1 DEF Dooms
  <2>2. Doomed(n) => Doomed(n)'
    BY <1>1, <1>3, <2>1, DoomKept
  <2>3. CASE conns[n].app = a
    <3>1. n \in IssuedBy(a)
      BY <2>3 DEF IssuedBy, NoApp
    <3>2. Dooms(call[c], n)'
      BY <1>1, <1>2, <1>3, <3>1 DEF Dooms, IssuedBy
    <3> QED
      BY <3>2 DEF RowInv, Doomed
  <2>4. CASE conns[n].app # a
    BY <1>1, <1>5, <2>2, <2>4 DEF AppInv, RowInv
  <2> QED
    BY <2>3, <2>4
<1> QED
    BY <1>1, <1>4, <1>6 DEF AppInv

LEMMA AppDrop ==
    ASSUME TypeOK, AppInv, NEW c \in Calls,
           Clear(c) \/ ListIssued(c)
           \/ (\E n \in call[c].todo : DropOne(c, n)) \/ Die(c)
    PROVE  AppInv'
<1> DEFINE l == call[c]
<1>l. l \in Local /\ (l.pc = "idle" => l = Idle)
    BY DEF TypeOK
<1>0. Idle.pc \notin HoldsToken
    BY DEF Idle, HoldsToken
<1>2. CASE Clear(c)
  <2> DEFINE gone == {b \in DOMAIN apps : l.app \in {NoApp, b}}
             next == [l EXCEPT !.pc = "listing"]
  <2>1. /\ apps' = Restrict(apps, DOMAIN apps \ gone) /\ UNCHANGED conns
        /\ IF gone = {} THEN Goto(c, Idle) ELSE Overtake(c, next, "app")
        /\ l.pc = "clearing"
    BY <1>2 DEF Clear
  <2>2. next.pc = "listing" /\ next.app = l.app
    BY <1>l DEF Local
  <2> HIDE DEF next
  <2>3. CASE gone = {}
    <3>1. \A b : b # NoApp => Issuer(b)' = Issuer(b)
      BY <2>1, <2>3 DEF Issuer, Restrict
    <3>2. call'[c] = Idle /\ \A d \in Calls : d # c => call'[d] = call[d]
      BY <2>1, <2>3, GotoMoves
    <3>3. \A d \in Calls : d # c => Kept(d)
      BY <3>2 DEF Kept
    <3>4. ASSUME NEW d \in Calls PROVE HolderInv(call[d])'
      BY <1>0, <3>1, <3>2 DEF AppInv, HolderInv, HoldsToken
    <3>5. ASSUME NEW n \in DOMAIN conns PROVE RowInv(n)'
      <4>1. ~Dooms(l, n)
        BY <2>1 DEF Dooms
      <4>2. Doomed(n) => Doomed(n)'
        BY <2>1, <3>3, <4>1, DoomKept
      <4> QED
        BY <2>1, <3>1, <4>2 DEF AppInv, RowInv
    <3> QED
      BY <2>1, <3>4, <3>5 DEF AppInv
  <2>4. CASE gone # {}
    <3>1. /\ call'[c] = next /\ \A d \in Calls : d # c => Kept(d)
          /\ \A d \in Calls : d # c /\ call[d].pc \in HoldsToken
                              => "app" \in call'[d].late
      BY <2>1, <2>4, OvertakeMoves, DelaysAre
    <3>2. ASSUME NEW d \in Calls PROVE HolderInv(call[d])'
      BY <2>2, <3>1 DEF HolderInv, HoldsToken, Kept
    <3>3. \A b : b \notin gone /\ b # NoApp => Issuer(b)' = Issuer(b)
      BY <2>1 DEF Issuer, Restrict
    <3>4. ASSUME NEW n \in DOMAIN conns PROVE RowInv(n)'
      <4>1. ~Dooms(l, n)
        BY <2>1 DEF Dooms
      <4>2. Doomed(n) => Doomed(n)'
        BY <2>1, <3>1, <4>1, DoomKept
      <4>3. CASE conns[n].app \in gone /\ conns[n].app # NoApp
        <5>1. n \in IssuedBy(l.app)
          BY <4>3 DEF IssuedBy
        <5>2. Dooms(call[c], n)'
          BY <2>1, <2>2, <3>1, <5>1 DEF Dooms, IssuedBy
        <5> QED
          BY <5>2 DEF RowInv, Doomed
      <4>4. CASE conns[n].app \notin gone \/ conns[n].app = NoApp
        BY <2>1, <3>3, <4>2, <4>4 DEF AppInv, RowInv
      <4> QED
        BY <4>3, <4>4
    <3> QED
      BY <2>1, <3>2, <3>4 DEF AppInv
  <2> QED
    BY <2>3, <2>4
<1>3. CASE ListIssued(c)
  <2> DEFINE names == IssuedBy(l.app)
             next == [Idle EXCEPT !.pc = "dropping", !.todo = names]
  <2>1. /\ l.pc = "listing" /\ UNCHANGED <<apps, conns>>
        /\ Goto(c, IF names = {} THEN Idle ELSE next)
    BY <1>3 DEF ListIssued
  <2>2. next.pc = "dropping" /\ next.todo = names
    BY DEF Idle
  <2> HIDE DEF next
  <2>3. /\ call'[c] = IF names = {} THEN Idle ELSE next
        /\ \A d \in Calls : d # c => Kept(d)
    BY <2>1, GotoMoves
  <2>4. HolderInv(call[c])'
    BY <1>0, <2>2, <2>3 DEF HolderInv, HoldsToken
  <2>5. ASSUME NEW d \in Calls PROVE HolderInv(call[d])'
    BY <2>1, <2>3, <2>4, HolderKept DEF AppInv
  <2>6. ASSUME NEW n \in DOMAIN conns PROVE RowInv(n)'
    <3>1. Dooms(l, n) => n \in names
      BY <2>1 DEF Dooms
    <3>2. n \in names => Dooms(call[c], n)'
      BY <2>2, <2>3 DEF Dooms
    <3>3. Doomed(n) => Doomed(n)'
      BY <2>1, <2>3, <3>1, <3>2, DoomKept
    <3> QED
      BY <2>1, <3>3, IssuerSame DEF AppInv, RowInv
  <2> QED
    BY <2>1, <2>5, <2>6 DEF AppInv
<1>4. ASSUME NEW m \in l.todo, DropOne(c, m) PROVE AppInv'
  <2> DEFINE next == [l EXCEPT !.todo = @ \ {m}]
  <2>1. /\ l.pc = "dropping" /\ UNCHANGED apps /\ Delete({m})
        /\ Overtake(c, IF l.todo = {m} THEN Idle ELSE next, "name")
    BY <1>4 DEF DropOne
  <2>2. next.pc = l.pc /\ next.todo = l.todo \ {m}
    BY <1>l DEF Local
  <2> HIDE DEF next
  <2>3. /\ call'[c] = IF l.todo = {m} THEN Idle ELSE next
        /\ \A d \in Calls : d # c => Kept(d)
    BY <2>1, OvertakeMoves, DelaysAre
  <2>4. HolderInv(call[c])'
    BY <1>0, <2>1, <2>2, <2>3 DEF HolderInv, HoldsToken
  <2>5. ASSUME NEW d \in Calls PROVE HolderInv(call[d])'
    BY <2>1, <2>3, <2>4, HolderKept DEF AppInv
  <2>6. /\ DOMAIN conns' = DOMAIN conns \ {m}
        /\ \A n \in DOMAIN conns \ {m} : conns'[n] = conns[n]
    BY <2>1, DeleteType
  <2>7. ASSUME NEW n \in DOMAIN conns' PROVE RowInv(n)'
    <3>1. Dooms(l, n) => Dooms(call[c], n)'
      BY <2>1, <2>2, <2>3, <2>6 DEF Dooms
    <3>2. Doomed(n) => Doomed(n)'
      BY <2>3, <2>6, <3>1, DoomKept
    <3> QED
      BY <2>1, <2>6, <3>2, IssuerSame DEF AppInv, RowInv
  <2> QED
    BY <2>5, <2>7 DEF AppInv
<1>5. CASE Die(c)
  <2> DEFINE left == CASE l.pc = "listing" -> IssuedBy(l.app)
                       [] l.pc = "dropping" -> l.todo
                       [] OTHER -> {}
  <2>1. /\ Goto(c, Idle) /\ UNCHANGED apps
        /\ conns' = [n \in DOMAIN conns |->
                      IF n \in left THEN [conns[n] EXCEPT !.late = @ \cup {"app"}]
                      ELSE conns[n]]
    BY <1>5 DEF Die
  <2>2. call'[c] = Idle /\ \A d \in Calls : d # c => Kept(d)
    BY <2>1, GotoMoves
  <2>3. HolderInv(call[c])'
    BY <1>0, <2>2 DEF HolderInv
  <2>4. ASSUME NEW d \in Calls PROVE HolderInv(call[d])'
    BY <2>1, <2>2, <2>3, HolderKept DEF AppInv
  <2>5. ASSUME NEW n \in DOMAIN conns, Dooms(l, n) PROVE n \in left
    BY <2>5 DEF Dooms
  <2> HIDE DEF left
  <2>6. ASSUME NEW n \in DOMAIN conns PROVE RowInv(n)'
    <3>1. conns[n] \in Conn
      BY DEF TypeOK
    <3>2. CASE n \in left
      <4>1. "app" \in conns'[n].late
        BY <2>1, <3>1, <3>2 DEF Conn
      <4> QED
        BY <4>1 DEF RowInv
    <3>3. CASE n \notin left
      <4>1. conns'[n] = conns[n] /\ ~Dooms(l, n)
        BY <2>1, <2>5, <3>3
      <4>2. Doomed(n) => Doomed(n)'
        BY <2>1, <2>2, <4>1, DoomKept
      <4> QED
        BY <2>1, <4>1, <4>2, IssuerSame DEF AppInv, RowInv
    <3> QED
      BY <3>2, <3>3
  <2> QED
    BY <2>1, <2>4, <2>6 DEF AppInv
<1> QED
    BY <1>2, <1>3, <1>4, <1>5


\* The record a call goes on with, and what HolderInv reads of it.
LEMMA NotHolding == \A l : l.pc \notin HoldsToken => HolderInv(l)
BY DEF HolderInv

LEMMA AppReads ==
    ASSUME TypeOK, AppInv, NEW c \in Calls,
           \/ \E k \in DOMAIN consents : TakeRead(c, k)
           \/ TakeDelete(c)
           \/ \E granted \in SUBSET Tenants : Exchange(c, granted)
           \/ ReadNames(c) \/ \E t \in Tenants : NameTenant(c, t)
           \/ UpsertMailbox(c) \/ ReadCategories(c) \/ SeedCategories(c)
           \/ \E n \in DOMAIN conns : Refresh(c, n)
           \/ \E t \in Tenants : RemoveMailbox(c, t)
           \/ \E a \in DOMAIN apps \cup {NoApp} : CheckClear(c, a)
    PROVE  AppInv'
<1> DEFINE l == call[c]
<1>l. l \in Local /\ HolderInv(l)
    BY DEF TypeOK, AppInv
<1>0. HolderInv(Idle)
    BY NotHolding DEF Idle, HoldsToken
<1>1. ASSUME NEW k \in DOMAIN consents, TakeRead(c, k) PROVE AppInv'
  <2> DEFINE next == [Idle EXCEPT !.pc = "seen", !.consent = k]
  <2>1. next.pc = "seen"
    BY DEF Idle
  <2>2. Goto(c, next) /\ l.pc = "idle" /\ UNCHANGED <<apps, conns>>
    BY <1>1 DEF TakeRead
  <2> HIDE DEF next
  <2> QED
    BY <2>1, <2>2, AppQuiet, NotHolding DEF Changing, HoldsToken
<1>2. CASE TakeDelete(c)
  <2> DEFINE next == [l EXCEPT !.pc = "taken"]
  <2>1. next.pc = "taken"
    BY <1>l DEF Local
  <2>2. Goto(c, next) /\ l.pc = "seen" /\ UNCHANGED <<apps, conns>>
    BY <1>2 DEF TakeDelete
  <2> HIDE DEF next
  <2> QED
    BY <2>1, <2>2, AppQuiet, NotHolding DEF Changing, HoldsToken
<1>3. ASSUME NEW granted \in SUBSET Tenants, Exchange(c, granted) PROVE AppInv'
  <2> DEFINE k == l.consent
             app == IF provider = "xero" /\ apps # <<>> THEN consents[k].app
                    ELSE NoApp
             next == [Idle EXCEPT !.pc = "granted", !.app = app,
                               !.client = Issuer(app), !.todo = granted,
                               !.inbox = consents[k].inbox]
  <2>1. next.app = app /\ next.client = Issuer(app)
    BY DEF Idle
  <2>2. (Goto(c, next) \/ Goto(c, Idle)) /\ l.pc = "taken" /\ UNCHANGED <<apps, conns>>
    BY <1>3 DEF Exchange
  <2> HIDE DEF next, app
  <2>3. HolderInv(next)
    BY <2>1 DEF HolderInv
  <2> QED
    BY <1>0, <2>2, <2>3, AppQuiet DEF Changing
<1>4. CASE ReadNames(c)
  <2> DEFINE next == [l EXCEPT !.pc = "naming", !.taken = DOMAIN conns]
  <2>1. /\ next.pc = "naming" /\ next.app = l.app /\ next.client = l.client
        /\ next.late = l.late
    BY <1>l DEF Local
  <2>2. Goto(c, next) /\ l.pc = "granted" /\ UNCHANGED <<apps, conns>>
    BY <1>4 DEF ReadNames
  <2> HIDE DEF next
  <2>3. HolderInv(next)
    BY <1>l, <2>1, <2>2 DEF HolderInv, HoldsToken
  <2> QED
    BY <2>2, <2>3, AppQuiet DEF Changing
<1>5. ASSUME NEW t \in Tenants, NameTenant(c, t) PROVE AppInv'
  <2>1. PICK n \in NamesFor(t, l.taken) :
            Goto(c, [l EXCEPT !.pc = "saving", !.name = n, !.tenant = t,
                              !.taken = @ \cup {n}])
    BY <1>5 DEF NameTenant
  <2> DEFINE next == [l EXCEPT !.pc = "saving", !.name = n, !.tenant = t,
                               !.taken = @ \cup {n}]
  <2>2. /\ next.pc = "saving" /\ next.app = l.app /\ next.client = l.client
        /\ next.late = l.late
    BY <1>l DEF Local
  <2>3. Goto(c, next) /\ l.pc = "naming" /\ UNCHANGED <<apps, conns>>
    BY <1>5, <2>1 DEF NameTenant
  <2> HIDE DEF next
  <2>4. HolderInv(next)
    BY <1>l, <2>2, <2>3 DEF HolderInv, HoldsToken
  <2> QED
    BY <2>3, <2>4, AppQuiet DEF Changing
<1>6. CASE UpsertMailbox(c)
  <2>1. [Idle EXCEPT !.pc = "seed"].pc = "seed"
    BY DEF Idle
  <2>2. HolderInv([Idle EXCEPT !.pc = "seed"])
    BY <2>1, NotHolding DEF HoldsToken
  <2> QED
    BY <1>6, <2>2, AppQuiet DEF UpsertMailbox, Changing
<1>7. CASE ReadCategories(c)
  <2> DEFINE next == [l EXCEPT !.pc = "seeding"]
  <2>1. next.pc = "seeding"
    BY <1>l DEF Local
  <2>2. (Goto(c, next) \/ Goto(c, Idle)) /\ l.pc = "seed" /\ UNCHANGED <<apps, conns>>
    BY <1>7 DEF ReadCategories
  <2> HIDE DEF next
  <2> QED
    BY <1>0, <2>1, <2>2, AppQuiet, NotHolding DEF Changing, HoldsToken
<1>8. CASE SeedCategories(c)
    BY <1>0, <1>8, AppQuiet DEF SeedCategories, Changing
<1>9. ASSUME NEW n \in DOMAIN conns, Refresh(c, n) PROVE AppInv'
  <2> DEFINE next == [Idle EXCEPT !.pc = "refreshed", !.name = n,
                    !.app = conns[n].app, !.tenant = conns[n].tenant,
                    !.client = conns[n].client, !.late = conns[n].late]
  <2>1. next.app = conns[n].app /\ next.client = conns[n].client
    BY DEF Idle
  <2>2. /\ Goto(c, next) /\ l.pc = "idle" /\ UNCHANGED <<apps, conns>>
        /\ Issuer(conns[n].app) = conns[n].client
    BY <1>9 DEF Refresh
  <2> HIDE DEF next
  <2>3. HolderInv(next)
    BY <2>1, <2>2 DEF HolderInv
  <2> QED
    BY <2>2, <2>3, AppQuiet DEF Changing
<1>10. ASSUME NEW t \in Tenants, RemoveMailbox(c, t) PROVE AppInv'
  <2> DEFINE next == [Idle EXCEPT !.pc = "unplug", !.tenant = t]
  <2>1. next.pc = "unplug"
    BY DEF Idle
  <2>2. Goto(c, next) /\ l.pc = "idle" /\ UNCHANGED <<apps, conns>>
    BY <1>10 DEF RemoveMailbox
  <2> HIDE DEF next
  <2> QED
    BY <2>1, <2>2, AppQuiet, NotHolding DEF Changing, HoldsToken
<1>11. ASSUME NEW a \in DOMAIN apps \cup {NoApp}, CheckClear(c, a) PROVE AppInv'
  <2> DEFINE next == [Idle EXCEPT !.pc = "clearing", !.app = a]
  <2>1. next.pc = "clearing"
    BY DEF Idle
  <2>2. Goto(c, next) /\ l.pc = "idle" /\ UNCHANGED <<apps, conns>>
    BY <1>11 DEF CheckClear
  <2> HIDE DEF next
  <2> QED
    BY <2>1, <2>2, AppQuiet, NotHolding DEF Changing, HoldsToken
<1> QED
    BY <1>1, <1>2, <1>3, <1>4, <1>5, <1>6, <1>7, <1>8, <1>9, <1>10, <1>11

\* What a call that is about to write a row writes.
LEMMA RowOfType ==
    ASSUME TypeOK, NEW c \in Calls, call[c].pc \in {"saving", "refreshed"}
    PROVE  /\ call[c].name \in Names
           /\ RowOf(call[c]).tenant \in Tenants
           /\ RowOf(call[c]).app \in Apps \cup {NoApp}
           /\ RowOf(call[c]).client \in Clients
           /\ RowOf(call[c]).late \subseteq Delays
BY DEF TypeOK, Local, RowOf

LEMMA AppWrites ==
    ASSUME TypeOK, AppInv, NEW c \in Calls,
           SaveTenant(c) \/ SaveRefreshed(c)
           \/ \E t \in Tenants : SaveMailboxToken(c, t)
    PROVE  AppInv'
<1> DEFINE l == call[c]
<1>l. l \in Local /\ HolderInv(l)
    BY DEF TypeOK, AppInv
<1>0. HolderInv(Idle)
    BY NotHolding DEF Idle, HoldsToken
<1>1. CASE SaveTenant(c)
  <2> DEFINE rest == l.todo \ {l.tenant}
             next == [l EXCEPT !.pc = "naming", !.todo = rest,
                               !.name = <<>>, !.tenant = {}]
             goes == IF rest = {} THEN Idle ELSE next
             row == RowOf(l)
  <2>1. /\ next.pc = "naming" /\ next.app = l.app /\ next.client = l.client
        /\ next.late = l.late
    BY <1>l DEF Local
  <2>2. /\ l.pc = "saving" /\ UNCHANGED apps /\ Put(l.name, row)
        /\ Overtake(c, goes, "name")
    BY <1>1 DEF SaveTenant, RowOf
  <2>3. row.app = l.app /\ row.client = l.client /\ row.late = l.late
    BY DEF RowOf
  <2>4. /\ l.name \in Names /\ row.tenant \in Tenants /\ row.app \in Apps \cup {NoApp}
        /\ row.client \in Clients /\ row.late \subseteq Delays
    BY <2>2, RowOfType
  <2> HIDE DEF next, row
  <2>5. HolderInv(goes)
    BY <1>0, <1>l, <2>1, <2>2 DEF HolderInv, HoldsToken
  <2>6. row.app # NoApp /\ "app" \notin row.late => Issuer(row.app) = row.client
    BY <1>l, <2>2, <2>3 DEF HolderInv, HoldsToken
  <2> HIDE DEF goes
  <2> QED
    BY <2>2, <2>4, <2>5, <2>6, AppPut DEF Changing
<1>2. CASE SaveRefreshed(c)
  <2> DEFINE row == RowOf(l)
  <2>2. /\ l.pc = "refreshed" /\ UNCHANGED apps /\ Put(l.name, row)
        /\ Overtake(c, Idle, "name")
    BY <1>2 DEF SaveRefreshed, RowOf
  <2>3. row.app = l.app /\ row.client = l.client /\ row.late = l.late
    BY DEF RowOf
  <2>4. /\ l.name \in Names /\ row.tenant \in Tenants /\ row.app \in Apps \cup {NoApp}
        /\ row.client \in Clients /\ row.late \subseteq Delays
    BY <2>2, RowOfType
  <2> HIDE DEF row
  <2>6. row.app # NoApp /\ "app" \notin row.late => Issuer(row.app) = row.client
    BY <1>l, <2>2, <2>3 DEF HolderInv, HoldsToken
  <2> QED
    BY <1>0, <2>2, <2>4, <2>6, AppPut DEF Changing
<1>3. ASSUME NEW t \in Tenants, SaveMailboxToken(c, t) PROVE AppInv'
  <2> DEFINE next == [Idle EXCEPT !.pc = "mailbox", !.tenant = t]
             goes == IF l.inbox THEN next ELSE Idle
             row == [tenant |-> t, app |-> NoApp, client |-> l.client,
                     late |-> l.late]
             n == IF l.inbox THEN InboxConn(t) ELSE DefaultConn
  <2>1. next.pc = "mailbox"
    BY DEF Idle
  <2>2. /\ l.pc = "granted" /\ UNCHANGED apps /\ Put(n, row)
        /\ Overtake(c, goes, "name")
    BY <1>3 DEF SaveMailboxToken
  <2>3. row.app = NoApp
    OBVIOUS
  <2>4. /\ n \in Names /\ row.tenant \in Tenants /\ row.app \in Apps \cup {NoApp}
        /\ row.client \in Clients /\ row.late \subseteq Delays
    BY <1>l, InboxName, DefaultName DEF Local
  <2> HIDE DEF next, row, n
  <2>5. HolderInv(goes)
    BY <1>0, <2>1, NotHolding DEF HoldsToken
  <2> HIDE DEF goes
  <2> QED
    BY <2>2, <2>3, <2>4, <2>5, AppPut DEF Changing
<1> QED
    BY <1>1, <1>2, <1>3

LEMMA AppStep == TypeOK /\ AppInv /\ [Next]_vars => AppInv'
<1> SUFFICES ASSUME TypeOK, AppInv, [Next]_vars PROVE AppInv'
    OBVIOUS
<1>1. CASE UNCHANGED vars
    BY <1>1, AppStill DEF vars
<1>2. ASSUME \/ \E a \in Apps \cup {NoApp} : StartXero(a)
             \/ \E inbox \in BOOLEAN : StartGoogle(inbox)
             \/ \E k \in DOMAIN consents : Expire(k)
      PROVE  AppInv'
    BY <1>2, AppStill DEF StartXero, StartGoogle, Begin, Expire
<1>3. ASSUME NEW c \in Calls,
             \/ \E n \in DOMAIN conns : Disconnect(c, n)
             \/ Unplug(c)
      PROVE  AppInv'
    BY <1>3, AppDelete DEF Disconnect, Unplug, Changing
<1> QED
    BY <1>1, <1>2, <1>3, AppReads, AppWrites, AppSave, AppDrop DEF Next

LEMMA AppInit == Init => AppInv
BY DEF Init, AppInv, HolderInv, Idle, HoldsToken


(***************************************************************************)
(* Names and the tenants they mean.                                        *)
(***************************************************************************)

LEMMA NamedKept ==
    ASSUME UNCHANGED conns, NEW d, NamedInv(call[d]), Kept(d)
    PROVE  NamedInv(call[d])'
BY DEF NamedInv, Kept, Owns

\* A call that has no name in hand.
LEMMA NotNaming == \A l : l.pc \notin {"naming", "saving", "refreshed"} => NamedInv(l)
BY DEF NamedInv

\* No row changes.
LEMMA NameQuiet ==
    ASSUME NameInv, UNCHANGED <<provider, conns>>, NEW c \in Calls, NEW next,
           call'[c] = next, \A d \in Calls : d # c => Kept(d),
           provider = "xero" => NamedInv(next)
    PROVE  NameInv'
<1> SUFFICES ASSUME provider = "xero" PROVE NameInv'
    BY DEF NameInv
<1>1. NamedInv(call[c])'
    BY DEF NamedInv, Owns
<1>2. \A d \in Calls : NamedInv(call[d])'
    BY <1>1, NamedKept DEF NameInv
<1> QED
    BY <1>2 DEF NameInv, PairInv, Owns

LEMMA NameStill == ASSUME NameInv, UNCHANGED <<provider, conns, call>> PROVE NameInv'
BY DEF NameInv, NamedInv, PairInv, Owns

\* The calls that the write of a name overtakes.
LEMMA NamedLate ==
    ASSUME NEW d, NamedInv(call[d]), Kept(d),
           call[d].pc \in {"naming", "saving", "refreshed"} => "name" \in call'[d].late
    PROVE  NamedInv(call[d])'
BY DEF NamedInv, Kept, Owns

LEMMA NamePut ==
    ASSUME TypeOK, NameInv, provider = "xero", UNCHANGED provider,
           NEW c \in Calls, NEW next, NEW n \in Names, NEW row,
           row.tenant \in Tenants, row.app \in Apps \cup {NoApp},
           row.client \in Clients, row.late \subseteq Delays,
           Put(n, row), Overtake(c, next, "name"), Owns(n, row.tenant),
           "name" \notin row.late =>
               /\ n \in DOMAIN conns => conns[n].tenant = row.tenant
               /\ \A m \in DOMAIN conns :
                     conns[m].tenant = row.tenant => n \in DOMAIN conns,
           next.pc \notin {"saving", "refreshed"},
           next.pc = "naming" /\ "name" \notin next.late =>
               DOMAIN conns \cup {n} \subseteq next.taken
    PROVE  NameInv'
<1>1. /\ DOMAIN conns' = DOMAIN conns \cup {n}
      /\ conns'[n].tenant = row.tenant /\ row.late \subseteq conns'[n].late
      /\ n \in DOMAIN conns /\ "name" \in conns[n].late => "name" \in conns'[n].late
      /\ \A m \in DOMAIN conns : m # n => conns'[m] = conns[m]
    BY PutType
<1>2. /\ call'[c] = next /\ \A d \in Calls : d # c => Kept(d)
      /\ \A d \in Calls :
            d # c /\ call[d].pc \in {"naming", "saving", "refreshed"}
            => "name" \in call'[d].late
    BY OvertakeMoves, DelaysAre DEF HoldsNames
<1>3. NamedInv(call[c])'
    BY <1>1, <1>2 DEF NamedInv
<1>4. \A d \in Calls : NamedInv(call[d])'
    BY <1>2, <1>3, NamedLate DEF NameInv
<1>5. \A m \in DOMAIN conns' : Owns(m, conns'[m].tenant)
    BY <1>1 DEF NameInv
<1>6. ASSUME NEW m \in DOMAIN conns', m # n, conns'[m].tenant = conns'[n].tenant,
             "name" \notin conns'[m].late \cup conns'[n].late
      PROVE  FALSE
  <2>1. m \in DOMAIN conns /\ conns'[m] = conns[m] /\ "name" \notin row.late
    BY <1>1, <1>6
  <2>2. n \in DOMAIN conns /\ conns[n].tenant = row.tenant
    BY <1>1, <1>6, <2>1
  <2>3. "name" \notin conns[m].late \cup conns[n].late
    BY <1>1, <1>6, <2>1, <2>2
  <2> QED
    BY <1>1, <1>6, <2>1, <2>2, <2>3 DEF NameInv, PairInv
<1>7. ASSUME NEW m \in DOMAIN conns', NEW k \in DOMAIN conns' PROVE PairInv(m, k)'
  <2>1. CASE m # n /\ k # n
    BY <1>1, <2>1 DEF NameInv, PairInv
  <2>2. CASE m = n \/ k = n
    BY <1>6, <2>2 DEF PairInv
  <2> QED
    BY <2>1, <2>2
<1> QED
    BY <1>4, <1>5, <1>7 DEF NameInv, Owns

LEMMA NameDelete ==
    ASSUME TypeOK, NameInv, UNCHANGED provider, NEW c \in Calls, NEW next,
           NEW names, Delete(names), Overtake(c, next, "name"),
           next.pc \notin {"naming", "saving", "refreshed"}
    PROVE  NameInv'
<1> SUFFICES ASSUME provider = "xero" PROVE NameInv'
    BY DEF NameInv
<1>1. /\ DOMAIN conns' = DOMAIN conns \ names
      /\ \A m \in DOMAIN conns \ names : conns'[m] = conns[m]
    BY DeleteType
<1>2. /\ call'[c] = next /\ \A d \in Calls : d # c => Kept(d)
      /\ \A d \in Calls :
            d # c /\ call[d].pc \in {"naming", "saving", "refreshed"}
            => "name" \in call'[d].late
    BY OvertakeMoves, DelaysAre DEF HoldsNames
<1>3. NamedInv(call[c])'
    BY <1>2 DEF NamedInv
<1>4. \A d \in Calls : NamedInv(call[d])'
    BY <1>2, <1>3, NamedLate DEF NameInv
<1> QED
    BY <1>1, <1>4 DEF NameInv, Owns, PairInv

LEMMA NameDie ==
    ASSUME TypeOK, NameInv, NEW c \in Calls, Die(c)
    PROVE  NameInv'
<1> SUFFICES ASSUME provider = "xero" PROVE NameInv'
    BY DEF NameInv, Die
<1>1. PICK left :
        /\ Goto(c, Idle) /\ UNCHANGED provider
        /\ conns' = [n \in DOMAIN conns |->
                      IF n \in left THEN [conns[n] EXCEPT !.late = @ \cup {"app"}]
                      ELSE conns[n]]
    BY DEF Die
<1>2. call'[c] = Idle /\ \A d \in Calls : d # c => Kept(d)
    BY <1>1, GotoMoves
<1>3. ASSUME NEW n \in DOMAIN conns
      PROVE  conns'[n].tenant = conns[n].tenant /\ conns[n].late \subseteq conns'[n].late
  <2>1. conns[n] \in Conn
    BY DEF TypeOK
  <2>2. conns'[n] = conns[n] \/ conns'[n] = [conns[n] EXCEPT !.late = @ \cup {"app"}]
    BY <1>1
  <2> QED
    BY <2>1, <2>2 DEF Conn
<1>4. DOMAIN conns' = DOMAIN conns
    BY <1>1
<1>5. ASSUME NEW d \in Calls PROVE NamedInv(call[d])'
  <2>1. CASE d = c
    BY <1>2, <2>1, NotNaming DEF Idle, NamedInv
  <2>2. CASE d # c
    BY <1>2, <1>3, <1>4, <2>2 DEF NameInv, NamedInv, Kept, Owns
  <2> QED
    BY <2>1, <2>2
<1> QED
    BY <1>3, <1>4, <1>5, <1>1 DEF NameInv, Owns, PairInv

\* A tenant's names are its own, and where its row is known it is the one.
LEMMA NamesForIs ==
    ASSUME NameInv, provider = "xero", NEW t \in Tenants, NEW taken,
           NEW n \in NamesFor(t, taken)
    PROVE  /\ Owns(n, t)
           /\ DOMAIN conns \subseteq taken =>
                /\ n \in DOMAIN conns => conns[n].tenant = t
                /\ \A m \in DOMAIN conns : conns[m].tenant = t => n \in DOMAIN conns
<1> DEFINE mine == {m \in DOMAIN conns : conns[m].tenant = t}
<1>1. CASE mine # {}
    BY <1>1 DEF NamesFor, NameInv
<1>2. CASE mine = {}
  <2>1. n = IF <<Slug[t]>> \in taken THEN <<Slug[t], t>> ELSE <<Slug[t]>>
    BY <1>2 DEF NamesFor
  <2>2. Owns(n, t)
    BY <2>1 DEF Owns
  <2>3. ASSUME DOMAIN conns \subseteq taken PROVE n \notin DOMAIN conns
    <3>1. CASE <<Slug[t]>> \in taken
      <4>1. n = <<Slug[t], t>>
        BY <2>1, <3>1
      <4>2. Len(n) = 2 /\ n[2] = t
        BY <4>1
      <4> QED
        BY <1>2, <4>2 DEF NameInv, Owns
    <3>2. CASE <<Slug[t]>> \notin taken
      BY <2>1, <2>3, <3>2
    <3> QED
      BY <3>1, <3>2
  <2> QED
    BY <1>2, <2>2, <2>3
<1> QED
    BY <1>1, <1>2

LEMMA NameReads ==
    ASSUME TypeOK, NameInv, NEW c \in Calls,
           \/ ReadNames(c) \/ \E t \in Tenants : NameTenant(c, t)
           \/ \E n \in DOMAIN conns : Refresh(c, n)
    PROVE  NameInv'
<1> DEFINE l == call[c]
<1>l. l \in Local /\ (provider = "xero" => NamedInv(l))
    BY DEF TypeOK, NameInv
<1>1. CASE ReadNames(c)
  <2> DEFINE next == [l EXCEPT !.pc = "naming", !.taken = DOMAIN conns]
  <2>1. next.pc = "naming" /\ next.taken = DOMAIN conns
    BY <1>l DEF Local
  <2>2. Goto(c, next) /\ UNCHANGED <<provider, conns>>
    BY <1>1 DEF ReadNames
  <2> HIDE DEF next
  <2>3. NamedInv(next)
    BY <2>1 DEF NamedInv
  <2> QED
    BY <2>2, <2>3, GotoMoves, NameQuiet
<1>2. ASSUME NEW t \in Tenants, NameTenant(c, t) PROVE NameInv'
  <2>1. PICK n \in NamesFor(t, l.taken) :
            Goto(c, [l EXCEPT !.pc = "saving", !.name = n, !.tenant = t,
                              !.taken = @ \cup {n}])
    BY <1>2 DEF NameTenant
  <2> DEFINE next == [l EXCEPT !.pc = "saving", !.name = n, !.tenant = t,
                               !.taken = @ \cup {n}]
  <2>2. /\ next.pc = "saving" /\ next.name = n /\ next.tenant = t
        /\ next.taken = l.taken \cup {n} /\ next.late = l.late
    BY <1>l DEF Local
  <2>3. Goto(c, next) /\ l.pc = "naming" /\ UNCHANGED <<provider, conns>>
    BY <1>2, <2>1 DEF NameTenant
  <2> HIDE DEF next
  <2>4. ASSUME provider = "xero" PROVE NamedInv(next)
    <3>1. "name" \notin l.late => DOMAIN conns \subseteq l.taken
      BY <1>l, <2>3, <2>4 DEF NamedInv
    <3>2. Owns(n, t)
      BY <2>1, <2>4, NamesForIs
    <3>3. "name" \notin l.late =>
            /\ n \in DOMAIN conns => conns[n].tenant = t
            /\ \A m \in DOMAIN conns : conns[m].tenant = t => n \in DOMAIN conns
      BY <2>1, <2>4, <3>1, NamesForIs
    <3> QED
      BY <2>2, <3>1, <3>2, <3>3 DEF NamedInv
  <2> QED
    BY <2>3, <2>4, GotoMoves, NameQuiet
<1>3. ASSUME NEW n \in DOMAIN conns, Refresh(c, n) PROVE NameInv'
  <2> DEFINE next == [Idle EXCEPT !.pc = "refreshed", !.name = n,
                    !.app = conns[n].app, !.tenant = conns[n].tenant,
                    !.client = conns[n].client, !.late = conns[n].late]
  <2>1. next.pc = "refreshed" /\ next.name = n /\ next.tenant = conns[n].tenant
    BY DEF Idle
  <2>2. Goto(c, next) /\ UNCHANGED <<provider, conns>>
    BY <1>3 DEF Refresh
  <2> HIDE DEF next
  <2>3. provider = "xero" => NamedInv(next)
    BY <2>1 DEF NamedInv, NameInv
  <2> QED
    BY <2>2, <2>3, GotoMoves, NameQuiet
<1> QED
    BY <1>1, <1>2, <1>3

LEMMA NameWrites ==
    ASSUME TypeOK, NameInv, NEW c \in Calls,
           SaveTenant(c) \/ SaveRefreshed(c)
           \/ \E t \in Tenants : SaveMailboxToken(c, t)
    PROVE  NameInv'
<1> DEFINE l == call[c]
           row == RowOf(l)
<1>0. CASE provider # "xero"
  <2>1. UNCHANGED provider
    BY DEF SaveTenant, SaveRefreshed, SaveMailboxToken
  <2> QED
    BY <1>0, <2>1 DEF NameInv
<1> SUFFICES ASSUME provider = "xero" PROVE NameInv'
    BY <1>0
<1>l. l \in Local /\ NamedInv(l)
    BY DEF TypeOK, NameInv
<1>r. row.tenant = l.tenant /\ row.late = l.late
    BY DEF RowOf
<1>1. CASE SaveTenant(c)
  <2> DEFINE rest == l.todo \ {l.tenant}
             next == [l EXCEPT !.pc = "naming", !.todo = rest,
                               !.name = <<>>, !.tenant = {}]
             goes == IF rest = {} THEN Idle ELSE next
  <2>1. next.pc = "naming" /\ next.taken = l.taken /\ next.late = l.late
    BY <1>l DEF Local
  <2>2. /\ l.pc = "saving" /\ UNCHANGED provider /\ Put(l.name, row)
        /\ Overtake(c, goes, "name")
    BY <1>1 DEF SaveTenant, RowOf
  <2>3. /\ l.name \in Names /\ row.tenant \in Tenants /\ row.app \in Apps \cup {NoApp}
        /\ row.client \in Clients /\ row.late \subseteq Delays
    BY <2>2, RowOfType
  <2> HIDE DEF next, row
  <2>4. goes.pc \notin {"saving", "refreshed"}
    BY <2>1 DEF Idle
  <2>5. goes.pc = "naming" /\ "name" \notin goes.late =>
            DOMAIN conns \cup {l.name} \subseteq goes.taken
    BY <1>l, <2>1, <2>2 DEF Idle, NamedInv
  <2> HIDE DEF goes
  <2>6. /\ Owns(l.name, row.tenant)
        /\ "name" \notin row.late =>
             /\ l.name \in DOMAIN conns => conns[l.name].tenant = row.tenant
             /\ \A m \in DOMAIN conns :
                   conns[m].tenant = row.tenant => l.name \in DOMAIN conns
    BY <1>l, <1>r, <2>2 DEF NamedInv
  <2> QED
    BY <2>2, <2>3, <2>4, <2>5, <2>6, NamePut
<1>2. CASE SaveRefreshed(c)
  <2>2. /\ l.pc = "refreshed" /\ UNCHANGED provider /\ Put(l.name, row)
        /\ Overtake(c, Idle, "name")
    BY <1>2 DEF SaveRefreshed, RowOf
  <2>3. /\ l.name \in Names /\ row.tenant \in Tenants /\ row.app \in Apps \cup {NoApp}
        /\ row.client \in Clients /\ row.late \subseteq Delays
    BY <2>2, RowOfType
  <2> HIDE DEF row
  <2>4. Idle.pc \notin {"saving", "refreshed", "naming"}
    BY DEF Idle
  <2>6. /\ Owns(l.name, row.tenant)
        /\ "name" \notin row.late =>
             /\ l.name \in DOMAIN conns => conns[l.name].tenant = row.tenant
             /\ \A m \in DOMAIN conns :
                   conns[m].tenant = row.tenant => l.name \in DOMAIN conns
    BY <1>l, <1>r, <2>2 DEF NamedInv
  <2> QED
    BY <2>2, <2>3, <2>4, <2>6, NamePut
<1>3. CASE \E t \in Tenants : SaveMailboxToken(c, t)
    BY <1>3 DEF SaveMailboxToken
<1> QED
    BY <1>1, <1>2, <1>3

LEMMA NameElse ==
    ASSUME TypeOK, NameInv, NEW c \in Calls, Elsewhere(c)
    PROVE  NameInv'
BY ElsewhereGoes, NotNaming, NameQuiet DEF Aside

LEMMA NameStep == TypeOK /\ NameInv /\ [Next]_vars => NameInv'
<1> SUFFICES ASSUME TypeOK, NameInv, [Next]_vars PROVE NameInv'
    OBVIOUS
<1>1. CASE UNCHANGED vars
    BY <1>1, NameStill DEF vars
<1>2. ASSUME \/ \E a \in Apps \cup {NoApp} : StartXero(a)
             \/ \E inbox \in BOOLEAN : StartGoogle(inbox)
             \/ \E k \in DOMAIN consents : Expire(k)
      PROVE  NameInv'
    BY <1>2, NameStill DEF StartXero, StartGoogle, Begin, Expire
<1>3. ASSUME NEW c \in Calls,
             \/ \E n \in DOMAIN conns : Disconnect(c, n)
             \/ Unplug(c)
      PROVE  NameInv'
  <2>1. Idle.pc \notin {"naming", "saving", "refreshed"}
    BY DEF Idle
  <2> QED
    BY <1>3, <2>1, NameDelete DEF Disconnect, Unplug
<1>4. ASSUME NEW c \in Calls, NEW n \in call[c].todo, DropOne(c, n) PROVE NameInv'
  <2> DEFINE next == [call[c] EXCEPT !.todo = @ \ {n}]
             goes == IF call[c].todo = {n} THEN Idle ELSE next
  <2>1. next.pc = "dropping"
    BY <1>4 DEF DropOne, TypeOK, Local
  <2>2. goes.pc \notin {"naming", "saving", "refreshed"}
    BY <2>1 DEF Idle
  <2>3. UNCHANGED provider /\ Delete({n}) /\ Overtake(c, goes, "name")
    BY <1>4 DEF DropOne
  <2> HIDE DEF goes
  <2> QED
    BY <2>2, <2>3, NameDelete
<1> QED
    BY <1>1, <1>2, <1>3, <1>4, NameReads, NameWrites, NameElse, NameDie
       DEF Next, Elsewhere

LEMMA NameInit == Init => NameInv
BY DEF Init, NameInv, NamedInv, Idle

(***************************************************************************)
(* Mailboxes and their tokens.                                             *)
(***************************************************************************)

LEMMA InboxNames ==
    /\ \A t \in Tenants : InboxConn(t) # DefaultConn
    /\ \A t, u \in Tenants : InboxConn(t) = InboxConn(u) => t = u
<1>1. ASSUME NEW t \in Tenants PROVE InboxConn(t) # DefaultConn
  <2>1. Len(InboxConn(t)) = 2 /\ Len(DefaultConn) = 1
    BY DEF InboxConn, DefaultConn
  <2> QED
    BY <2>1
<1>2. ASSUME NEW t \in Tenants, NEW u \in Tenants, InboxConn(t) = InboxConn(u)
      PROVE  t = u
  <2>1. InboxConn(t)[2] = t /\ InboxConn(u)[2] = u
    BY DEF InboxConn
  <2> QED
    BY <1>2, <2>1
<1> QED
    BY <1>1, <1>2

MailCalls == \A c \in Calls : SideInv(call[c]) /\ TokenInv(call[c])

\* Call c goes on as `next`; a row is missing from now on only to calls that it
\* overtakes.
LEMMA MailCallsStep ==
    ASSUME MailInv, UNCHANGED provider, NEW c \in Calls, NEW next,
           call'[c] = next, \A d \in Calls : d # c => Kept(d), SideInv(next),
           next.pc = "mailbox" /\ "name" \notin next.late =>
               InboxConn(next.tenant) \in DOMAIN conns',
           \/ DOMAIN conns \subseteq DOMAIN conns'
           \/ \A d \in Calls :
                 d # c /\ call[d].pc \in HoldsNames => "name" \in call'[d].late
    PROVE  MailCalls'
<1>1. SideInv(call[c])' /\ TokenInv(call[c])'
    BY DEF SideInv, TokenInv
<1>2. ASSUME NEW d \in Calls, d # c PROVE SideInv(call[d])' /\ TokenInv(call[d])'
  <2>1. SideInv(call[d]) /\ TokenInv(call[d]) /\ Kept(d)
    BY <1>2 DEF MailInv
  <2>2. SideInv(call[d])'
    BY <2>1 DEF SideInv, Kept
  <2>3. TokenInv(call[d])'
    BY <1>2, <2>1 DEF TokenInv, SideInv, Kept, HoldsNames
  <2> QED
    BY <2>2, <2>3
<1> QED
    BY <1>1, <1>2 DEF MailCalls

LEMMA MailWhole ==
    ASSUME MailInv, UNCHANGED provider, MailCalls',
           provider = "xero" => mailboxes' = {},
           \A t \in mailboxes' : InboxConn(t) \in DOMAIN conns' \/ t \in unplugged'
    PROVE  MailInv'
BY DEF MailInv, MailCalls, MailboxHasToken

\* Where the mailboxes stay, and no row goes.
LEMMA MailGrows ==
    ASSUME MailInv, UNCHANGED <<provider, mailboxes, unplugged>>,
           DOMAIN conns \subseteq DOMAIN conns', NEW c \in Calls, NEW next,
           call'[c] = next, \A d \in Calls : d # c => Kept(d),
           SideInv(next), next.pc # "mailbox"
    PROVE  MailInv'
<1>1. MailCalls'
    BY MailCallsStep
<1> QED
    BY <1>1, MailWhole DEF MailInv, MailboxHasToken

LEMMA MailStill ==
    ASSUME MailInv, UNCHANGED <<provider, mailboxes, unplugged, conns, call>>
    PROVE  MailInv'
BY DEF MailInv, MailboxHasToken, SideInv, TokenInv

LEMMA AsideSide == \A l : l.pc \in Aside \cup {"refreshed"} =>
                              SideInv(l) /\ l.pc # "mailbox"
BY DEF SideInv, Aside

LEMMA MailElse ==
    ASSUME TypeOK, MailInv, NEW c \in Calls, Elsewhere(c),
           UNCHANGED <<mailboxes, unplugged>>
    PROVE  MailInv'
BY ElsewhereGoes, AsideSide, MailGrows

LEMMA MailReads ==
    ASSUME TypeOK, MailInv, NEW c \in Calls,
           \/ ReadNames(c) \/ \E t \in Tenants : NameTenant(c, t)
           \/ \E n \in DOMAIN conns : Refresh(c, n)
    PROVE  MailInv'
<1> DEFINE l == call[c]
<1>l. l \in Local /\ SideInv(l)
    BY DEF TypeOK, MailInv
<1>1. UNCHANGED <<provider, mailboxes, unplugged, conns>>
    BY DEF ReadNames, NameTenant, Refresh
<1>2. CASE ReadNames(c)
  <2> DEFINE next == [l EXCEPT !.pc = "naming", !.taken = DOMAIN conns]
  <2>1. next.pc = "naming"
    BY <1>l DEF Local
  <2>2. Goto(c, next) /\ provider = "xero"
    BY <1>2 DEF ReadNames
  <2> HIDE DEF next
  <2>3. SideInv(next)
    BY <2>1, <2>2 DEF SideInv
  <2> QED
    BY <1>1, <2>1, <2>2, <2>3, GotoMoves, MailGrows
<1>3. ASSUME NEW t \in Tenants, NameTenant(c, t) PROVE MailInv'
  <2>1. PICK n \in NamesFor(t, l.taken) :
            Goto(c, [l EXCEPT !.pc = "saving", !.name = n, !.tenant = t,
                              !.taken = @ \cup {n}])
    BY <1>3 DEF NameTenant
  <2> DEFINE next == [l EXCEPT !.pc = "saving", !.name = n, !.tenant = t,
                               !.taken = @ \cup {n}]
  <2>2. next.pc = "saving"
    BY <1>l DEF Local
  <2>3. Goto(c, next) /\ l.pc = "naming"
    BY <1>3, <2>1 DEF NameTenant
  <2> HIDE DEF next
  <2>4. SideInv(next)
    BY <1>l, <2>2, <2>3 DEF SideInv
  <2> QED
    BY <1>1, <2>2, <2>3, <2>4, GotoMoves, MailGrows
<1>4. ASSUME NEW n \in DOMAIN conns, Refresh(c, n) PROVE MailInv'
  <2> DEFINE next == [Idle EXCEPT !.pc = "refreshed", !.name = n,
                    !.app = conns[n].app, !.tenant = conns[n].tenant,
                    !.client = conns[n].client, !.late = conns[n].late]
  <2>1. next.pc = "refreshed"
    BY DEF Idle
  <2>2. Goto(c, next)
    BY <1>4 DEF Refresh
  <2> HIDE DEF next
  <2> QED
    BY <1>1, <2>1, <2>2, AsideSide, GotoMoves, MailGrows
<1> QED
    BY <1>2, <1>3, <1>4

LEMMA MailWrites ==
    ASSUME TypeOK, MailInv, NEW c \in Calls,
           SaveTenant(c) \/ SaveRefreshed(c)
           \/ \E t \in Tenants : SaveMailboxToken(c, t)
    PROVE  MailInv'
<1> DEFINE l == call[c]
<1>l. l \in Local /\ SideInv(l)
    BY DEF TypeOK, MailInv
<1>1. UNCHANGED <<provider, mailboxes, unplugged>>
    BY DEF SaveTenant, SaveRefreshed, SaveMailboxToken
<1>i. Idle.pc \in Aside
    BY DEF Idle, Aside
<1>2. CASE SaveTenant(c) \/ SaveRefreshed(c)
  <2> DEFINE rest == l.todo \ {l.tenant}
             next == [l EXCEPT !.pc = "naming", !.todo = rest,
                               !.name = <<>>, !.tenant = {}]
             row == RowOf(l)
  <2>1. next.pc = "naming"
    BY <1>l DEF Local
  <2>2. /\ l.pc \in {"saving", "refreshed"} /\ Put(l.name, row)
        /\ \/ Overtake(c, Idle, "name")
           \/ Overtake(c, next, "name") /\ l.pc = "saving"
    BY <1>2 DEF SaveTenant, SaveRefreshed, RowOf
  <2>3. /\ l.name \in Names /\ row.tenant \in Tenants /\ row.app \in Apps \cup {NoApp}
        /\ row.client \in Clients /\ row.late \subseteq Delays
    BY <2>2, RowOfType
  <2> HIDE DEF next, row
  <2>4. DOMAIN conns' = DOMAIN conns \cup {l.name}
    <3>1. Put(l.name, row)
      BY <2>2
    <3> QED
      BY <2>3, <3>1, PutType
  <2>5. l.pc = "saving" => SideInv(next) /\ next.pc # "mailbox"
    BY <1>l, <2>1 DEF SideInv
  <2>6. \E goes : /\ call'[c] = goes /\ SideInv(goes) /\ goes.pc # "mailbox"
                  /\ \A d \in Calls : d # c => Kept(d)
    <3>1. CASE Overtake(c, Idle, "name")
      BY <1>i, <3>1, OvertakeMoves, DelaysAre, AsideSide
    <3>2. CASE Overtake(c, next, "name") /\ l.pc = "saving"
      BY <2>5, <3>2, OvertakeMoves, DelaysAre
    <3> QED
      BY <2>2, <3>1, <3>2
  <2> QED
    BY <1>1, <2>4, <2>6, MailGrows
<1>3. ASSUME NEW t \in Tenants, SaveMailboxToken(c, t) PROVE MailInv'
  <2> DEFINE next == [Idle EXCEPT !.pc = "mailbox", !.tenant = t]
             goes == IF l.inbox THEN next ELSE Idle
             row == [tenant |-> t, app |-> NoApp, client |-> l.client,
                     late |-> l.late]
             n == IF l.inbox THEN InboxConn(t) ELSE DefaultConn
  <2>1. next.pc = "mailbox" /\ next.tenant = t
    BY DEF Idle
  <2>2. /\ provider = "google" /\ Put(n, row) /\ Overtake(c, goes, "name")
    BY <1>3 DEF SaveMailboxToken
  <2>3. /\ n \in Names /\ row.tenant \in Tenants /\ row.app \in Apps \cup {NoApp}
        /\ row.client \in Clients /\ row.late \subseteq Delays
    BY <1>l, InboxName, DefaultName DEF Local
  <2>4. l.inbox => n = InboxConn(t)
    OBVIOUS
  <2> HIDE DEF next, row, n
  <2>5. DOMAIN conns' = DOMAIN conns \cup {n}
    BY <2>2, <2>3, PutType
  <2>6. SideInv(goes)
    BY <1>i, <2>1, <2>2, AsideSide DEF SideInv
  <2>7. goes.pc = "mailbox" => InboxConn(goes.tenant) \in DOMAIN conns'
    BY <1>i, <2>1, <2>4, <2>5, AsideSide
  <2> HIDE DEF goes
  <2>8. call'[c] = goes /\ \A d \in Calls : d # c => Kept(d)
    BY <2>2, OvertakeMoves, DelaysAre
  <2>9. MailCalls'
    BY <1>1, <2>5, <2>6, <2>7, <2>8, MailCallsStep
  <2> QED
    BY <1>1, <2>5, <2>9, MailWhole DEF MailInv, MailboxHasToken
<1> QED
    BY <1>2, <1>3

\* A mailbox is connected, or removed.
LEMMA MailboxRow ==
    ASSUME TypeOK, MailInv, NEW c \in Calls,
           UpsertMailbox(c) \/ \E t \in Tenants : RemoveMailbox(c, t)
    PROVE  MailInv'
<1> DEFINE l == call[c]
<1>1. /\ UNCHANGED <<provider, conns>>
      /\ call'[c].pc \in Aside /\ \A d \in Calls : d # c => Kept(d)
    BY ElsewhereGoes DEF Elsewhere
<1>2. MailCalls'
    BY <1>1, AsideSide, MailCallsStep
<1>3. SideInv(l) /\ TokenInv(l) /\ l \in Local
    BY DEF MailInv, TypeOK
<1>4. provider = "xero" => mailboxes' = {}
    BY <1>3 DEF UpsertMailbox, RemoveMailbox, SideInv, MailInv
<1>5. ASSUME NEW u \in mailboxes'
      PROVE  InboxConn(u) \in DOMAIN conns' \/ u \in unplugged'
  <2>1. CASE UpsertMailbox(c)
    <3>1. l.pc = "mailbox" /\ mailboxes' = mailboxes \cup {l.tenant}
      BY <2>1 DEF UpsertMailbox
    <3>2. u \in mailboxes => InboxConn(u) \in DOMAIN conns \/ u \in unplugged
      BY DEF MailInv, MailboxHasToken
    <3>3. CASE "name" \in l.late /\ InboxConn(l.tenant) \notin DOMAIN conns
      <4>1. unplugged' = unplugged \cup {l.tenant}
        BY <2>1, <3>3 DEF UpsertMailbox
      <4> QED
        BY <1>1, <3>1, <3>2, <4>1
    <3>4. CASE ~("name" \in l.late /\ InboxConn(l.tenant) \notin DOMAIN conns)
      <4>1. unplugged' = unplugged \ {l.tenant}
        BY <2>1, <3>4 DEF UpsertMailbox
      <4>2. InboxConn(l.tenant) \in DOMAIN conns
        BY <1>3, <3>1, <3>4 DEF TokenInv
      <4> QED
        BY <1>1, <3>1, <3>2, <4>1, <4>2
    <3> QED
      BY <3>3, <3>4
  <2>2. CASE \E t \in Tenants : RemoveMailbox(c, t)
    BY <1>1, <2>2 DEF RemoveMailbox, MailInv, MailboxHasToken
  <2> QED
    BY <2>1, <2>2
<1> QED
    BY <1>1, <1>2, <1>4, <1>5, MailWhole

\* A row goes, and with it a mailbox's token.
LEMMA MailDelete ==
    ASSUME TypeOK, MailInv, NEW c \in Calls, NEW next, NEW names, Delete(names),
           UNCHANGED <<provider, mailboxes>>, Overtake(c, next, "name"),
           next.pc \in Aside, unplugged \subseteq unplugged',
           provider = "google" =>
               \A t \in mailboxes : InboxConn(t) \in names => t \in unplugged'
    PROVE  MailInv'
<1>1. DOMAIN conns' = DOMAIN conns \ names
    BY DeleteType
<1>2. /\ call'[c] = next /\ \A d \in Calls : d # c => Kept(d)
      /\ \A d \in Calls : d # c /\ call[d].pc \in HoldsNames => "name" \in call'[d].late
    BY OvertakeMoves, DelaysAre
<1>3. MailCalls'
    BY <1>2, AsideSide, MailCallsStep
<1>4. provider \in {"xero", "google"}
    BY DEF TypeOK
<1> QED
    BY <1>1, <1>3, <1>4, MailWhole DEF MailInv, MailboxHasToken

LEMMA MailDrops ==
    ASSUME TypeOK, MailInv, NEW c \in Calls,
           \/ \E n \in DOMAIN conns : Disconnect(c, n)
           \/ Unplug(c)
           \/ \E n \in call[c].todo : DropOne(c, n)
    PROVE  MailInv'
<1> DEFINE l == call[c]
<1>l. l \in Local /\ mailboxes \subseteq Tenants /\ (l.pc = "unplug" => l.tenant \in Tenants)
    BY DEF TypeOK
<1>i. Idle.pc \in Aside
    BY DEF Idle, Aside
<1>1. ASSUME NEW n \in DOMAIN conns, Disconnect(c, n) PROVE MailInv'
  <2>1. /\ Delete({n}) /\ UNCHANGED <<provider, mailboxes, unplugged>>
        /\ Overtake(c, Idle, "name") /\ (provider = "google" => n = DefaultConn)
    BY <1>1 DEF Disconnect
  <2>2. provider = "google" => \A t \in mailboxes : InboxConn(t) \notin {n}
    BY <1>l, <2>1, InboxNames
  <2> QED
    BY <1>i, <2>1, <2>2, MailDelete
<1>2. CASE Unplug(c)
  <2>1. /\ Delete({InboxConn(l.tenant)}) /\ UNCHANGED <<provider, mailboxes>>
        /\ unplugged' = unplugged \cup (mailboxes \cap {l.tenant})
        /\ Overtake(c, Idle, "name") /\ l.tenant \in Tenants
    BY <1>2, <1>l DEF Unplug
  <2>2. \A t \in mailboxes : InboxConn(t) \in {InboxConn(l.tenant)} => t \in unplugged'
    BY <1>l, <2>1, InboxNames
  <2> QED
    BY <1>i, <2>1, <2>2, MailDelete
<1>3. ASSUME NEW n \in l.todo, DropOne(c, n) PROVE MailInv'
  <2> DEFINE next == [l EXCEPT !.todo = @ \ {n}]
             goes == IF l.todo = {n} THEN Idle ELSE next
  <2>1. next.pc = "dropping"
    BY <1>3, <1>l DEF DropOne, Local
  <2>2. goes.pc \in Aside
    BY <1>i, <2>1 DEF Aside
  <2>3. /\ Delete({n}) /\ UNCHANGED <<provider, mailboxes>>
        /\ unplugged' = unplugged \cup {t \in mailboxes : n = InboxConn(t)}
        /\ Overtake(c, goes, "name")
    BY <1>3 DEF DropOne
  <2> HIDE DEF goes
  <2>4. \A t \in mailboxes : InboxConn(t) \in {n} => t \in unplugged'
    BY <2>3
  <2> QED
    BY <2>2, <2>3, <2>4, MailDelete
<1> QED
    BY <1>1, <1>2, <1>3

LEMMA MailStep == TypeOK /\ MailInv /\ [Next]_vars => MailInv'
<1> SUFFICES ASSUME TypeOK, MailInv, [Next]_vars PROVE MailInv'
    OBVIOUS
<1>1. CASE UNCHANGED vars
    BY <1>1, MailStill DEF vars
<1>2. ASSUME \/ \E a \in Apps \cup {NoApp} : StartXero(a)
             \/ \E inbox \in BOOLEAN : StartGoogle(inbox)
             \/ \E k \in DOMAIN consents : Expire(k)
      PROVE  MailInv'
    BY <1>2, MailStill DEF StartXero, StartGoogle, Begin, Expire
<1>3. ASSUME NEW c \in Calls,
             \/ \E k \in DOMAIN consents : TakeRead(c, k)
             \/ TakeDelete(c)
             \/ \E granted \in SUBSET Tenants : Exchange(c, granted)
             \/ ReadCategories(c) \/ SeedCategories(c)
             \/ \E a \in Apps : SaveApp(c, a)
             \/ \E a \in DOMAIN apps \cup {NoApp} : CheckClear(c, a)
             \/ Clear(c) \/ ListIssued(c)
      PROVE  MailInv'
  <2>1. UNCHANGED <<mailboxes, unplugged>>
    BY <1>3 DEF TakeRead, TakeDelete, Exchange, ReadCategories, SeedCategories,
                SaveApp, CheckClear, Clear, ListIssued
  <2> QED
    BY <1>3, <2>1, MailElse DEF Elsewhere
<1>4. ASSUME NEW c \in Calls, Die(c) PROVE MailInv'
  <2>1. /\ Goto(c, Idle) /\ UNCHANGED <<provider, mailboxes, unplugged>>
        /\ DOMAIN conns' = DOMAIN conns
    BY <1>4 DEF Die
  <2>2. Idle.pc \in Aside
    BY DEF Idle, Aside
  <2> QED
    BY <2>1, <2>2, GotoMoves, AsideSide, MailGrows
<1> QED
    BY <1>1, <1>2, <1>3, <1>4, MailReads, MailWrites, MailboxRow, MailDrops DEF Next

LEMMA MailInit == Init => MailInv
BY DEF Init, MailInv, MailboxHasToken, SideInv, TokenInv, Idle

(***************************************************************************)
(* The theorems.                                                           *)
(***************************************************************************)

LEMMA Invariance == Spec => []IInv
<1>1. Init => IInv
    BY TypeInit, AppInit, NameInit, MailInit DEF IInv
<1>2. IInv /\ [Next]_vars => IInv'
    BY TypeStep, AppStep, NameStep, MailStep DEF IInv
<1> QED
    BY <1>1, <1>2, PTL DEF Spec

\* Every row, consent and call is one the program can hold, and a call at a
\* step has the locals which that step needs (server.py, xero_callback and
\* google_callback).
THEOREM TypeCorrect == Spec => []TypeOK
<1>1. IInv => TypeOK
    BY DEF IInv
<1> QED
    BY <1>1, Invariance, PTL

\* A Xero token that names its app is one that app's client of today can
\* refresh, once no app change is dropping connections (xero.py, _refresh;
\* server.py, _drop_connections).
THEOREM IssuerKept == Spec => []IssuerIsKept
<1>1. IInv => IssuerIsKept
  <2> SUFFICES ASSUME IInv, Quiet, NEW n \in DOMAIN conns,
                      conns[n].app # NoApp, "app" \notin conns[n].late
               PROVE  Issuer(conns[n].app) = conns[n].client
    BY DEF IssuerIsKept
  <2>1. ~Doomed(n)
    BY DEF Doomed, Dooms, Quiet
  <2> QED
    BY <2>1 DEF IInv, AppInv, RowInv
<1> QED
    BY <1>1, Invariance, PTL

\* A Xero organisation has one connection, unless one of its two was named by a
\* call that another's write had overtaken (server.py, xero_callback).
THEOREM OneRow == Spec => []OneRowPerTenant
<1>1. IInv => OneRowPerTenant
    BY DEF IInv, NameInv, PairInv, OneRowPerTenant
<1> QED
    BY <1>1, Invariance, PTL

\* A mailbox on the inbox screen has its token, unless it was taken away while
\* the mailbox was being connected or removed (server.py, google_callback;
\* inbox/api.py, remove_mailbox).
THEOREM MailboxToken == Spec => []MailboxHasToken
<1>1. IInv => MailboxHasToken
    BY DEF IInv, MailInv
<1> QED
    BY <1>1, Invariance, PTL

\* A step that writes a row for another tenant is that of an overtaken call.
LEMMA TenantStays ==
    ASSUME IInv, [Next]_vars, provider = "xero",
           NEW n \in DOMAIN conns \cap DOMAIN conns', conns'[n].tenant # conns[n].tenant
    PROVE  \E c \in Calls : "name" \in call[c].late /\ call'[c] # call[c]
<1>q. TypeOK /\ ConnsOK
    BY TypeParts DEF IInv
<1>1. ASSUME NEW c \in Calls, SaveTenant(c) \/ SaveRefreshed(c)
      PROVE  "name" \in call[c].late /\ call'[c] # call[c]
  <2> DEFINE l == call[c]
             row == RowOf(l)
             next == [l EXCEPT !.pc = "naming", !.todo = l.todo \ {l.tenant},
                               !.name = <<>>, !.tenant = {}]
  <2>1. l \in Local /\ NamedInv(l)
    BY <1>q DEF TypeOK, IInv, NameInv
  <2>2. row.tenant = l.tenant
    BY DEF RowOf
  <2>3. /\ l.pc \in {"saving", "refreshed"}
        /\ \/ Overtake(c, Idle, "name")
           \/ Overtake(c, next, "name") /\ l.pc = "saving"
    BY <1>1 DEF SaveTenant, SaveRefreshed
  <2>4. Put(l.name, row)
    BY <1>1 DEF SaveTenant, SaveRefreshed, RowOf
  <2>5. /\ l.name \in Names /\ row.tenant \in Tenants /\ row.app \in Apps \cup {NoApp}
        /\ row.client \in Clients /\ row.late \subseteq Delays
    BY <1>q, <2>3, RowOfType
  <2>6. next.pc = "naming"
    BY <2>1 DEF Local
  <2>7. Idle.pc = "idle"
    BY DEF Idle
  <2> HIDE DEF row, next
  <2>8. /\ conns'[l.name].tenant = row.tenant
        /\ \A m \in DOMAIN conns : m # l.name => conns'[m] = conns[m]
    BY <1>q, <2>4, <2>5, PutType
  <2>9. n = l.name
    BY <2>8
  <2>10. "name" \in l.late
    BY <2>1, <2>2, <2>3, <2>8, <2>9 DEF NamedInv
  <2>11. call'[c] = Idle \/ (call'[c] = next /\ l.pc = "saving")
    BY <1>q, <2>3, OvertakeMoves, DelaysAre
  <2>12. call'[c] # l
    BY <2>3, <2>6, <2>7, <2>11
  <2> QED
    BY <2>10, <2>12
<1>2. ASSUME NEW c \in Calls,
             \/ \E m \in DOMAIN conns : Disconnect(c, m)
             \/ Unplug(c)
             \/ \E m \in call[c].todo : DropOne(c, m)
      PROVE  FALSE
  <2>1. PICK names : Delete(names)
    BY <1>2 DEF Disconnect, Unplug, DropOne
  <2> QED
    BY <1>q, <2>1, DeleteType
<1>3. ASSUME NEW c \in Calls, Die(c) PROVE FALSE
  <2>1. conns[n] \in Conn
    BY <1>q DEF ConnsOK
  <2>2. conns'[n] = conns[n] \/ conns'[n] = [conns[n] EXCEPT !.late = @ \cup {"app"}]
    BY <1>3 DEF Die
  <2> QED
    BY <2>1, <2>2 DEF Conn
<1>4. conns' # conns
    OBVIOUS
<1>5. Next
    BY <1>4 DEF vars
<1>6. ASSUME NEW c \in Calls, Elsewhere(c) PROVE FALSE
    BY <1>q, <1>4, <1>6, ElsewhereGoes
<1>7. ASSUME \/ \E a \in Apps \cup {NoApp} : StartXero(a)
             \/ \E inbox \in BOOLEAN : StartGoogle(inbox)
             \/ \E k \in DOMAIN consents : Expire(k)
      PROVE  FALSE
    BY <1>4, <1>7 DEF StartXero, StartGoogle, Begin, Expire
<1>8. ASSUME NEW c \in Calls,
             \/ ReadNames(c) \/ \E t \in Tenants : NameTenant(c, t)
             \/ \E m \in DOMAIN conns : Refresh(c, m)
             \/ \E t \in Tenants : SaveMailboxToken(c, t)
      PROVE  FALSE
    BY <1>4, <1>8 DEF ReadNames, NameTenant, Refresh, SaveMailboxToken
<1> QED
    BY <1>1, <1>2, <1>3, <1>5, <1>6, <1>7, <1>8 DEF Next, Elsewhere

\* The name a workflow's parameter stores goes on meaning the same Xero
\* organisation while it is connected; only a call that read the names before
\* another's write can turn it to a second one (server.py, xero_callback).
THEOREM NameKeeps == Spec => NameKeepsTenant
<1> DEFINE Keeps ==
        provider = "xero" =>
            \A n \in DOMAIN conns \cap DOMAIN conns' :
                conns'[n].tenant # conns[n].tenant =>
                    \E c \in Calls : "name" \in call[c].late /\ call'[c] # call[c]
<1>1. IInv /\ [Next]_vars => [Keeps]_vars
    BY TenantStays
<1>2. Spec => [][Keeps]_vars
    BY <1>1, Invariance, PTL DEF Spec
<1> QED
    BY <1>2 DEF NameKeepsTenant
================================================================================

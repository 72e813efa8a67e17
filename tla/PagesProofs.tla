------------------------------ MODULE PagesProofs ------------------------------
(***************************************************************************)
(* Proofs about what the server's registries, the terminal's workspace and *)
(* the pages' history keep to, for any intents, companies, devices and     *)
(* bounds.  Each part has an inductive invariant of its own, as in         *)
(* KeptProofs.                                                             *)
(***************************************************************************)
EXTENDS KeptProofs

-------------------------------------------------------------------------------
\* The registry.  Its three lists change apart from each other, so their invariants are three.
\* The alerts: a stamp is of a delivery, whoever is to be told has been told less often than
\* armed, a request under way has the list it read, and an alert under creation is new to all.
RegFields == {"alerts", "keys", "tokens", "minted", "told", "armed", "used", "gone", "revoked", "raced", "joined", "bad"}
Counted(s, m) == s \in Seq(Nat) /\ Len(s) = m
Alerted == [active : BOOLEAN, fired : BOOLEAN]
Numbered(f, m, S) == DOMAIN f \subseteq 1..m /\ \A x \in DOMAIN f : f[x] \in S
Edits == {"create", "delete", "arm", "disarm"}
OfAlerts == Edits \cup {"fire"}
FireFields == {"kind", "n", "id", "read", "todo", "sending", "to", "list"}
AlertCall(c, m, told) ==
  /\ {"read", "list"} \subseteq DOMAIN c /\ (c.kind = "fire" => DOMAIN c = FireFields)
  /\ Numbered(c.read, m, Alerted) /\ Numbered(c.list, m, Alerted) /\ DOMAIN c.list = DOMAIN c.read
  /\ \A x \in DOMAIN c.read : c.read[x].fired => told[x] > 0
  /\ c.kind \in Edits => c.list = c.read /\ c.id \in 1..m
  /\ c.kind = "fire" =>
       /\ c.id \subseteq DOMAIN c.read /\ c.todo \subseteq c.id /\ \A x \in c.id \ c.todo : told[x] > 0
       /\ \A x \in DOMAIN c.read : IF x \in c.id THEN c.list[x].fired ELSE c.list[x] = c.read[x]
AlertNew(u, C, c) ==
  /\ c.id \notin DOMAIN u.alerts /\ c.id \notin u.gone /\ u.told[c.id] = 0
  /\ \A d \in C : d.kind \in OfAlerts => c.id \notin DOMAIN d.read /\ (d.kind = "create" /\ d.id = c.id => d = c)
Firing(C, x) == \E c \in C : c.kind = "fire" /\ x \in c.id
Awaits(a, x) == x \in DOMAIN a /\ a[x].active /\ ~a[x].fired
Due(u, C, x) ==
  /\ u.told[x] <= u.armed[x]
  /\ Awaits(u.alerts, x) /\ ~Firing(C, x) => u.told[x] < u.armed[x]
  /\ \A c \in C : c.kind = "fire" /\ x \in c.todo => u.told[x] < u.armed[x]
  /\ \A c, d \in C : c.kind = "fire" /\ d.kind = "fire" /\ x \in c.id /\ x \in d.id => c = d
AlertsInv(u, C) ==
  /\ u.minted \in Nat /\ Counted(u.told, u.minted) /\ Counted(u.armed, u.minted)
  /\ Numbered(u.alerts, u.minted, Alerted) /\ u.gone \subseteq 1..u.minted
  /\ \A x \in DOMAIN u.alerts : u.alerts[x].fired => u.told[x] > 0
  /\ \A c \in C : c.kind \in OfAlerts => AlertCall(c, u.minted, u.told)
  /\ \A c \in C : c.kind = "create" => AlertNew(u, C, c)
  /\ u.gone \cap DOMAIN u.alerts \subseteq u.raced
  /\ \A x \in (1..u.minted) \ u.raced : Due(u, C, x)

\* The keys: a key's count is at most its uses in every list there is, a revoked one is not active.
Keyed == [active : BOOLEAN, calls : Nat]
OfKeys == {"issue", "verify", "revoke"}
KeyCall(c, m, used) ==
  /\ {"read", "list"} \subseteq DOMAIN c /\ Numbered(c.read, m, Keyed) /\ c.list = c.read /\ c.id \in 1..m
  /\ \A x \in DOMAIN c.read : c.read[x].calls <= used[x]
  /\ c.kind = "verify" => c.id \in DOMAIN c.read
KeyNew(u, C, c) ==
  /\ c.id \notin DOMAIN u.keys /\ c.id \notin u.revoked
  /\ \A d \in C : d.kind \in OfKeys => c.id \notin DOMAIN d.read /\ (d.kind = "issue" /\ d.id = c.id => d = c)
KeysInv(u, C) ==
  /\ u.minted \in Nat /\ Counted(u.used, u.minted) /\ Numbered(u.keys, u.minted, Keyed) /\ u.revoked \subseteq 1..u.minted
  /\ \A x \in DOMAIN u.keys : u.keys[x].calls <= u.used[x]
  /\ \A c \in C : c.kind \in OfKeys => KeyCall(c, u.minted, u.used)
  /\ \A c \in C : c.kind = "issue" => KeyNew(u, C, c)
  /\ \A x \in u.revoked \cap DOMAIN u.keys : u.keys[x].active => x \in u.raced

\* The devices.
TokensInv(u) ==
  /\ u.tokens \in Seq(u.joined) /\ Len(u.tokens) <= Bound /\ (\A p, q \in DOMAIN u.tokens : u.tokens[p] = u.tokens[q] => p = q)
  /\ \A d \in u.joined : d \in u.bad \/ \E p \in DOMAIN u.tokens : u.tokens[p] = d
RegInv == DOMAIN ui = RegFields /\ AlertsInv(ui, calls) /\ KeysInv(ui, calls) /\ TokensInv(ui)

\* One counter changes; a counter is minted.
LEMMA CountedSet ==
  ASSUME NEW m \in Nat, NEW s, Counted(s, m), NEW x \in 1..m, NEW n \in Nat, NEW r, r = [s EXCEPT ![x] = n]
  PROVE  Counted(r, m) /\ r[x] = n /\ \A y \in 1..m : y # x => r[y] = s[y]
<1>1. s \in Seq(Nat) /\ Len(s) = m /\ x \in 1..Len(s)
  BY DEF Counted
<1>2. /\ [s EXCEPT ![x] = n] \in Seq(Nat) /\ Len([s EXCEPT ![x] = n]) = Len(s)
      /\ \A y \in 1..Len(s) : [s EXCEPT ![x] = n][y] = IF y = x THEN n ELSE s[y]
  BY <1>1, ExceptSeq
<1>3. QED
  BY <1>1, <1>2 DEF Counted

LEMMA CountedNats == ASSUME NEW m \in Nat, NEW s, Counted(s, m) PROVE \A x \in 1..m : s[x] \in Nat
BY ElementOfSeq DEF Counted

LEMMA CountedMint ==
  ASSUME NEW m \in Nat, NEW s, Counted(s, m)
  PROVE  Counted(Append(s, 0), m + 1) /\ Append(s, 0)[m + 1] = 0 /\ \A y \in 1..m : Append(s, 0)[y] = s[y]
<1>1. s \in Seq(Nat) /\ Len(s) = m /\ 0 \in Nat
  BY DEF Counted
<1>2. /\ Append(s, 0) \in Seq(Nat) /\ Len(Append(s, 0)) = Len(s) + 1
      /\ (\A y \in 1..Len(s) : Append(s, 0)[y] = s[y]) /\ Append(s, 0)[Len(s) + 1] = 0
  BY <1>1, AppendProperties
<1>3. QED
  BY <1>1, <1>2 DEF Counted

\* What a write leaves as it was: all but its own, or what it is known to undo.
Same(f, g, x) == (x \in DOMAIN f <=> x \in DOMAIN g) /\ (x \in DOMAIN f => f[x] = g[x])
LEMMA OtherSame == ASSUME NEW f, NEW g, NEW x PROVE x \in Reg!Other(f, g) <=> ~Same(f, g, x)
BY DEF Reg!Other, Same

LEMMA Written ==
  ASSUME NEW c, NEW f, NEW g, NEW own, NEW old, NEW new,
         new = old \cup Reg!Undone([c EXCEPT !.list = g], f, own), {"read", "list"} \subseteq DOMAIN c,
         f = c.read => \A x : x \notin own => Same(f, g, x)
  PROVE  old \subseteq new /\ \A x : x \in new \/ x \in own \/ Same(f, g, x)
<1> DEFINE e == [c EXCEPT !.list = g]
<1>1. e.list = g /\ e.read = c.read
  OBVIOUS
<1>2. Reg!Undone(e, f, own) = IF f = c.read THEN {} ELSE Reg!Other(f, g) \ own
  BY <1>1 DEF Reg!Undone
<1> HIDE DEF e
<1>3. ASSUME NEW x, x \notin new, x \notin own PROVE Same(f, g, x)
  <2>1. CASE f = c.read
    BY <1>3, <2>1
  <2>2. CASE f # c.read
    <3>1. x \notin Reg!Other(f, g)
      BY <1>2, <1>3, <2>2 DEF e
    <3>2. QED
      BY <3>1, OtherSame
  <2>3. QED
    BY <2>1, <2>2
<1>4. QED
  BY <1>3

\* A request that edits the alerts ends with its write.
LEMMA AlertsWritten ==
  ASSUME NEW u, NEW C, AlertsInv(u, C), NEW c \in C, NEW v, NEW D, D = C \ {c},
         v.minted = u.minted, v.told = u.told, Counted(v.armed, u.minted), u.raced \subseteq v.raced,
         Numbered(v.alerts, u.minted, Alerted), v.gone \subseteq 1..u.minted,
         \A x \in DOMAIN v.alerts : v.alerts[x].fired => u.told[x] > 0,
         v.gone \cap DOMAIN v.alerts \subseteq v.raced,
         \A d \in D : d.kind = "create" => d.id \notin DOMAIN v.alerts /\ d.id \notin v.gone,
         \A x \in 1..u.minted : x \notin v.raced =>
            \/ u.told[x] < v.armed[x]
            \/ /\ u.armed[x] <= v.armed[x]
               /\ Awaits(v.alerts, x) => Awaits(u.alerts, x) /\ ~(c.kind = "fire" /\ x \in c.id)
  PROVE  AlertsInv(v, D)
<1>1. /\ u.minted \in Nat /\ Counted(u.told, u.minted) /\ Counted(u.armed, u.minted)
      /\ (\A d \in C : d.kind \in OfAlerts => AlertCall(d, u.minted, u.told))
      /\ (\A d \in C : d.kind = "create" => AlertNew(u, C, d))
      /\ \A x \in (1..u.minted) \ u.raced : Due(u, C, x)
  BY DEF AlertsInv
<1>2. \A d \in D : d \in C
  OBVIOUS
<1>3. \A d \in D : d.kind = "create" => AlertNew(v, D, d)
  BY <1>1, <1>2 DEF AlertNew
<1>4. ASSUME NEW x \in (1..v.minted) \ v.raced PROVE Due(v, D, x)
  <2>1. Due(u, C, x) /\ u.told[x] \in Nat /\ u.armed[x] \in Nat /\ v.armed[x] \in Nat /\ x \in 1..u.minted
    BY <1>1, CountedNats
  <2>2. CASE u.told[x] < v.armed[x]
    BY <1>2, <2>1, <2>2 DEF Due
  <2>3. CASE u.armed[x] <= v.armed[x] /\ (Awaits(v.alerts, x) => Awaits(u.alerts, x) /\ ~(c.kind = "fire" /\ x \in c.id))
    <3>1. u.told[x] <= v.armed[x]
      BY <2>1, <2>3 DEF Due
    <3>2. ASSUME Awaits(v.alerts, x), ~Firing(D, x) PROVE u.told[x] < v.armed[x]
      <4>1. ~Firing(C, x)
        BY <2>3, <3>2 DEF Firing
      <4>2. u.told[x] < u.armed[x]
        BY <2>1, <2>3, <3>2, <4>1 DEF Due
      <4>3. QED
        BY <2>1, <2>3, <4>2
    <3>3. ASSUME NEW d \in D, d.kind = "fire", x \in d.todo PROVE u.told[x] < v.armed[x]
      <4>1. u.told[x] < u.armed[x]
        BY <1>2, <2>1, <3>3 DEF Due
      <4>2. QED
        BY <2>1, <2>3, <4>1
    <3>4. QED
      BY <1>2, <2>1, <3>1, <3>2, <3>3 DEF Due
  <2>4. QED
    BY <2>1, <2>2, <2>3
<1>5. QED
  BY <1>1, <1>2, <1>3, <1>4 DEF AlertsInv

\* What does not concern the alerts leaves their invariant.
LEMMA AlertsFrame ==
  ASSUME NEW u, NEW C, AlertsInv(u, C), NEW v, NEW D,
         v.minted = u.minted, v.told = u.told, v.armed = u.armed, v.alerts = u.alerts, v.gone = u.gone, u.raced \subseteq v.raced,
         \A d \in D : d.kind \in OfAlerts => d \in C, \A c \in C : c.kind = "fire" => c \in D \/ \A x \in c.id : x \in v.raced
  PROVE  AlertsInv(v, D)
<1>1. \A d \in D : d.kind = "create" \/ d.kind = "fire" => d.kind \in OfAlerts /\ d \in C
  BY DEF OfAlerts, Edits
<1>2. \A d \in D : d.kind = "create" => AlertNew(v, D, d)
  BY <1>1 DEF AlertsInv, AlertNew
<1>3. ASSUME NEW x \in (1..v.minted) \ v.raced PROVE Due(v, D, x)
  <2>1. Due(u, C, x)
    BY DEF AlertsInv
  <2>2. Firing(C, x) => Firing(D, x)
    BY <1>3 DEF Firing
  <2>3. QED
    BY <1>1, <2>1, <2>2 DEF Due
<1>4. QED
  BY <1>2, <1>3 DEF AlertsInv

\* An edit is asked for: it has the list of now.
LEMMA AlertsAsked ==
  ASSUME NEW u, NEW C, AlertsInv(u, C), NEW e, e.kind \in {"delete", "arm", "disarm"}, e.read = u.alerts, e.list = u.alerts,
         e.id \in 1..u.minted, {"read", "list"} \subseteq DOMAIN e, NEW D, D = C \cup {e}
  PROVE  AlertsInv(u, D)
<1>1. e.kind # "create" /\ e.kind # "fire" /\ e.kind \in Edits /\ e.kind \in OfAlerts
  BY DEF OfAlerts, Edits
<1>2. AlertCall(e, u.minted, u.told)
  BY <1>1 DEF AlertCall, AlertsInv
<1>3. \A d \in D : d.kind = "create" => AlertNew(u, D, d)
  BY <1>1 DEF AlertsInv, AlertNew
<1>4. ASSUME NEW x \in (1..u.minted) \ u.raced PROVE Due(u, D, x)
  <2>1. Due(u, C, x)
    BY DEF AlertsInv
  <2>2. Firing(C, x) => Firing(D, x)
    BY DEF Firing
  <2>3. QED
    BY <1>1, <2>1, <2>2 DEF Due
<1>5. QED
  BY <1>2, <1>3, <1>4 DEF AlertsInv

LEMMA NoneNone == ASSUME NEW a, NEW b, a = 0, b = 0 PROVE a <= b
OBVIOUS

\* An id is minted, for an alert or a key.
LEMMA AlertsMinted ==
  ASSUME NEW u, NEW C, AlertsInv(u, C), NEW v, NEW e, NEW D, D = C \cup {e},
         v.minted = u.minted + 1, v.told = Append(u.told, 0), v.armed = Append(u.armed, 0), v.alerts = u.alerts, v.gone = u.gone,
         v.raced = u.raced,
         \/ e.kind \notin OfAlerts
         \/ e.kind = "create" /\ e.id = u.minted + 1 /\ e.read = u.alerts /\ e.list = u.alerts /\ {"read", "list"} \subseteq DOMAIN e
  PROVE  AlertsInv(v, D)
<1> DEFINE m == u.minted
<1>0. /\ m \in Nat /\ Counted(u.told, m) /\ Counted(u.armed, m) /\ Numbered(u.alerts, m, Alerted) /\ u.gone \subseteq 1..m
      /\ (\A d \in C : d.kind \in OfAlerts => AlertCall(d, m, u.told))
      /\ (\A d \in C : d.kind = "create" => AlertNew(u, C, d))
      /\ \A x \in (1..m) \ u.raced : Due(u, C, x)
  BY DEF AlertsInv
<1>1. /\ Counted(v.told, m + 1) /\ Counted(v.armed, m + 1) /\ v.told[m + 1] = 0 /\ v.armed[m + 1] = 0
      /\ \A x \in 1..m : v.told[x] = u.told[x] /\ v.armed[x] = u.armed[x]
  <2>1. m \in Nat /\ Counted(u.told, m) /\ v.told = Append(u.told, 0) /\ Counted(u.armed, m) /\ v.armed = Append(u.armed, 0)
    BY <1>0
  <2> HIDE DEF m
  <2>2. Counted(Append(u.told, 0), m + 1) /\ Append(u.told, 0)[m + 1] = 0 /\ \A x \in 1..m : Append(u.told, 0)[x] = u.told[x]
    BY <2>1, CountedMint
  <2>3. Counted(Append(u.armed, 0), m + 1) /\ Append(u.armed, 0)[m + 1] = 0 /\ \A x \in 1..m : Append(u.armed, 0)[x] = u.armed[x]
    BY <2>1, CountedMint
  <2>4. QED
    BY <2>1, <2>2, <2>3
<1> HIDE DEF m
<1>2. m + 1 \in Nat /\ m + 1 \notin 1..m /\ 1..(m + 1) = (1..m) \cup {m + 1} /\ v.minted = m + 1
  BY <1>0 DEF m
<1>3. Numbered(v.alerts, m + 1, Alerted) /\ v.gone \subseteq 1..(m + 1)
  BY <1>0, <1>2 DEF Numbered
<1>4. \A d \in C : d.kind \in OfAlerts => AlertCall(d, m + 1, v.told)
  <2> SUFFICES ASSUME NEW d \in C, d.kind \in OfAlerts PROVE AlertCall(d, m + 1, v.told)
    OBVIOUS
  <2>1. AlertCall(d, m, u.told)
    BY <1>0
  <2>2. DOMAIN d.read \subseteq 1..m /\ DOMAIN d.list \subseteq 1..m /\ (d.kind = "fire" => d.id \subseteq 1..m)
    BY <2>1 DEF AlertCall, Numbered
  <2>3. QED
    BY <1>1, <1>2, <2>1, <2>2 DEF AlertCall, Numbered
<1>5. \A x \in DOMAIN v.alerts : v.alerts[x].fired => v.told[x] > 0
  BY <1>0, <1>1 DEF AlertsInv, Numbered
<1>6. e.kind \in OfAlerts => /\ e.kind = "create" /\ e.id = m + 1 /\ e.read = u.alerts /\ AlertCall(e, m + 1, v.told) /\ AlertNew(v, D, e)
  <2> SUFFICES ASSUME e.kind \in OfAlerts
               PROVE e.kind = "create" /\ e.id = m + 1 /\ e.read = u.alerts /\ AlertCall(e, m + 1, v.told) /\ AlertNew(v, D, e)
    OBVIOUS
  <2>1. e.kind = "create" /\ e.id = m + 1 /\ e.read = u.alerts /\ e.list = u.alerts /\ {"read", "list"} \subseteq DOMAIN e
    BY DEF m
  <2>2. AlertCall(e, m + 1, v.told)
    <3>1. e.kind # "fire" /\ e.id \in 1..(m + 1)
      BY <1>2, <2>1
    <3>2. Numbered(e.read, m + 1, Alerted) /\ Numbered(e.list, m + 1, Alerted) /\ \A x \in DOMAIN e.read : e.read[x].fired => v.told[x] > 0
      BY <1>3, <1>5, <2>1
    <3>3. QED
      BY <2>1, <3>1, <3>2 DEF AlertCall
  <2>3. \A d \in C : d.kind \in OfAlerts => e.id \notin DOMAIN d.read /\ (d.kind = "create" => d.id # e.id)
    <3> SUFFICES ASSUME NEW d \in C, d.kind \in OfAlerts PROVE e.id \notin DOMAIN d.read /\ (d.kind = "create" => d.id # e.id)
      OBVIOUS
    <3>1. DOMAIN d.read \subseteq 1..m /\ (d.kind = "create" => d.id \in 1..m)
      BY <1>0 DEF AlertCall, Numbered, Edits
    <3>2. QED
      BY <1>2, <2>1, <3>1
  <2>4. e.id \notin DOMAIN v.alerts /\ e.id \notin v.gone /\ v.told[e.id] = 0 /\ e.id \notin DOMAIN e.read
    BY <1>0, <1>1, <1>2, <2>1 DEF Numbered
  <2>5. QED
    BY <2>1, <2>2, <2>3, <2>4 DEF AlertNew
<1>7. \A d \in D : d.kind = "create" => AlertNew(v, D, d)
  <2> SUFFICES ASSUME NEW d \in C, d.kind = "create" PROVE AlertNew(v, D, d)
    BY <1>6 DEF OfAlerts, Edits
  <2>1. AlertNew(u, C, d) /\ d.id \in 1..m
    BY <1>0 DEF AlertCall, OfAlerts, Edits
  <2>2. v.told[d.id] = 0 /\ d.id # m + 1
    BY <1>1, <1>2, <2>1 DEF AlertNew
  <2>3. QED
    BY <1>6, <2>1, <2>2 DEF AlertNew
<1>8. ASSUME NEW x \in (1..(m + 1)) \ v.raced PROVE Due(v, D, x)
  <2>0. e.kind # "fire"
    BY <1>6 DEF OfAlerts
  <2>1. CASE x \in 1..m
    <3>1. Due(u, C, x) /\ v.told[x] = u.told[x] /\ v.armed[x] = u.armed[x]
      BY <1>0, <1>1, <1>8, <2>1
    <3>2. Firing(C, x) => Firing(D, x)
      BY DEF Firing
    <3>3. \A d \in D : d.kind = "fire" => d \in C
      BY <2>0
    <3>4. QED
      BY <3>1, <3>2, <3>3 DEF Due
  <2>2. CASE x = m + 1
    <3>1. v.told[x] = 0 /\ v.armed[x] = 0 /\ x \notin DOMAIN v.alerts
      BY <1>0, <1>1, <1>2, <2>2 DEF Numbered
    <3>2. \A d \in D : d.kind = "fire" => x \notin d.id /\ x \notin d.todo
      <4>1. ASSUME NEW d \in C, d.kind = "fire" PROVE d.id \subseteq 1..m /\ d.todo \subseteq d.id
        BY <1>0, <4>1 DEF AlertCall, Numbered, OfAlerts
      <4>2. QED
        BY <1>2, <2>0, <2>2, <4>1
    <3>3. v.told[x] <= v.armed[x] /\ ~Awaits(v.alerts, x)
      <4>1. v.told[x] <= v.armed[x]
        BY <3>1, NoneNone
      <4>2. ~Awaits(v.alerts, x)
        BY <3>1 DEF Awaits
      <4>3. QED
        BY <4>1, <4>2
    <3>4. /\ \A d \in D : ~(d.kind = "fire" /\ x \in d.todo)
          /\ \A c, d \in D : ~(c.kind = "fire" /\ d.kind = "fire" /\ x \in c.id /\ x \in d.id)
      BY <3>2
    <3>5. QED
      BY <3>3, <3>4 DEF Due
  <2>3. QED
    BY <1>2, <1>8, <2>1, <2>2
<1>9. (\A d \in D : d.kind \in OfAlerts => AlertCall(d, v.minted, v.told)) /\ v.gone \cap DOMAIN v.alerts \subseteq v.raced
  BY <1>2, <1>4, <1>6 DEF AlertsInv
<1>10. QED
  BY <1>1, <1>2, <1>3, <1>5, <1>7, <1>8, <1>9 DEF AlertsInv

\* The writes of the alerts.
LEMMA AlertsCreated == ASSUME AlertsInv(ui, calls), DOMAIN ui = RegFields, NEW c \in calls, c.kind = "create", Reg!Created(c) PROVE AlertsInv(ui', calls')
<1> DEFINE list == Reg!With(c.list, c.id, Reg!Alert)
           m == ui.minted
<1>0. /\ AlertCall(c, m, ui.told) /\ AlertNew(ui, calls, c) /\ m \in Nat /\ Counted(ui.armed, m) /\ Numbered(ui.alerts, m, Alerted)
      /\ c.list = c.read /\ c.id \in 1..m /\ {"read", "list"} \subseteq DOMAIN c /\ ui.gone \subseteq 1..m
      /\ ui.gone \cap DOMAIN ui.alerts \subseteq ui.raced /\ (\A x \in DOMAIN ui.alerts : ui.alerts[x].fired => ui.told[x] > 0)
      /\ \A x \in (1..m) \ ui.raced : Due(ui, calls, x)
  BY DEF AlertsInv, AlertCall, OfAlerts, Edits
<1>1. /\ calls' = calls \ {c} /\ ui'.minted = m /\ ui'.told = ui.told /\ ui'.armed = [ui.armed EXCEPT ![c.id] = 1]
      /\ ui'.alerts = list /\ ui'.gone = ui.gone
      /\ ui'.raced = ui.raced \cup Reg!Undone([c EXCEPT !.list = list], ui.alerts, {c.id})
  BY DEF Reg!Created, Reg!SaveAlerts, RegFields
<1>2. /\ DOMAIN list = DOMAIN c.read \cup {c.id} /\ list[c.id] = Reg!Alert
      /\ \A x \in DOMAIN c.read : x # c.id => list[x] = c.read[x]
  BY <1>0 DEF Reg!With
<1>3. Reg!Alert \in Alerted /\ Reg!Alert.fired = FALSE /\ Reg!Alert.active = TRUE
  BY DEF Reg!Alert, Alerted
<1> HIDE DEF list, m
<1>4. Numbered(list, m, Alerted) /\ \A x \in DOMAIN list : list[x].fired => ui.told[x] > 0
  BY <1>0, <1>2, <1>3 DEF Numbered, AlertCall
<1>5. ui.raced \subseteq ui'.raced /\ \A x : x \in ui'.raced \/ x \in {c.id} \/ Same(ui.alerts, list, x)
  <2>1. ui.alerts = c.read => \A x : x \notin {c.id} => Same(ui.alerts, list, x)
    BY <1>2 DEF Same
  <2>2. QED
    BY <1>0, <1>1, <2>1, Written
<1>6. Counted(ui'.armed, m) /\ ui'.armed[c.id] = 1 /\ \A x \in 1..m : x # c.id => ui'.armed[x] = ui.armed[x]
  BY <1>0, <1>1, CountedSet
<1>7. ui'.gone \cap DOMAIN ui'.alerts \subseteq ui'.raced
  BY <1>0, <1>1, <1>5 DEF AlertNew, Same
<1>8. \A d \in calls' : d.kind = "create" => d.id \notin DOMAIN ui'.alerts /\ d.id \notin ui'.gone
  <2> SUFFICES ASSUME NEW d \in calls, d # c, d.kind = "create" PROVE d.id \notin DOMAIN list /\ d.id \notin ui.gone
    BY <1>1
  <2>1. AlertNew(ui, calls, d)
    BY DEF AlertsInv
  <2>2. d.id \notin DOMAIN c.read /\ d.id # c.id
    BY <2>1, <1>0 DEF AlertNew, OfAlerts, Edits
  <2>3. QED
    BY <1>2, <2>1, <2>2 DEF AlertNew
<1>9. ASSUME NEW x \in 1..m, x \notin ui'.raced
      PROVE  \/ ui.told[x] < ui'.armed[x]
             \/ /\ ui.armed[x] <= ui'.armed[x]
                /\ Awaits(ui'.alerts, x) => Awaits(ui.alerts, x) /\ ~(c.kind = "fire" /\ x \in c.id)
  <2>1. CASE x = c.id
    <3>1. ui.told[x] = 0 /\ ui'.armed[x] = 1
      BY <1>0, <1>6, <2>1 DEF AlertNew
    <3>2. QED
      BY <3>1
  <2>2. CASE x # c.id
    <3>1. Same(ui.alerts, list, x) /\ ui'.armed[x] = ui.armed[x] /\ ui.armed[x] \in Nat
      BY <1>0, <1>5, <1>6, <1>9, <2>2, CountedNats
    <3>2. ui.armed[x] <= ui'.armed[x]
      BY <3>1
    <3>3. Awaits(ui'.alerts, x) => Awaits(ui.alerts, x)
      BY <1>1, <3>1 DEF Same, Awaits
    <3>4. QED
      BY <3>2, <3>3
  <2>3. QED
    BY <2>1, <2>2
<1>10. /\ ui'.minted = ui.minted /\ Counted(ui'.armed, ui.minted) /\ Numbered(ui'.alerts, ui.minted, Alerted) /\ ui'.gone \subseteq 1..ui.minted
       /\ \A x \in DOMAIN ui'.alerts : ui'.alerts[x].fired => ui.told[x] > 0
  BY <1>0, <1>1, <1>4, <1>6 DEF m
<1>11. \A x \in 1..ui.minted : x \notin ui'.raced =>
            \/ ui.told[x] < ui'.armed[x]
            \/ /\ ui.armed[x] <= ui'.armed[x]
               /\ Awaits(ui'.alerts, x) => Awaits(ui.alerts, x) /\ ~(c.kind = "fire" /\ x \in c.id)
  BY <1>9 DEF m
<1>12. QED
  BY <1>1, <1>5, <1>7, <1>8, <1>10, <1>11, AlertsWritten

LEMMA AlertsDeleted == ASSUME AlertsInv(ui, calls), DOMAIN ui = RegFields, NEW c \in calls, c.kind = "delete", Reg!Deleted(c) PROVE AlertsInv(ui', calls')
<1> DEFINE list == Reg!Without(c.list, c.id)
           m == ui.minted
<1>0. /\ AlertCall(c, m, ui.told) /\ m \in Nat /\ Counted(ui.armed, m) /\ Numbered(ui.alerts, m, Alerted)
      /\ c.list = c.read /\ c.id \in 1..m /\ {"read", "list"} \subseteq DOMAIN c /\ ui.gone \subseteq 1..m
      /\ ui.gone \cap DOMAIN ui.alerts \subseteq ui.raced /\ (\A x \in DOMAIN ui.alerts : ui.alerts[x].fired => ui.told[x] > 0)
      /\ \A x \in (1..m) \ ui.raced : Due(ui, calls, x)
  BY DEF AlertsInv, AlertCall, OfAlerts, Edits
<1>1. /\ calls' = calls \ {c} /\ ui'.minted = m /\ ui'.told = ui.told /\ ui'.armed = ui.armed
      /\ ui'.alerts = list /\ ui'.gone = ui.gone \cup ({c.id} \cap DOMAIN c.read)
      /\ ui'.raced = ui.raced \cup Reg!Undone([c EXCEPT !.list = list], ui.alerts, {c.id})
  BY <1>0 DEF Reg!Deleted, Reg!SaveAlerts, RegFields
<1>2. DOMAIN list = DOMAIN c.read \ {c.id} /\ \A x \in DOMAIN list : list[x] = c.read[x]
  BY <1>0 DEF Reg!Without
<1> HIDE DEF list, m
<1>4. Numbered(list, m, Alerted) /\ \A x \in DOMAIN list : list[x].fired => ui.told[x] > 0
  BY <1>0, <1>2 DEF Numbered, AlertCall
<1>5. ui.raced \subseteq ui'.raced /\ \A x : x \in ui'.raced \/ x \in {c.id} \/ Same(ui.alerts, list, x)
  <2>1. ui.alerts = c.read => \A x : x \notin {c.id} => Same(ui.alerts, list, x)
    BY <1>2 DEF Same
  <2>2. QED
    BY <1>0, <1>1, <2>1, Written
<1>7. ui'.gone \cap DOMAIN ui'.alerts \subseteq ui'.raced
  BY <1>0, <1>1, <1>2, <1>5 DEF Same
<1>8. \A d \in calls' : d.kind = "create" => d.id \notin DOMAIN ui'.alerts /\ d.id \notin ui'.gone
  <2> SUFFICES ASSUME NEW d \in calls, d.kind = "create" PROVE d.id \notin DOMAIN list /\ d.id \notin ui'.gone
    BY <1>1
  <2>1. AlertNew(ui, calls, d)
    BY DEF AlertsInv
  <2>2. d.id \notin DOMAIN c.read
    BY <2>1 DEF AlertNew, OfAlerts, Edits
  <2>3. QED
    BY <1>1, <1>2, <2>1, <2>2 DEF AlertNew
<1>9. ASSUME NEW x \in 1..m, x \notin ui'.raced
      PROVE  \/ ui.told[x] < ui'.armed[x]
             \/ /\ ui.armed[x] <= ui'.armed[x]
                /\ Awaits(ui'.alerts, x) => Awaits(ui.alerts, x) /\ ~(c.kind = "fire" /\ x \in c.id)
  <2>1. ui'.armed[x] = ui.armed[x] /\ ui.armed[x] \in Nat
    BY <1>0, <1>1, CountedNats
  <2>2. ui.armed[x] <= ui'.armed[x]
    BY <2>1
  <2>3. Awaits(ui'.alerts, x) => Awaits(ui.alerts, x)
    BY <1>1, <1>2, <1>5, <1>9 DEF Same, Awaits
  <2>4. QED
    BY <2>2, <2>3
<1>10. /\ ui'.minted = ui.minted /\ Counted(ui'.armed, ui.minted) /\ Numbered(ui'.alerts, ui.minted, Alerted) /\ ui'.gone \subseteq 1..ui.minted
       /\ \A x \in DOMAIN ui'.alerts : ui'.alerts[x].fired => ui.told[x] > 0
  BY <1>0, <1>1, <1>4 DEF m
<1>11. \A x \in 1..ui.minted : x \notin ui'.raced =>
            \/ ui.told[x] < ui'.armed[x]
            \/ /\ ui.armed[x] <= ui'.armed[x]
               /\ Awaits(ui'.alerts, x) => Awaits(ui.alerts, x) /\ ~(c.kind = "fire" /\ x \in c.id)
  BY <1>9 DEF m
<1>12. QED
  BY <1>1, <1>5, <1>7, <1>8, <1>10, <1>11, AlertsWritten

LEMMA AlertsArmed ==
  ASSUME AlertsInv(ui, calls), DOMAIN ui = RegFields, NEW c \in calls, c.kind \in {"arm", "disarm"}, Reg!Armed(c) PROVE AlertsInv(ui', calls')
<1> DEFINE on == c.kind = "arm"
           list == [x \in DOMAIN c.list |-> IF x # c.id THEN c.list[x] ELSE [active |-> on, fired |-> c.list[x].fired /\ ~on]]
           own == Reg!If(c.id \in DOMAIN ui.alerts, {c.id})
           m == ui.minted
<1>0. /\ AlertCall(c, m, ui.told) /\ m \in Nat /\ Counted(ui.armed, m) /\ Counted(ui.told, m) /\ Numbered(ui.alerts, m, Alerted)
      /\ c.list = c.read /\ c.id \in 1..m /\ {"read", "list"} \subseteq DOMAIN c /\ ui.gone \subseteq 1..m
      /\ ui.gone \cap DOMAIN ui.alerts \subseteq ui.raced /\ (\A x \in DOMAIN ui.alerts : ui.alerts[x].fired => ui.told[x] > 0)
      /\ \A x \in (1..m) \ ui.raced : Due(ui, calls, x)
  BY DEF AlertsInv, AlertCall, OfAlerts, Edits
<1>a. c.kind \in OfAlerts /\ c.kind # "fire" /\ c.kind # "create"
  BY DEF OfAlerts, Edits
<1>1. /\ calls' = calls \ {c} /\ ui'.minted = m /\ ui'.told = ui.told
      /\ ui'.armed = [ui.armed EXCEPT ![c.id] = ui.armed[c.id] + (IF on THEN 1 ELSE 0)]
      /\ ui'.alerts = list /\ ui'.gone = ui.gone
      /\ ui'.raced = ui.raced \cup Reg!Undone([c EXCEPT !.list = list], ui.alerts, own)
  BY <1>0 DEF Reg!Armed, Reg!SaveAlerts, RegFields
<1>2. /\ DOMAIN list = DOMAIN c.read /\ (\A x \in DOMAIN list : x # c.id => list[x] = c.read[x])
      /\ c.id \in DOMAIN list => list[c.id] = [active |-> on, fired |-> c.read[c.id].fired /\ ~on]
  BY <1>0
<1>b. \A x : x \in own => x = c.id /\ x \in DOMAIN ui.alerts
  BY DEF Reg!If
<1>c. c.id \in DOMAIN ui.alerts => c.id \in own
  BY DEF Reg!If
<1> HIDE DEF list, m, own
<1>3. c.id \in DOMAIN list => /\ list[c.id] \in Alerted /\ (list[c.id].fired => c.read[c.id].fired /\ ~on) /\ (list[c.id].active <=> on)
  <2> SUFFICES ASSUME c.id \in DOMAIN list
               PROVE list[c.id] \in Alerted /\ (list[c.id].fired => c.read[c.id].fired /\ ~on) /\ (list[c.id].active <=> on)
    OBVIOUS
  <2>1. c.read[c.id] \in Alerted
    BY <1>0, <1>2 DEF AlertCall, Numbered
  <2>2. c.read[c.id].fired \in BOOLEAN /\ on \in BOOLEAN
    BY <2>1 DEF Alerted
  <2>3. \A p, q \in BOOLEAN : [active |-> p, fired |-> q /\ ~p] \in Alerted
    BY DEF Alerted
  <2> HIDE DEF on
  <2> DEFINE a == [active |-> on, fired |-> c.read[c.id].fired /\ ~on]
  <2>4. a \in Alerted
    BY <2>2, <2>3
  <2>5. a.active = on /\ a.fired = (c.read[c.id].fired /\ ~on)
    OBVIOUS
  <2>6. list[c.id] = a
    BY <1>2
  <2> HIDE DEF a
  <2>7. QED
    BY <2>4, <2>5, <2>6
<1>4. Numbered(list, m, Alerted) /\ \A x \in DOMAIN list : list[x].fired => ui.told[x] > 0
  BY <1>0, <1>2, <1>3 DEF Numbered, AlertCall
<1>5. ui.raced \subseteq ui'.raced /\ \A x : x \in ui'.raced \/ x \in own \/ Same(ui.alerts, list, x)
  <2>1. ui.alerts = c.read => \A x : x \notin own => Same(ui.alerts, list, x)
    BY <1>2, <1>c DEF Same
  <2>2. QED
    BY <1>0, <1>1, <2>1, Written
<1>6. /\ Counted(ui'.armed, m) /\ ui.armed[c.id] \in Nat /\ ui'.armed[c.id] = ui.armed[c.id] + (IF on THEN 1 ELSE 0)
      /\ \A x \in 1..m : x # c.id => ui'.armed[x] = ui.armed[x]
  <2>1. ui.armed[c.id] \in Nat
    BY <1>0, CountedNats
  <2>2. ui.armed[c.id] + (IF on THEN 1 ELSE 0) \in Nat
    BY <2>1
  <2>3. QED
    BY <1>0, <1>1, <2>1, <2>2, CountedSet
<1>7. ui'.gone \cap DOMAIN ui'.alerts \subseteq ui'.raced
  <2> SUFFICES ASSUME NEW x \in ui.gone, x \in DOMAIN list, x \notin ui'.raced PROVE FALSE
    BY <1>1
  <2>1. x \in DOMAIN ui.alerts
    BY <1>5, <1>b DEF Same
  <2>2. QED
    BY <1>0, <1>5, <2>1
<1>8. \A d \in calls' : d.kind = "create" => d.id \notin DOMAIN ui'.alerts /\ d.id \notin ui'.gone
  <2> SUFFICES ASSUME NEW d \in calls, d.kind = "create" PROVE d.id \notin DOMAIN list /\ d.id \notin ui.gone
    BY <1>1
  <2>1. AlertNew(ui, calls, d)
    BY DEF AlertsInv
  <2>2. d.id \notin DOMAIN c.read
    BY <1>a, <2>1 DEF AlertNew
  <2>3. QED
    BY <1>2, <2>1, <2>2 DEF AlertNew
<1>9. ASSUME NEW x \in 1..m, x \notin ui'.raced
      PROVE  \/ ui.told[x] < ui'.armed[x]
             \/ /\ ui.armed[x] <= ui'.armed[x]
                /\ Awaits(ui'.alerts, x) => Awaits(ui.alerts, x) /\ ~(c.kind = "fire" /\ x \in c.id)
  <2>0. ui.armed[x] \in Nat /\ ui.told[x] \in Nat /\ Due(ui, calls, x)
    BY <1>0, <1>5, <1>9, CountedNats
  <2>1. CASE x = c.id /\ on
    <3>1. ui'.armed[x] = ui.armed[x] + 1 /\ ui.told[x] <= ui.armed[x]
      BY <1>6, <2>0, <2>1 DEF Due
    <3>2. QED
      BY <2>0, <3>1
  <2>2. CASE x = c.id /\ ~on
    <3>1. ui'.armed[x] = ui.armed[x] + 0
      BY <1>6, <2>2
    <3>2. ui.armed[x] <= ui'.armed[x]
      BY <2>0, <3>1
    <3>3. ~Awaits(ui'.alerts, x)
      BY <1>1, <1>3, <2>2 DEF Awaits
    <3>4. QED
      BY <3>2, <3>3
  <2>3. CASE x # c.id
    <3>1. Same(ui.alerts, list, x) /\ ui'.armed[x] = ui.armed[x]
      BY <1>5, <1>6, <1>9, <1>b, <2>3
    <3>2. ui.armed[x] <= ui'.armed[x]
      BY <2>0, <3>1
    <3>3. Awaits(ui'.alerts, x) => Awaits(ui.alerts, x)
      BY <1>1, <3>1 DEF Same, Awaits
    <3>4. QED
      BY <1>a, <3>2, <3>3
  <2>4. QED
    BY <2>1, <2>2, <2>3
<1>10. /\ ui'.minted = ui.minted /\ Counted(ui'.armed, ui.minted) /\ Numbered(ui'.alerts, ui.minted, Alerted) /\ ui'.gone \subseteq 1..ui.minted
       /\ \A x \in DOMAIN ui'.alerts : ui'.alerts[x].fired => ui.told[x] > 0
  BY <1>0, <1>1, <1>4, <1>6 DEF m
<1>11. \A x \in 1..ui.minted : x \notin ui'.raced =>
            \/ ui.told[x] < ui'.armed[x]
            \/ /\ ui.armed[x] <= ui'.armed[x]
               /\ Awaits(ui'.alerts, x) => Awaits(ui.alerts, x) /\ ~(c.kind = "fire" /\ x \in c.id)
  BY <1>9 DEF m
<1>12. QED
  BY <1>1, <1>5, <1>7, <1>8, <1>10, <1>11, AlertsWritten

LEMMA AlertsFired == ASSUME AlertsInv(ui, calls), DOMAIN ui = RegFields, NEW c \in calls, c.kind = "fire", Reg!Fired(c) PROVE AlertsInv(ui', calls')
<1> DEFINE own == c.id \cap DOMAIN ui.alerts
           m == ui.minted
<1>0. /\ AlertCall(c, m, ui.told) /\ m \in Nat /\ Counted(ui.armed, m) /\ Numbered(ui.alerts, m, Alerted)
      /\ {"read", "list"} \subseteq DOMAIN c /\ ui.gone \subseteq 1..m
      /\ ui.gone \cap DOMAIN ui.alerts \subseteq ui.raced /\ (\A x \in DOMAIN ui.alerts : ui.alerts[x].fired => ui.told[x] > 0)
      /\ c.id \subseteq DOMAIN c.read /\ (\A x \in c.id \ c.todo : ui.told[x] > 0) /\ DOMAIN c.list = DOMAIN c.read
      /\ \A x \in DOMAIN c.read : IF x \in c.id THEN c.list[x].fired ELSE c.list[x] = c.read[x]
  BY DEF AlertsInv, AlertCall, OfAlerts, Edits
<1>1. /\ calls' = calls \ {c} /\ ui'.minted = m /\ ui'.told = ui.told /\ ui'.armed = ui.armed
      /\ ui'.alerts = c.list /\ ui'.gone = ui.gone /\ c.todo = {}
      /\ ui'.raced = ui.raced \cup Reg!Undone([c EXCEPT !.list = c.list], ui.alerts, own)
  BY <1>0 DEF Reg!Fired, Reg!SaveAlerts, RegFields
<1> HIDE DEF m, own
<1>4. Numbered(c.list, m, Alerted) /\ \A x \in DOMAIN c.list : c.list[x].fired => ui.told[x] > 0
  BY <1>0, <1>1 DEF Numbered, AlertCall
<1>5. ui.raced \subseteq ui'.raced /\ \A x : x \in ui'.raced \/ x \in own \/ Same(ui.alerts, c.list, x)
  <2>1. ui.alerts = c.read => \A x : x \notin own => Same(ui.alerts, c.list, x)
    BY <1>0 DEF Same, own
  <2>2. QED
    BY <1>0, <1>1, <2>1, Written
<1>7. ui'.gone \cap DOMAIN ui'.alerts \subseteq ui'.raced
  <2> SUFFICES ASSUME NEW x \in ui.gone, x \in DOMAIN c.list, x \notin ui'.raced PROVE FALSE
    BY <1>1
  <2>1. x \in DOMAIN ui.alerts
    BY <1>5 DEF Same, own
  <2>2. QED
    BY <1>0, <1>5, <2>1
<1>8. \A d \in calls' : d.kind = "create" => d.id \notin DOMAIN ui'.alerts /\ d.id \notin ui'.gone
  <2> SUFFICES ASSUME NEW d \in calls, d.kind = "create" PROVE d.id \notin DOMAIN c.list /\ d.id \notin ui.gone
    BY <1>1
  <2>1. AlertNew(ui, calls, d)
    BY DEF AlertsInv
  <2>2. d.id \notin DOMAIN c.read
    BY <2>1 DEF AlertNew, OfAlerts
  <2>3. QED
    BY <1>0, <2>1, <2>2 DEF AlertNew
<1>9. ASSUME NEW x \in 1..m, x \notin ui'.raced
      PROVE  \/ ui.told[x] < ui'.armed[x]
             \/ /\ ui.armed[x] <= ui'.armed[x]
                /\ Awaits(ui'.alerts, x) => Awaits(ui.alerts, x) /\ ~(c.kind = "fire" /\ x \in c.id)
  <2>1. ui'.armed[x] = ui.armed[x] /\ ui.armed[x] \in Nat
    BY <1>0, <1>1, CountedNats
  <2>2. ui.armed[x] <= ui'.armed[x]
    BY <2>1
  <2>3. Awaits(ui'.alerts, x) => Awaits(ui.alerts, x) /\ x \notin c.id
    BY <1>0, <1>1, <1>5, <1>9 DEF Same, Awaits, own
  <2>4. QED
    BY <2>2, <2>3
<1>10. /\ ui'.minted = ui.minted /\ Counted(ui'.armed, ui.minted) /\ Numbered(ui'.alerts, ui.minted, Alerted) /\ ui'.gone \subseteq 1..ui.minted
       /\ \A x \in DOMAIN ui'.alerts : ui'.alerts[x].fired => ui.told[x] > 0
  BY <1>0, <1>1, <1>4 DEF m
<1>11. \A x \in 1..ui.minted : x \notin ui'.raced =>
            \/ ui.told[x] < ui'.armed[x]
            \/ /\ ui.armed[x] <= ui'.armed[x]
               /\ Awaits(ui'.alerts, x) => Awaits(ui.alerts, x) /\ ~(c.kind = "fire" /\ x \in c.id)
  BY <1>9 DEF m
<1>12. QED
  BY <1>1, <1>5, <1>7, <1>8, <1>10, <1>11, AlertsWritten

\* A check finds some alerts hit; each is told to the devices, one after the other.
LEMMA AlertsHit ==
  ASSUME AlertsInv(ui, calls), DOMAIN ui = RegFields, NEW c \in calls, c.kind = "check", NEW hit, Reg!CheckReads(c, hit)
  PROVE  AlertsInv(ui', calls')
<1> DEFINE m == ui.minted
           list == [x \in DOMAIN ui.alerts |-> IF x \in hit THEN [ui.alerts[x] EXCEPT !.fired = TRUE] ELSE ui.alerts[x]]
           f == [kind |-> "fire", n |-> c.n, id |-> hit, read |-> ui.alerts, todo |-> hit, sending |-> FALSE, to |-> {}, list |-> list]
<1>0. /\ m \in Nat /\ Counted(ui.told, m) /\ Counted(ui.armed, m) /\ Numbered(ui.alerts, m, Alerted)
      /\ (\A x \in DOMAIN ui.alerts : ui.alerts[x].fired => ui.told[x] > 0)
      /\ (\A d \in calls : d.kind \in OfAlerts => AlertCall(d, m, ui.told))
      /\ (\A d \in calls : d.kind = "create" => AlertNew(ui, calls, d))
      /\ \A x \in (1..m) \ ui.raced : Due(ui, calls, x)
  BY DEF AlertsInv
<1>1. /\ ui'.minted = m /\ ui'.told = ui.told /\ ui'.armed = ui.armed /\ ui'.alerts = ui.alerts /\ ui'.gone = ui.gone
      /\ ui'.raced = ui.raced \cup {x \in hit : Reg!Hitting(x)} /\ hit \subseteq Reg!Watched(ui)
  BY DEF Reg!CheckReads, RegFields
<1>2. (\A d \in calls' : d = f \/ d \in calls) /\ \A d \in calls : d \in calls' \/ d.kind = "check"
  <2>1. calls' = (calls \ {c}) \cup Reg!If(hit # {}, {f})
    BY DEF Reg!CheckReads
  <2> HIDE DEF f
  <2>2. QED
    BY <2>1 DEF Reg!If
<1>3. \A x \in hit : Awaits(ui.alerts, x)
  BY <1>1 DEF Reg!Watched, Awaits
<1>4. \A x : Reg!Hitting(x) <=> Firing(calls, x)
  BY DEF Reg!Hitting, Reg!Of, Firing
<1>5. f.kind = "fire" /\ f.id = hit /\ f.todo = hit /\ f.read = ui.alerts /\ f.list = list /\ DOMAIN f = FireFields
  BY DEF FireFields
<1>6. DOMAIN list = DOMAIN ui.alerts /\ \A x \in DOMAIN list : list[x] \in Alerted /\ IF x \in hit THEN list[x].fired ELSE list[x] = ui.alerts[x]
  <2>1. \A a \in Alerted : [a EXCEPT !.fired = TRUE] \in Alerted /\ [a EXCEPT !.fired = TRUE].fired = TRUE
    BY DEF Alerted
  <2>2. \A x \in DOMAIN ui.alerts : ui.alerts[x] \in Alerted
    BY <1>0 DEF Numbered
  <2>3. QED
    BY <2>1, <2>2
<1> HIDE DEF f, list, m
<1>7. AlertCall(f, m, ui.told)
  <2>1. Numbered(list, m, Alerted) /\ hit \subseteq DOMAIN ui.alerts
    BY <1>0, <1>3, <1>6 DEF Numbered, Awaits
  <2>2. {"read", "list"} \subseteq DOMAIN f /\ f.kind \notin Edits
    BY <1>5 DEF FireFields, Edits
  <2>3. QED
    BY <1>0, <1>5, <1>6, <2>1, <2>2 DEF AlertCall
<1>8. \A d \in calls' : d.kind = "create" => AlertNew(ui', calls', d)
  <2> SUFFICES ASSUME NEW d \in calls, d.kind = "create" PROVE AlertNew(ui', calls', d)
    BY <1>2, <1>5
  <2>1. AlertNew(ui, calls, d)
    BY <1>0
  <2>2. d.id \notin DOMAIN f.read
    BY <1>5, <2>1 DEF AlertNew
  <2>3. QED
    BY <1>1, <1>2, <1>5, <2>1, <2>2 DEF AlertNew
<1>9. ASSUME NEW x \in (1..m) \ ui'.raced PROVE Due(ui', calls', x)
  <2>1. Due(ui, calls, x)
    BY <1>0, <1>1, <1>9
  <2>2. Firing(calls, x) => Firing(calls', x)
    <3>1. \A d \in calls : d.kind = "fire" => d \in calls'
      BY <1>2
    <3>2. QED
      BY <3>1 DEF Firing
  <2>3. CASE x \in hit
    <3>1. ~Firing(calls, x)
      BY <1>1, <1>4, <1>9, <2>3
    <3>2. ui.told[x] < ui.armed[x]
      BY <1>3, <2>1, <2>3, <3>1 DEF Due
    <3>3. \A d \in calls' : d.kind = "fire" /\ x \in d.id => d = f
      BY <1>2, <3>1 DEF Firing
    <3>4. QED
      BY <1>1, <2>1, <3>2, <3>3 DEF Due
  <2>4. CASE x \notin hit
    <3>1. \A d \in calls' : d.kind = "fire" /\ (x \in d.id \/ x \in d.todo) => d \in calls
      BY <1>2, <1>5, <2>4
    <3>2. QED
      BY <1>1, <2>1, <2>2, <3>1 DEF Due
  <2>5. QED
    BY <2>3, <2>4
<1>10. \A d \in calls' : d.kind \in OfAlerts => AlertCall(d, m, ui.told)
  BY <1>0, <1>2, <1>7
<1>11. AlertsInv(ui, calls) /\ m = ui.minted
  BY DEF m
<1>12. ui'.gone \cap DOMAIN ui'.alerts \subseteq ui'.raced /\ ui'.gone \subseteq 1..m
  BY <1>1, <1>11 DEF AlertsInv
<1>13. QED
  BY <1>0, <1>1, <1>8, <1>9, <1>10, <1>12 DEF AlertsInv

\* A request of the check moves on: one step of a delivery.
LEMMA AlertsMove ==
  ASSUME NEW u, NEW C, AlertsInv(u, C), NEW c \in C, c.kind = "fire", NEW v, NEW e, NEW D, D = (C \ {c}) \cup {e},
         e.kind = "fire", e.id = c.id, e.read = c.read, e.list = c.list, e.todo \subseteq c.todo, DOMAIN e = DOMAIN c,
         v.minted = u.minted, v.armed = u.armed, v.alerts = u.alerts, v.gone = u.gone, v.raced = u.raced, Counted(v.told, u.minted),
         \A x \in 1..u.minted : \/ v.told[x] = u.told[x] /\ (x \in c.todo => x \in e.todo)
                                \/ v.told[x] = u.told[x] + 1 /\ x \in c.todo /\ x \notin e.todo
  PROVE  AlertsInv(v, D)
<1> DEFINE m == u.minted
<1>0. /\ m \in Nat /\ Counted(u.told, m) /\ Counted(u.armed, m) /\ Numbered(u.alerts, m, Alerted)
      /\ (\A x \in DOMAIN u.alerts : u.alerts[x].fired => u.told[x] > 0)
      /\ (\A d \in C : d.kind \in OfAlerts => AlertCall(d, m, u.told))
      /\ (\A d \in C : d.kind = "create" => AlertNew(u, C, d))
      /\ (\A x \in (1..m) \ u.raced : Due(u, C, x)) /\ u.gone \cap DOMAIN u.alerts \subseteq u.raced /\ u.gone \subseteq 1..m
  BY DEF AlertsInv
<1>1. AlertCall(c, m, u.told) /\ c.kind \notin Edits /\ c.kind \in OfAlerts /\ e.kind \in OfAlerts
  BY <1>0 DEF OfAlerts, Edits
<1>2. \A x \in 1..m : u.told[x] \in Nat /\ u.armed[x] \in Nat /\ v.told[x] \in Nat /\ v.told[x] >= u.told[x]
  <2>1. \A x \in 1..m : u.told[x] \in Nat /\ u.armed[x] \in Nat
    BY <1>0, CountedNats
  <2>2. \A x \in 1..m : v.told[x] = u.told[x] \/ v.told[x] = u.told[x] + 1
    OBVIOUS
  <2> HIDE DEF m
  <2>3. QED
    BY <2>1, <2>2
<1>3. v.minted = m
  OBVIOUS
<1> HIDE DEF m
<1>4. \A x \in 1..m : u.told[x] > 0 => v.told[x] > 0
  BY <1>2
<1>5. \A d \in C : d.kind \in OfAlerts => AlertCall(d, m, v.told)
  <2> SUFFICES ASSUME NEW d \in C, d.kind \in OfAlerts PROVE AlertCall(d, m, v.told)
    OBVIOUS
  <2>1. AlertCall(d, m, u.told)
    BY <1>0
  <2>2. DOMAIN d.read \subseteq 1..m /\ (d.kind = "fire" => d.id \subseteq 1..m)
    BY <2>1 DEF AlertCall, Numbered
  <2>3. QED
    BY <1>4, <2>1, <2>2 DEF AlertCall
<1>6. AlertCall(e, m, v.told)
  <2>1. AlertCall(c, m, v.told) /\ c.id \subseteq DOMAIN c.read /\ DOMAIN c.read \subseteq 1..m
    BY <1>1, <1>5 DEF AlertCall, Numbered
  <2>2. ASSUME NEW x \in e.id \ e.todo PROVE v.told[x] > 0
    <3>1. x \in c.id /\ x \in 1..m
      BY <2>1, <2>2
    <3>2. CASE x \in c.todo
      <4>1. v.told[x] = u.told[x] + 1
        BY <2>2, <3>1, <3>2 DEF m
      <4>2. QED
        BY <1>2, <3>1, <4>1
    <3>3. CASE x \notin c.todo
      BY <2>1, <3>1, <3>3 DEF AlertCall
    <3>4. QED
      BY <3>2, <3>3
  <2>3. e.todo \subseteq e.id /\ e.kind \notin Edits /\ DOMAIN e = DOMAIN c
    BY <1>1, <2>1 DEF AlertCall
  <2>4. QED
    BY <2>1, <2>2, <2>3 DEF AlertCall
<1>7. \A d \in D : d.kind = "create" => AlertNew(v, D, d)
  <2> SUFFICES ASSUME NEW d \in C, d.kind = "create" PROVE AlertNew(v, D, d)
    OBVIOUS
  <2>1. AlertNew(u, C, d) /\ d.id \in 1..m
    BY <1>0 DEF AlertCall, OfAlerts, Edits
  <2>2. d.id \notin DOMAIN c.read /\ d.id \notin c.todo
    BY <1>1, <2>1 DEF AlertNew, AlertCall
  <2>3. v.told[d.id] = 0
    BY <2>1, <2>2 DEF AlertNew, m
  <2>4. QED
    BY <2>1, <2>2, <2>3 DEF AlertNew
<1>8. ASSUME NEW x \in (1..m) \ v.raced PROVE Due(v, D, x)
  <2>1. Due(u, C, x) /\ u.told[x] \in Nat /\ u.armed[x] \in Nat
    BY <1>0, <1>2, <1>8
  <2>2. Firing(C, x) => Firing(D, x)
    BY DEF Firing
  <2>3. \A d, g \in D : d.kind = "fire" /\ g.kind = "fire" /\ x \in d.id /\ x \in g.id => d = g
    BY <2>1 DEF Due
  <2>4. CASE v.told[x] = u.told[x] /\ (x \in c.todo => x \in e.todo)
    BY <2>1, <2>2, <2>3, <2>4 DEF Due
  <2>5. CASE v.told[x] = u.told[x] + 1 /\ x \in c.todo /\ x \notin e.todo
    <3>1. u.told[x] < u.armed[x] /\ x \in c.id
      BY <1>1, <2>1, <2>5 DEF Due, AlertCall
    <3>2. v.told[x] <= v.armed[x]
      BY <2>1, <2>5, <3>1
    <3>3. Firing(D, x)
      BY <3>1 DEF Firing
    <3>4. ASSUME NEW d \in D, d.kind = "fire", x \in d.todo PROVE FALSE
      <4>1. d \in C /\ d # c
        BY <2>5, <3>4
      <4>2. d.todo \subseteq d.id
        BY <1>0, <3>4, <4>1 DEF AlertCall, OfAlerts
      <4>3. QED
        BY <2>1, <3>1, <3>4, <4>1, <4>2 DEF Due
    <3>5. QED
      BY <2>3, <3>2, <3>3, <3>4 DEF Due
  <2>6. QED
    BY <1>8, <2>4, <2>5 DEF m
<1>9. (\A d \in D : d.kind \in OfAlerts => AlertCall(d, m, v.told)) /\ \A x \in DOMAIN v.alerts : v.alerts[x].fired => v.told[x] > 0
  BY <1>0, <1>4, <1>5, <1>6 DEF Numbered
<1>10. QED
  BY <1>0, <1>3, <1>7, <1>8, <1>9 DEF AlertsInv, m

LEMMA AlertsTold ==
  ASSUME AlertsInv(ui, calls), DOMAIN ui = RegFields, NEW c \in calls, c.kind = "fire",
         Reg!Tell(c) \/ \E id \in c.todo, bad \in SUBSET c.to : Reg!Told(c, id, bad)
  PROVE  AlertsInv(ui', calls')
<1>0. /\ ui.minted \in Nat /\ Counted(ui.told, ui.minted) /\ DOMAIN c = FireFields /\ c.todo \subseteq c.id /\ c.id \subseteq 1..ui.minted
  BY DEF AlertsInv, AlertCall, OfAlerts, Numbered
<1>1. CASE Reg!Tell(c)
  <2> DEFINE e == [c EXCEPT !.sending = TRUE, !.to = Reg!ToSet(ui.tokens)]
  <2>1. e.kind = "fire" /\ e.id = c.id /\ e.read = c.read /\ e.list = c.list /\ e.todo = c.todo /\ DOMAIN e = DOMAIN c
    BY <1>0 DEF FireFields
  <2>2. calls' = (calls \ {c}) \cup {e} /\ ui' = ui
    BY <1>1 DEF Reg!Tell
  <2> HIDE DEF e
  <2>3. \A x \in 1..ui.minted : ui'.told[x] = ui.told[x] /\ (x \in c.todo => x \in e.todo)
    BY <2>1, <2>2
  <2>4. /\ ui'.minted = ui.minted /\ ui'.armed = ui.armed /\ ui'.alerts = ui.alerts /\ ui'.gone = ui.gone /\ ui'.raced = ui.raced
        /\ Counted(ui'.told, ui.minted) /\ e.todo \subseteq c.todo
    BY <1>0, <2>1, <2>2
  <2>5. QED
    BY <2>1, <2>2, <2>3, <2>4, AlertsMove
<1>2. ASSUME NEW id \in c.todo, NEW bad, Reg!Told(c, id, bad) PROVE AlertsInv(ui', calls')
  <2> DEFINE e == [c EXCEPT !.sending = FALSE, !.to = {}, !.todo = c.todo \ {id}]
  <2>1. e.kind = "fire" /\ e.id = c.id /\ e.read = c.read /\ e.list = c.list /\ e.todo = c.todo \ {id} /\ DOMAIN e = DOMAIN c
    BY <1>0 DEF FireFields
  <2>2. calls' = (calls \ {c}) \cup {e}
    BY <1>2 DEF Reg!Told
  <2>3. /\ ui'.minted = ui.minted /\ ui'.armed = ui.armed /\ ui'.alerts = ui.alerts /\ ui'.gone = ui.gone /\ ui'.raced = ui.raced
        /\ ui'.told = [ui.told EXCEPT ![id] = ui.told[id] + 1]
    BY <1>2 DEF Reg!Told, Reg!Drop, RegFields
  <2> HIDE DEF e
  <2>4. id \in 1..ui.minted /\ ui.told[id] \in Nat
    BY <1>0, CountedNats
  <2>5. ui.told[id] + 1 \in Nat
    BY <2>4
  <2>6. Counted(ui'.told, ui.minted) /\ ui'.told[id] = ui.told[id] + 1 /\ \A x \in 1..ui.minted : x # id => ui'.told[x] = ui.told[x]
    BY <1>0, <2>3, <2>4, <2>5, CountedSet
  <2>7. \A x \in 1..ui.minted : \/ ui'.told[x] = ui.told[x] /\ (x \in c.todo => x \in e.todo)
                                \/ ui'.told[x] = ui.told[x] + 1 /\ x \in c.todo /\ x \notin e.todo
    BY <2>1, <2>6
  <2>8. e.todo \subseteq c.todo /\ e.kind = "fire" /\ e.id = c.id /\ e.read = c.read /\ e.list = c.list /\ DOMAIN e = DOMAIN c
    BY <2>1
  <2>9. /\ ui'.minted = ui.minted /\ ui'.armed = ui.armed /\ ui'.alerts = ui.alerts /\ ui'.gone = ui.gone /\ ui'.raced = ui.raced
        /\ Counted(ui'.told, ui.minted)
    BY <2>3, <2>6
  <2>10. QED
    BY <2>2, <2>7, <2>8, <2>9, AlertsMove
<1>3. QED
  BY <1>1, <1>2

LEMMA AlertsAsk ==
  ASSUME AlertsInv(ui, calls), DOMAIN ui = RegFields,
         \/ Reg!Create \/ Reg!Check \/ \E id \in DOMAIN ui.alerts : Reg!Delete(id) \/ Reg!SetActive(id, TRUE) \/ Reg!SetActive(id, FALSE)
  PROVE  AlertsInv(ui', calls')
<1>1. CASE Reg!Create
  <2> DEFINE e == [kind |-> "create", n |-> steps, id |-> ui.minted + 1, read |-> ui.alerts, list |-> ui.alerts]
  <2>1. /\ calls' = calls \cup {e} /\ e.kind = "create" /\ e.id = ui.minted + 1 /\ e.read = ui.alerts /\ e.list = ui.alerts
        /\ {"read", "list"} \subseteq DOMAIN e
    BY <1>1 DEF Reg!Create, Reg!Read
  <2> HIDE DEF e
  <2>2. /\ ui'.minted = ui.minted + 1 /\ ui'.told = Append(ui.told, 0) /\ ui'.armed = Append(ui.armed, 0) /\ ui'.alerts = ui.alerts
        /\ ui'.gone = ui.gone /\ ui'.raced = ui.raced
    BY <1>1 DEF Reg!Create, Reg!Mint, RegFields
  <2>3. QED
    BY <2>1, <2>2, AlertsMinted
<1>2. CASE Reg!Check
  <2>1. ui' = ui /\ \A d \in calls' : d \in calls \/ d.kind = "check"
    BY <1>2 DEF Reg!Check
  <2>2. calls \subseteq calls'
    BY <1>2 DEF Reg!Check
  <2>3. (\A d \in calls' : d.kind \in OfAlerts => d \in calls) /\ \A c \in calls : c.kind = "fire" => c \in calls' \/ \A x \in c.id : x \in ui'.raced
    BY <2>1, <2>2 DEF OfAlerts, Edits
  <2>4. /\ ui'.minted = ui.minted /\ ui'.told = ui.told /\ ui'.armed = ui.armed /\ ui'.alerts = ui.alerts /\ ui'.gone = ui.gone
        /\ ui.raced \subseteq ui'.raced
    BY <2>1
  <2>5. QED
    BY <2>3, <2>4, AlertsFrame
<1>3. ASSUME NEW id \in DOMAIN ui.alerts, Reg!Delete(id) \/ Reg!SetActive(id, TRUE) \/ Reg!SetActive(id, FALSE) PROVE AlertsInv(ui', calls')
  <2>0. PICK k \in {"delete", "arm", "disarm"} : Reg!Read(k, id, ui.alerts)
    BY <1>3 DEF Reg!Delete, Reg!SetActive
  <2> DEFINE e == [kind |-> k, n |-> steps, id |-> id, read |-> ui.alerts, list |-> ui.alerts]
  <2>1. /\ calls' = calls \cup {e} /\ e.kind \in {"delete", "arm", "disarm"} /\ e.id = id /\ e.read = ui.alerts /\ e.list = ui.alerts
        /\ {"read", "list"} \subseteq DOMAIN e
    BY <2>0 DEF Reg!Read
  <2> HIDE DEF e
  <2>2. ui' = ui /\ id \in 1..ui.minted
    BY <1>3 DEF Reg!Delete, Reg!SetActive, AlertsInv, Numbered
  <2>3. AlertsInv(ui, calls')
    BY <2>1, <2>2, AlertsAsked
  <2>4. QED
    BY <2>2, <2>3
<1>4. QED
  BY <1>1, <1>2, <1>3

\* The keys, their requests and the pushes do not concern the alerts; a restart cuts the checks short.
LEMMA AlertsApart ==
  ASSUME AlertsInv(ui, calls), DOMAIN ui = RegFields, Reg!Keys \/ Reg!Pushes \/ Reg!Restart PROVE AlertsInv(ui', calls')
<1> DEFINE Apart == /\ ui'.minted = ui.minted /\ ui'.told = ui.told /\ ui'.armed = ui.armed /\ ui'.alerts = ui.alerts /\ ui'.gone = ui.gone
                    /\ ui.raced \subseteq ui'.raced /\ (\A d \in calls' : d.kind \in OfAlerts => d \in calls)
                    /\ \A c \in calls : c.kind = "fire" => c \in calls' \/ \A x \in c.id : x \in ui'.raced
<1>0. ASSUME Apart PROVE AlertsInv(ui', calls')
  BY <1>0, AlertsFrame
<1>1. CASE Reg!Restart
  <2>1. /\ calls' = {} /\ ui'.minted = ui.minted /\ ui'.told = ui.told /\ ui'.armed = ui.armed /\ ui'.alerts = ui.alerts /\ ui'.gone = ui.gone
        /\ ui'.raced = ui.raced \cup UNION {c.id : c \in Reg!Of({"fire"})}
    BY <1>1 DEF Reg!Restart, RegFields
  <2>2. \A c \in calls : c.kind = "fire" => \A x \in c.id : x \in ui'.raced
    BY <2>1 DEF Reg!Of
  <2>3. QED
    BY <1>0, <2>1, <2>2
<1>2. CASE Reg!Issue
  <2> DEFINE e == [kind |-> "issue", n |-> steps, id |-> ui.minted + 1, read |-> ui.keys, list |-> ui.keys]
  <2>1. calls' = calls \cup {e} /\ e.kind \notin OfAlerts
    BY <1>2 DEF Reg!Issue, Reg!Read, OfAlerts, Edits
  <2> HIDE DEF e
  <2>2. /\ ui'.minted = ui.minted + 1 /\ ui'.told = Append(ui.told, 0) /\ ui'.armed = Append(ui.armed, 0) /\ ui'.alerts = ui.alerts
        /\ ui'.gone = ui.gone /\ ui'.raced = ui.raced
    BY <1>2 DEF Reg!Issue, Reg!Mint, RegFields
  <2>3. QED
    BY <2>1, <2>2, AlertsMinted
<1>3. ASSUME NEW id, Reg!Verify(id) \/ Reg!Revoke(id) \/ Reg!Broadcast PROVE AlertsInv(ui', calls')
  <2>1. PICK e : calls' = calls \cup {e} /\ e.kind \notin OfAlerts /\ ui' = ui
    BY <1>3 DEF Reg!Verify, Reg!Revoke, Reg!Broadcast, Reg!Read, OfAlerts, Edits
  <2>2. QED
    BY <1>0, <2>1
<1>4. ASSUME NEW c \in calls, c.kind # "fire", \/ Reg!Issued(c) \/ Reg!Verified(c) \/ Reg!Revoked(c) \/ \E bad : Reg!Sent(c, bad) PROVE AlertsInv(ui', calls')
  <2>1. calls' = calls \ {c}
    BY <1>4 DEF Reg!Issued, Reg!Verified, Reg!Revoked, Reg!Sent
  <2>2. /\ ui'.minted = ui.minted /\ ui'.told = ui.told /\ ui'.armed = ui.armed /\ ui'.alerts = ui.alerts /\ ui'.gone = ui.gone
        /\ ui.raced \subseteq ui'.raced
    <3>1. CASE Reg!Issued(c)
      BY <3>1 DEF Reg!Issued, Reg!SaveKeys, RegFields
    <3>2. CASE Reg!Verified(c)
      BY <3>2 DEF Reg!Verified, Reg!SaveKeys, RegFields
    <3>3. CASE Reg!Revoked(c)
      BY <3>3 DEF Reg!Revoked, Reg!SaveKeys, RegFields
    <3>4. CASE \E bad : Reg!Sent(c, bad)
      BY <3>4 DEF Reg!Sent, Reg!Drop, RegFields
    <3>5. QED
      BY <1>4, <3>1, <3>2, <3>3, <3>4
  <2>3. QED
    BY <1>0, <1>4, <2>1, <2>2
<1>5. ASSUME NEW d, Reg!Register(d) \/ Reg!Unregister(d) PROVE AlertsInv(ui', calls')
  <2>1. calls' = calls
    BY <1>5 DEF Reg!Register, Reg!Unregister
  <2>2. /\ ui'.minted = ui.minted /\ ui'.told = ui.told /\ ui'.armed = ui.armed /\ ui'.alerts = ui.alerts /\ ui'.gone = ui.gone
        /\ ui'.raced = ui.raced
    <3>1. CASE Reg!Register(d)
      BY <3>1 DEF Reg!Register, RegFields
    <3>2. CASE Reg!Unregister(d)
      BY <3>2 DEF Reg!Unregister, Reg!Drop, RegFields
    <3>3. QED
      BY <1>5, <3>1, <3>2
  <2>3. QED
    BY <1>0, <2>1, <2>2
<1> HIDE DEF Apart
<1>6. \A c \in Reg!Of({"issue"}) \cup Reg!Of({"verify"}) \cup Reg!Of({"revoke"}) \cup Reg!Of({"send"}) : c \in calls /\ c.kind # "fire"
  BY DEF Reg!Of
<1>7. QED
  BY <1>1, <1>2, <1>3, <1>4, <1>5, <1>6 DEF Reg!Keys, Reg!Pushes

LEMMA AlertsStep == ASSUME AlertsInv(ui, calls), DOMAIN ui = RegFields, Reg!Next PROVE AlertsInv(ui', calls')
<1>1. ASSUME Reg!Alerts PROVE AlertsInv(ui', calls')
  BY <1>1, AlertsAsk, AlertsCreated, AlertsDeleted, AlertsArmed, AlertsHit, AlertsTold, AlertsFired DEF Reg!Alerts, Reg!Of
<1>2. QED
  BY <1>1, AlertsApart DEF Reg!Next

\* The keys: a write leaves the others as they were, or is known to have undone something.
LEMMA KeysWritten ==
  ASSUME NEW u, NEW C, KeysInv(u, C), NEW c \in C, NEW v, NEW D, D = C \ {c},
         v.minted = u.minted, Counted(v.used, u.minted), \A x \in 1..u.minted : v.used[x] >= u.used[x],
         u.raced \subseteq v.raced, v.revoked \subseteq 1..u.minted,
         Numbered(v.keys, u.minted, Keyed), \A x \in DOMAIN v.keys : v.keys[x].calls <= v.used[x],
         \A x \in v.revoked \cap DOMAIN v.keys : v.keys[x].active => x \in v.raced,
         \A d \in D : d.kind = "issue" => d.id \notin DOMAIN v.keys /\ d.id \notin v.revoked
  PROVE  KeysInv(v, D)
<1>1. /\ u.minted \in Nat /\ Counted(u.used, u.minted)
      /\ (\A d \in C : d.kind \in OfKeys => KeyCall(d, u.minted, u.used))
      /\ (\A d \in C : d.kind = "issue" => KeyNew(u, C, d))
  BY DEF KeysInv
<1>2. \A x \in 1..u.minted : u.used[x] \in Nat /\ v.used[x] \in Nat /\ v.used[x] >= u.used[x]
  BY <1>1, CountedNats
<1>3. \A d \in D : d.kind \in OfKeys => KeyCall(d, u.minted, v.used)
  <2> SUFFICES ASSUME NEW d \in C, d.kind \in OfKeys PROVE KeyCall(d, u.minted, v.used)
    OBVIOUS
  <2>1. KeyCall(d, u.minted, u.used)
    BY <1>1
  <2>2. \A x \in DOMAIN d.read : x \in 1..u.minted /\ d.read[x].calls \in Nat /\ d.read[x].calls <= u.used[x]
    BY <2>1 DEF KeyCall, Numbered, Keyed
  <2>3. \A x \in DOMAIN d.read : d.read[x].calls <= v.used[x]
    BY <1>2, <2>2
  <2>4. QED
    BY <2>1, <2>3 DEF KeyCall
<1>4. \A d \in D : d.kind = "issue" => KeyNew(v, D, d)
  BY <1>1 DEF KeyNew
<1>5. QED
  BY <1>1, <1>3, <1>4 DEF KeysInv

LEMMA KeysIssued == ASSUME KeysInv(ui, calls), DOMAIN ui = RegFields, NEW c \in calls, c.kind = "issue", Reg!Issued(c) PROVE KeysInv(ui', calls')
<1> DEFINE list == Reg!With(c.list, c.id, Reg!Key)
           m == ui.minted
<1>0. /\ KeyCall(c, m, ui.used) /\ KeyNew(ui, calls, c) /\ m \in Nat /\ Counted(ui.used, m) /\ Numbered(ui.keys, m, Keyed)
      /\ c.list = c.read /\ c.id \in 1..m /\ {"read", "list"} \subseteq DOMAIN c /\ ui.revoked \subseteq 1..m
      /\ \A x \in ui.revoked \cap DOMAIN ui.keys : ui.keys[x].active => x \in ui.raced
  BY DEF KeysInv, KeyCall, OfKeys
<1>1. /\ calls' = calls \ {c} /\ ui'.minted = m /\ ui'.used = ui.used /\ ui'.keys = list /\ ui'.revoked = ui.revoked
      /\ ui'.raced = ui.raced \cup Reg!Undone([c EXCEPT !.list = list], ui.keys, {c.id})
  BY DEF Reg!Issued, Reg!SaveKeys, RegFields
<1>2. /\ DOMAIN list = DOMAIN c.read \cup {c.id} /\ list[c.id] = Reg!Key
      /\ \A x \in DOMAIN c.read : x # c.id => list[x] = c.read[x]
  BY <1>0 DEF Reg!With
<1>3. Reg!Key \in Keyed /\ Reg!Key.calls = 0
  BY DEF Reg!Key, Keyed
<1> HIDE DEF list, m
<1>x. \A x \in 1..m : ui.used[x] \in Nat
  BY <1>0, CountedNats
<1>4. Numbered(list, m, Keyed) /\ \A x \in DOMAIN list : list[x].calls <= ui.used[x]
  <2>1. \A x \in DOMAIN c.read : x \in 1..m /\ c.read[x] \in Keyed /\ c.read[x].calls <= ui.used[x]
    BY <1>0 DEF KeyCall, Numbered
  <2>2. list[c.id].calls <= ui.used[c.id]
    BY <1>0, <1>2, <1>3, <1>x
  <2>3. QED
    BY <1>0, <1>2, <1>3, <2>1, <2>2 DEF Numbered
<1>5. ui.raced \subseteq ui'.raced /\ \A x : x \in ui'.raced \/ x \in {c.id} \/ Same(ui.keys, list, x)
  <2>1. ui.keys = c.read => \A x : x \notin {c.id} => Same(ui.keys, list, x)
    BY <1>2 DEF Same
  <2>2. QED
    BY <1>0, <1>1, <2>1, Written
<1>7. \A x \in ui'.revoked \cap DOMAIN ui'.keys : ui'.keys[x].active => x \in ui'.raced
  BY <1>0, <1>1, <1>5 DEF KeyNew, Same
<1>8. \A d \in calls' : d.kind = "issue" => d.id \notin DOMAIN ui'.keys /\ d.id \notin ui'.revoked
  <2> SUFFICES ASSUME NEW d \in calls, d # c, d.kind = "issue" PROVE d.id \notin DOMAIN list /\ d.id \notin ui.revoked
    BY <1>1
  <2>1. KeyNew(ui, calls, d)
    BY DEF KeysInv
  <2>2. d.id \notin DOMAIN c.read /\ d.id # c.id
    BY <2>1, <1>0 DEF KeyNew, OfKeys
  <2>3. QED
    BY <1>2, <2>1, <2>2 DEF KeyNew
<1>9. \A x \in 1..m : ui'.used[x] >= ui.used[x]
  BY <1>1, <1>x
<1>10. /\ ui'.minted = ui.minted /\ Counted(ui'.used, ui.minted) /\ Numbered(ui'.keys, ui.minted, Keyed) /\ ui'.revoked \subseteq 1..ui.minted
       /\ (\A x \in DOMAIN ui'.keys : ui'.keys[x].calls <= ui'.used[x]) /\ \A x \in 1..ui.minted : ui'.used[x] >= ui.used[x]
  BY <1>0, <1>1, <1>4, <1>9 DEF m
<1>11. QED
  BY <1>1, <1>5, <1>7, <1>8, <1>10, KeysWritten

LEMMA KeysVerified == ASSUME KeysInv(ui, calls), DOMAIN ui = RegFields, NEW c \in calls, c.kind = "verify", Reg!Verified(c) PROVE KeysInv(ui', calls')
<1> DEFINE list == [c.list EXCEPT ![c.id].calls = @ + 1]
           m == ui.minted
<1>0. /\ KeyCall(c, m, ui.used) /\ m \in Nat /\ Counted(ui.used, m) /\ Numbered(ui.keys, m, Keyed)
      /\ c.list = c.read /\ c.id \in 1..m /\ {"read", "list"} \subseteq DOMAIN c /\ ui.revoked \subseteq 1..m /\ c.id \in DOMAIN c.read
      /\ \A x \in ui.revoked \cap DOMAIN ui.keys : ui.keys[x].active => x \in ui.raced
  BY DEF KeysInv, KeyCall, OfKeys
<1>x. (\A x \in 1..m : ui.used[x] \in Nat) /\ \A x \in DOMAIN c.read : x \in 1..m /\ c.read[x] \in Keyed /\ c.read[x].calls <= ui.used[x]
  BY <1>0, CountedNats DEF KeyCall, Numbered
<1>1. /\ calls' = calls \ {c} /\ ui'.minted = m /\ ui'.used = [ui.used EXCEPT ![c.id] = ui.used[c.id] + 1] /\ ui'.keys = list
      /\ ui'.revoked = ui.revoked /\ ui'.raced = ui.raced \cup Reg!Undone([c EXCEPT !.list = list], ui.keys, {})
  BY DEF Reg!Verified, Reg!SaveKeys, RegFields
<1>2. /\ DOMAIN list = DOMAIN c.read /\ (\A x \in DOMAIN c.read : x # c.id => list[x] = c.read[x])
      /\ list[c.id] \in Keyed /\ list[c.id].calls = c.read[c.id].calls + 1 /\ list[c.id].active = c.read[c.id].active
  <2>1. \A k \in Keyed : /\ [k EXCEPT !.calls = @ + 1] \in Keyed /\ [k EXCEPT !.calls = @ + 1].calls = k.calls + 1
                         /\ [k EXCEPT !.calls = @ + 1].active = k.active
    BY DEF Keyed
  <2>2. /\ DOMAIN list = DOMAIN c.read /\ (\A x \in DOMAIN c.read : x # c.id => list[x] = c.read[x])
        /\ list[c.id] = [c.read[c.id] EXCEPT !.calls = @ + 1]
    BY <1>0
  <2> HIDE DEF list
  <2>3. QED
    BY <1>0, <1>x, <2>1, <2>2
<1> HIDE DEF list, m
<1>3. /\ Counted(ui'.used, m) /\ ui'.used[c.id] = ui.used[c.id] + 1 /\ \A x \in 1..m : x # c.id => ui'.used[x] = ui.used[x]
  <2>1. ui.used[c.id] + 1 \in Nat
    BY <1>0, <1>x
  <2>2. QED
    BY <1>0, <1>1, <2>1, CountedSet
<1>4. Numbered(list, m, Keyed) /\ \A x \in DOMAIN list : list[x].calls <= ui'.used[x]
  <2>1. Numbered(list, m, Keyed)
    BY <1>2, <1>x DEF Numbered
  <2>2. list[c.id].calls <= ui'.used[c.id]
    <3>1. c.read[c.id].calls \in Nat /\ ui.used[c.id] \in Nat /\ c.read[c.id].calls <= ui.used[c.id]
      BY <1>0, <1>x DEF Keyed
    <3>2. QED
      BY <1>2, <1>3, <3>1
  <2>3. QED
    BY <1>2, <1>3, <1>x, <2>1, <2>2
<1>7. ASSUME NEW x \in ui'.revoked \cap DOMAIN ui'.keys, ui'.keys[x].active PROVE x \in ui'.raced
  <2>1. CASE ui.keys = c.read
    <3>1. x \in DOMAIN ui.keys /\ ui.keys[x].active
      BY <1>1, <1>2, <1>7, <2>1
    <3>2. QED
      BY <1>0, <1>1, <1>7, <3>1
  <2>2. CASE ui.keys # c.read
    <3>1. \A y : y \in ui'.raced \/ Same(ui.keys, list, y)
      BY <1>0, <1>1, <2>2, Written
    <3>2. QED
      BY <1>0, <1>1, <1>7, <3>1 DEF Same
  <2>3. QED
    BY <2>1, <2>2
<1>8. \A d \in calls' : d.kind = "issue" => d.id \notin DOMAIN ui'.keys /\ d.id \notin ui'.revoked
  <2> SUFFICES ASSUME NEW d \in calls, d.kind = "issue" PROVE d.id \notin DOMAIN list /\ d.id \notin ui.revoked
    BY <1>1
  <2>1. KeyNew(ui, calls, d)
    BY DEF KeysInv
  <2>2. QED
    BY <1>2, <2>1 DEF KeyNew, OfKeys
<1>9. \A x \in 1..m : ui'.used[x] >= ui.used[x]
  BY <1>3, <1>x
<1>10. /\ ui'.minted = ui.minted /\ Counted(ui'.used, ui.minted) /\ Numbered(ui'.keys, ui.minted, Keyed) /\ ui'.revoked \subseteq 1..ui.minted
       /\ (\A x \in DOMAIN ui'.keys : ui'.keys[x].calls <= ui'.used[x]) /\ \A x \in 1..ui.minted : ui'.used[x] >= ui.used[x]
  BY <1>0, <1>1, <1>3, <1>4, <1>9 DEF m
<1>11. ui.raced \subseteq ui'.raced
  BY <1>1
<1>12. calls' = calls \ {c}
  BY <1>1
<1>13. QED
  BY <1>7, <1>8, <1>10, <1>11, <1>12, KeysWritten

LEMMA KeysRevoked == ASSUME KeysInv(ui, calls), DOMAIN ui = RegFields, NEW c \in calls, c.kind = "revoke", Reg!Revoked(c) PROVE KeysInv(ui', calls')
<1> DEFINE hit == {c.id} \cap DOMAIN c.list
           list == [x \in DOMAIN c.list |-> IF x \in hit THEN [c.list[x] EXCEPT !.active = FALSE] ELSE c.list[x]]
           m == ui.minted
<1>0. /\ KeyCall(c, m, ui.used) /\ m \in Nat /\ Counted(ui.used, m) /\ Numbered(ui.keys, m, Keyed)
      /\ c.list = c.read /\ c.id \in 1..m /\ {"read", "list"} \subseteq DOMAIN c /\ ui.revoked \subseteq 1..m
      /\ \A x \in ui.revoked \cap DOMAIN ui.keys : ui.keys[x].active => x \in ui.raced
  BY DEF KeysInv, KeyCall, OfKeys
<1>x. (\A x \in 1..m : ui.used[x] \in Nat) /\ \A x \in DOMAIN c.read : x \in 1..m /\ c.read[x] \in Keyed /\ c.read[x].calls <= ui.used[x]
  BY <1>0, CountedNats DEF KeyCall, Numbered
<1>1. /\ calls' = calls \ {c} /\ ui'.minted = m /\ ui'.used = ui.used /\ ui'.keys = list
      /\ ui'.revoked = ui.revoked \cup hit /\ ui'.raced = ui.raced \cup Reg!Undone([c EXCEPT !.list = list], ui.keys, {c.id})
  BY DEF Reg!Revoked, Reg!SaveKeys, RegFields
<1>2. /\ DOMAIN list = DOMAIN c.read /\ (\A x \in DOMAIN c.read : x # c.id => list[x] = c.read[x])
      /\ c.id \in DOMAIN c.read => list[c.id] \in Keyed /\ list[c.id].calls = c.read[c.id].calls /\ list[c.id].active = FALSE
  <2>1. \A k \in Keyed : /\ [k EXCEPT !.active = FALSE] \in Keyed /\ [k EXCEPT !.active = FALSE].calls = k.calls
                         /\ [k EXCEPT !.active = FALSE].active = FALSE
    BY DEF Keyed
  <2>2. /\ DOMAIN list = DOMAIN c.read /\ (\A x \in DOMAIN c.read : x # c.id => list[x] = c.read[x])
        /\ c.id \in DOMAIN c.read => list[c.id] = [c.read[c.id] EXCEPT !.active = FALSE]
    BY <1>0
  <2> HIDE DEF list, hit
  <2>3. ASSUME c.id \in DOMAIN c.read PROVE list[c.id] \in Keyed /\ list[c.id].calls = c.read[c.id].calls /\ list[c.id].active = FALSE
    <3> DEFINE k == c.read[c.id]
    <3>1. k \in Keyed /\ list[c.id] = [k EXCEPT !.active = FALSE]
      BY <1>x, <2>2, <2>3
    <3> HIDE DEF k
    <3>2. list[c.id] \in Keyed /\ list[c.id].calls = k.calls /\ list[c.id].active = FALSE
      BY <2>1, <3>1
    <3>3. QED
      BY <3>2 DEF k
  <2>4. QED
    BY <2>2, <2>3
<1>h. hit \subseteq {c.id} /\ \A x \in hit : x \in DOMAIN c.read
  BY <1>0
<1> HIDE DEF list, m, hit
<1>4. Numbered(list, m, Keyed) /\ \A x \in DOMAIN list : list[x].calls <= ui.used[x]
  <2>1. \A x \in DOMAIN list : x \in 1..m /\ list[x] \in Keyed
    BY <1>2, <1>x
  <2>2. \A x \in DOMAIN list : list[x].calls = c.read[x].calls
    BY <1>2
  <2>3. QED
    BY <1>2, <1>x, <2>1, <2>2 DEF Numbered
<1>5. ui.raced \subseteq ui'.raced /\ \A x : x \in ui'.raced \/ x \in {c.id} \/ Same(ui.keys, list, x)
  <2>1. ui.keys = c.read => \A x : x \notin {c.id} => Same(ui.keys, list, x)
    BY <1>2 DEF Same
  <2>2. QED
    BY <1>0, <1>1, <2>1, Written
<1>7. \A x \in ui'.revoked \cap DOMAIN ui'.keys : ui'.keys[x].active => x \in ui'.raced
  <2> SUFFICES ASSUME NEW x \in ui.revoked \cup hit, x \in DOMAIN list, list[x].active, x \notin ui'.raced PROVE FALSE
    BY <1>1
  <2>1. x # c.id
    BY <1>2
  <2>2. x \in ui.revoked /\ Same(ui.keys, list, x)
    BY <1>5, <1>h, <2>1
  <2>3. QED
    BY <1>0, <1>5, <2>2 DEF Same
<1>8. \A d \in calls' : d.kind = "issue" => d.id \notin DOMAIN ui'.keys /\ d.id \notin ui'.revoked
  <2> SUFFICES ASSUME NEW d \in calls, d.kind = "issue" PROVE d.id \notin DOMAIN list /\ d.id \notin ui.revoked \cup hit
    BY <1>1
  <2>1. KeyNew(ui, calls, d)
    BY DEF KeysInv
  <2>2. d.id \notin DOMAIN c.read
    BY <2>1 DEF KeyNew, OfKeys
  <2>3. QED
    BY <1>2, <1>h, <2>1, <2>2 DEF KeyNew
<1>9. \A x \in 1..m : ui'.used[x] >= ui.used[x]
  BY <1>1, <1>x
<1>10. /\ ui'.minted = ui.minted /\ Counted(ui'.used, ui.minted) /\ Numbered(ui'.keys, ui.minted, Keyed) /\ ui'.revoked \subseteq 1..ui.minted
       /\ (\A x \in DOMAIN ui'.keys : ui'.keys[x].calls <= ui'.used[x]) /\ \A x \in 1..ui.minted : ui'.used[x] >= ui.used[x]
  BY <1>0, <1>1, <1>4, <1>9, <1>h, <1>x DEF m
<1>11. QED
  BY <1>1, <1>5, <1>7, <1>8, <1>10, KeysWritten

\* What does not concern the keys leaves their invariant; asking reads the list of now.
LEMMA KeysFrame ==
  ASSUME NEW u, NEW C, KeysInv(u, C), NEW v, NEW D,
         v.minted = u.minted, v.used = u.used, v.keys = u.keys, v.revoked = u.revoked, u.raced \subseteq v.raced,
         \A d \in D : d.kind \in OfKeys => d \in C
  PROVE  KeysInv(v, D)
<1>1. \A d \in D : d.kind = "issue" => d \in C /\ d.kind \in OfKeys
  BY DEF OfKeys
<1>2. \A d \in D : d.kind = "issue" => KeyNew(v, D, d)
  BY <1>1 DEF KeysInv, KeyNew
<1>3. QED
  BY <1>2 DEF KeysInv

LEMMA KeysAsked ==
  ASSUME NEW u, NEW C, KeysInv(u, C), NEW e, e.kind \in {"verify", "revoke"}, e.read = u.keys, e.list = u.keys,
         e.id \in DOMAIN u.keys, {"read", "list"} \subseteq DOMAIN e, NEW D, D = C \cup {e}
  PROVE  KeysInv(u, D)
<1>1. e.kind # "issue" /\ e.kind \in OfKeys
  BY DEF OfKeys
<1>2. KeyCall(e, u.minted, u.used)
  BY <1>1 DEF KeyCall, KeysInv, Numbered
<1>3. \A d \in D : d.kind = "issue" => KeyNew(u, D, d)
  BY <1>1 DEF KeysInv, KeyNew
<1>4. QED
  BY <1>2, <1>3 DEF KeysInv

LEMMA KeysMinted ==
  ASSUME NEW u, NEW C, KeysInv(u, C), NEW v, NEW e, NEW D, D = C \cup {e},
         v.minted = u.minted + 1, v.used = Append(u.used, 0), v.keys = u.keys, v.revoked = u.revoked, v.raced = u.raced,
         \/ e.kind \notin OfKeys
         \/ e.kind = "issue" /\ e.id = u.minted + 1 /\ e.read = u.keys /\ e.list = u.keys /\ {"read", "list"} \subseteq DOMAIN e
  PROVE  KeysInv(v, D)
<1> DEFINE m == u.minted
<1>0. /\ m \in Nat /\ Counted(u.used, m) /\ Numbered(u.keys, m, Keyed) /\ u.revoked \subseteq 1..m
      /\ (\A d \in C : d.kind \in OfKeys => KeyCall(d, m, u.used))
      /\ (\A d \in C : d.kind = "issue" => KeyNew(u, C, d)) /\ v.used = Append(u.used, 0)
  BY DEF KeysInv
<1>2. v.minted = m + 1
  OBVIOUS
<1>6. e.kind \in OfKeys => /\ e.kind = "issue" /\ e.id = m + 1 /\ e.read = u.keys /\ e.list = u.keys /\ {"read", "list"} \subseteq DOMAIN e
  OBVIOUS
<1> HIDE DEF m
<1>1. Counted(v.used, m + 1) /\ \A x \in 1..m : v.used[x] = u.used[x]
  <2>1. m \in Nat /\ Counted(u.used, m) /\ v.used = Append(u.used, 0)
    BY <1>0
  <2>2. Counted(Append(u.used, 0), m + 1) /\ \A x \in 1..m : Append(u.used, 0)[x] = u.used[x]
    BY <2>1, CountedMint
  <2>3. QED
    BY <2>1, <2>2
<1>3. m + 1 \in Nat /\ m + 1 \notin 1..m /\ 1..(m + 1) = (1..m) \cup {m + 1}
  BY <1>0
<1>4. Numbered(v.keys, m + 1, Keyed) /\ v.revoked \subseteq 1..(m + 1) /\ \A x \in DOMAIN v.keys : v.keys[x].calls <= v.used[x]
  BY <1>0, <1>1, <1>3 DEF Numbered, KeysInv
<1>5. \A d \in C : d.kind \in OfKeys => KeyCall(d, m + 1, v.used) /\ d.id # m + 1 /\ m + 1 \notin DOMAIN d.read
  BY <1>0, <1>1, <1>3 DEF KeyCall, Numbered
<1>7. e.kind \in OfKeys => KeyCall(e, m + 1, v.used) /\ KeyNew(v, D, e)
  <2> SUFFICES ASSUME e.kind \in OfKeys PROVE KeyCall(e, m + 1, v.used) /\ KeyNew(v, D, e)
    OBVIOUS
  <2>1. e.kind = "issue" /\ e.id = m + 1 /\ e.read = u.keys /\ e.list = u.keys /\ {"read", "list"} \subseteq DOMAIN e
    BY <1>6
  <2>2. KeyCall(e, m + 1, v.used)
    BY <1>3, <1>4, <2>1 DEF KeyCall
  <2>3. e.id \notin DOMAIN v.keys /\ e.id \notin v.revoked
    BY <1>0, <1>3, <2>1 DEF Numbered
  <2>4. KeyNew(v, D, e)
    BY <1>5, <2>1, <2>3 DEF KeyNew, OfKeys
  <2>5. QED
    BY <2>2, <2>4
<1>8. \A d \in D : d.kind = "issue" => KeyNew(v, D, d)
  <2> SUFFICES ASSUME NEW d \in C, d.kind = "issue" PROVE KeyNew(v, D, d)
    BY <1>7 DEF OfKeys
  <2>1. KeyNew(u, C, d) /\ d.id # m + 1
    BY <1>0, <1>5 DEF OfKeys
  <2>2. QED
    BY <1>6, <2>1 DEF KeyNew
<1>9. \A x \in v.revoked \cap DOMAIN v.keys : v.keys[x].active => x \in v.raced
  BY DEF KeysInv
<1>10. \A d \in D : d.kind \in OfKeys => KeyCall(d, v.minted, v.used)
  BY <1>2, <1>5, <1>7
<1>11. QED
  BY <1>1, <1>2, <1>3, <1>4, <1>8, <1>9, <1>10 DEF KeysInv

LEMMA KeysStep == ASSUME KeysInv(ui, calls), AlertsInv(ui, calls), DOMAIN ui = RegFields, Reg!Next PROVE KeysInv(ui', calls')
<1> DEFINE Apart == /\ ui'.minted = ui.minted /\ ui'.used = ui.used /\ ui'.keys = ui.keys /\ ui'.revoked = ui.revoked
                    /\ ui.raced \subseteq ui'.raced /\ \A d \in calls' : d.kind \in OfKeys => d \in calls
<1>0. ASSUME Apart PROVE KeysInv(ui', calls')
  BY <1>0, KeysFrame
<1>1. CASE Reg!Restart
  <2>1. Apart
    BY <1>1 DEF Reg!Restart, RegFields
  <2>2. QED
    BY <1>0, <2>1
<1>2. CASE Reg!Create
  <2> DEFINE e == [kind |-> "create", n |-> steps, id |-> ui.minted + 1, read |-> ui.alerts, list |-> ui.alerts]
  <2>1. calls' = calls \cup {e} /\ e.kind \notin OfKeys
    BY <1>2 DEF Reg!Create, Reg!Read, OfKeys
  <2> HIDE DEF e
  <2>2. /\ ui'.minted = ui.minted + 1 /\ ui'.used = Append(ui.used, 0) /\ ui'.keys = ui.keys /\ ui'.revoked = ui.revoked /\ ui'.raced = ui.raced
    BY <1>2 DEF Reg!Create, Reg!Mint, RegFields
  <2>3. QED
    BY <2>1, <2>2, KeysMinted
<1>3. CASE Reg!Issue
  <2> DEFINE e == [kind |-> "issue", n |-> steps, id |-> ui.minted + 1, read |-> ui.keys, list |-> ui.keys]
  <2>1. /\ calls' = calls \cup {e} /\ e.kind = "issue" /\ e.id = ui.minted + 1 /\ e.read = ui.keys /\ e.list = ui.keys
        /\ {"read", "list"} \subseteq DOMAIN e
    BY <1>3 DEF Reg!Issue, Reg!Read
  <2> HIDE DEF e
  <2>2. /\ ui'.minted = ui.minted + 1 /\ ui'.used = Append(ui.used, 0) /\ ui'.keys = ui.keys /\ ui'.revoked = ui.revoked /\ ui'.raced = ui.raced
    BY <1>3 DEF Reg!Issue, Reg!Mint, RegFields
  <2>3. QED
    BY <2>1, <2>2, KeysMinted
<1>4. ASSUME NEW id \in DOMAIN ui.keys, Reg!Verify(id) \/ Reg!Revoke(id) PROVE KeysInv(ui', calls')
  <2>0. PICK k \in {"verify", "revoke"} : Reg!Read(k, id, ui.keys)
    BY <1>4 DEF Reg!Verify, Reg!Revoke
  <2> DEFINE e == [kind |-> k, n |-> steps, id |-> id, read |-> ui.keys, list |-> ui.keys]
  <2>1. /\ calls' = calls \cup {e} /\ e.kind \in {"verify", "revoke"} /\ e.id = id /\ e.read = ui.keys /\ e.list = ui.keys
        /\ {"read", "list"} \subseteq DOMAIN e
    BY <2>0 DEF Reg!Read
  <2> HIDE DEF e
  <2>2. ui' = ui
    BY <1>4 DEF Reg!Verify, Reg!Revoke
  <2>3. KeysInv(ui, calls')
    BY <2>1, KeysAsked
  <2>4. QED
    BY <2>2, <2>3
<1>5. ASSUME NEW id, Reg!Delete(id) \/ Reg!SetActive(id, TRUE) \/ Reg!SetActive(id, FALSE) \/ Reg!Check \/ Reg!Broadcast PROVE KeysInv(ui', calls')
  <2>1. PICK e : calls' = calls \cup {e} /\ e.kind \notin OfKeys /\ ui' = ui
    BY <1>5 DEF Reg!Delete, Reg!SetActive, Reg!Check, Reg!Broadcast, Reg!Read, OfKeys
  <2>2. QED
    BY <1>0, <2>1
<1>6. ASSUME NEW c \in calls, \/ Reg!Created(c) \/ Reg!Deleted(c) \/ Reg!Armed(c) \/ Reg!Fired(c) \/ \E bad : Reg!Sent(c, bad) PROVE KeysInv(ui', calls')
  <2>1. calls' = calls \ {c}
    BY <1>6 DEF Reg!Created, Reg!Deleted, Reg!Armed, Reg!Fired, Reg!Sent
  <2>2. /\ ui'.minted = ui.minted /\ ui'.used = ui.used /\ ui'.keys = ui.keys /\ ui'.revoked = ui.revoked /\ ui.raced \subseteq ui'.raced
    <3>1. CASE Reg!Created(c)
      BY <3>1 DEF Reg!Created, Reg!SaveAlerts, RegFields
    <3>2. CASE Reg!Deleted(c)
      BY <3>2 DEF Reg!Deleted, Reg!SaveAlerts, RegFields
    <3>3. CASE Reg!Armed(c)
      BY <3>3 DEF Reg!Armed, Reg!SaveAlerts, RegFields
    <3>4. CASE Reg!Fired(c)
      BY <3>4 DEF Reg!Fired, Reg!SaveAlerts, RegFields
    <3>5. CASE \E bad : Reg!Sent(c, bad)
      BY <3>5 DEF Reg!Sent, Reg!Drop, RegFields
    <3>6. QED
      BY <1>6, <3>1, <3>2, <3>3, <3>4, <3>5
  <2>3. QED
    BY <1>0, <2>1, <2>2
<1>7. ASSUME NEW c \in calls, NEW hit, Reg!CheckReads(c, hit) PROVE KeysInv(ui', calls')
  <2>1. /\ ui'.minted = ui.minted /\ ui'.used = ui.used /\ ui'.keys = ui.keys /\ ui'.revoked = ui.revoked /\ ui.raced \subseteq ui'.raced
    BY <1>7 DEF Reg!CheckReads, RegFields
  <2>2. \A d \in calls' : d \in calls \/ d.kind = "fire"
    BY <1>7 DEF Reg!CheckReads, Reg!If
  <2>3. QED
    BY <1>0, <2>1, <2>2 DEF OfKeys
<1>8. ASSUME NEW c \in calls, c.kind = "fire", DOMAIN c = FireFields, Reg!Tell(c) \/ \E id, bad : Reg!Told(c, id, bad) PROVE KeysInv(ui', calls')
  <2>1. /\ ui'.minted = ui.minted /\ ui'.used = ui.used /\ ui'.keys = ui.keys /\ ui'.revoked = ui.revoked /\ ui'.raced = ui.raced
    BY <1>8 DEF Reg!Tell, Reg!Told, Reg!Drop, RegFields
  <2>2. \A d \in calls' : d \in calls \/ d.kind = "fire"
    <3>1. CASE Reg!Tell(c)
      <4> DEFINE e == [c EXCEPT !.sending = TRUE, !.to = Reg!ToSet(ui.tokens)]
      <4>1. calls' = (calls \ {c}) \cup {e}
        BY <3>1 DEF Reg!Tell
      <4>2. e.kind = "fire"
        BY <1>8 DEF FireFields
      <4> HIDE DEF e
      <4>3. QED
        BY <4>1, <4>2
    <3>2. ASSUME NEW id, NEW bad, Reg!Told(c, id, bad) PROVE \A d \in calls' : d \in calls \/ d.kind = "fire"
      <4> DEFINE e == [c EXCEPT !.sending = FALSE, !.to = {}, !.todo = @ \ {id}]
      <4>1. calls' = (calls \ {c}) \cup {e}
        BY <3>2 DEF Reg!Told
      <4>2. e.kind = "fire"
        BY <1>8 DEF FireFields
      <4> HIDE DEF e
      <4>3. QED
        BY <4>1, <4>2
    <3>3. QED
      BY <1>8, <3>1, <3>2
  <2>3. QED
    BY <1>0, <2>1, <2>2 DEF OfKeys
<1>9. ASSUME NEW d, Reg!Register(d) \/ Reg!Unregister(d) PROVE KeysInv(ui', calls')
  <2>1. calls' = calls
    BY <1>9 DEF Reg!Register, Reg!Unregister
  <2>2. /\ ui'.minted = ui.minted /\ ui'.used = ui.used /\ ui'.keys = ui.keys /\ ui'.revoked = ui.revoked /\ ui'.raced = ui.raced
    <3>1. CASE Reg!Register(d)
      BY <3>1 DEF Reg!Register, RegFields
    <3>2. CASE Reg!Unregister(d)
      BY <3>2 DEF Reg!Unregister, Reg!Drop, RegFields
    <3>3. QED
      BY <1>9, <3>1, <3>2
  <2>3. QED
    BY <1>0, <2>1, <2>2
<1> HIDE DEF Apart
<1>10. CASE Reg!Alerts
  <2>1. ASSUME NEW c \in calls, c.kind = "fire", \/ Reg!Tell(c) \/ Reg!Fired(c) \/ \E id, bad : Reg!Told(c, id, bad) PROVE KeysInv(ui', calls')
    <3>1. DOMAIN c = FireFields
      BY <2>1 DEF AlertsInv, AlertCall, OfAlerts
    <3>2. QED
      BY <1>6, <1>8, <2>1, <3>1
  <2>2. QED
    BY <1>2, <1>5, <1>6, <1>7, <1>10, <2>1 DEF Reg!Alerts, Reg!Of
<1>11. CASE Reg!Keys
  BY <1>3, <1>4, <1>11, KeysIssued, KeysVerified, KeysRevoked DEF Reg!Keys, Reg!Of
<1>12. CASE Reg!Pushes
  BY <1>5, <1>6, <1>9, <1>12 DEF Reg!Pushes, Reg!Of
<1>13. QED
  BY <1>1, <1>10, <1>11, <1>12 DEF Reg!Next

\* The devices: a list that is cut down, and a device that comes last.
LEMMA TokensFrame ==
  ASSUME NEW u, TokensInv(u), NEW v, v.tokens = u.tokens, v.joined = u.joined, v.bad = u.bad
  PROVE  TokensInv(v)
BY DEF TokensInv

LEMMA TokensCut ==
  ASSUME NEW u, TokensInv(u), Reg!RegistryAssumptions, NEW bad, NEW gone, gone \subseteq bad, NEW v,
         v.tokens = Reg!Places(u.tokens, {q \in DOMAIN u.tokens : u.tokens[q] \notin bad}),
         v.bad = u.bad \cup bad, v.joined = u.joined \ gone
  PROVE  TokensInv(v)
<1> DEFINE K == {q \in DOMAIN u.tokens : u.tokens[q] \notin bad}
           r == Places(u.tokens, K)
<1>0. u.tokens \in Seq(u.joined) /\ Len(u.tokens) <= Bound /\ Len(u.tokens) \in Nat /\ Bound \in Nat
  BY LenProperties DEF TokensInv, Reg!RegistryAssumptions
<1>1. v.tokens = r
  BY DEF Places, Reg!Places
<1>k. \A q \in DOMAIN u.tokens : q \in K <=> u.tokens[q] \notin bad
  OBVIOUS
<1> HIDE DEF K
<1>2. /\ r \in Seq(u.joined)
      /\ \A p \in DOMAIN r : \E q \in DOMAIN u.tokens : q \in K /\ r[p] = u.tokens[q]
      /\ \A q \in DOMAIN u.tokens : q \in K => \E p \in DOMAIN r : r[p] = u.tokens[q]
      /\ (\A p, q \in DOMAIN u.tokens : u.tokens[p] = u.tokens[q] => p = q) => \A p, q \in DOMAIN r : r[p] = r[q] => p = q
  BY <1>0, PlacesIn
<1>3. Len(r) \in Nat /\ Len(r) <= Len(u.tokens)
  BY <1>0, PlacesLen
<1>4. \A p \in DOMAIN r : r[p] \in u.joined /\ r[p] \notin bad
  <2> SUFFICES ASSUME NEW p \in DOMAIN r PROVE r[p] \in u.joined /\ r[p] \notin bad
    OBVIOUS
  <2>1. PICK q \in DOMAIN u.tokens : q \in K /\ r[p] = u.tokens[q]
    BY <1>2
  <2>2. q \in 1..Len(u.tokens)
    BY <1>0, LenProperties
  <2>3. QED
    BY <1>0, <1>k, <2>1, <2>2, ElementOfSeq
<1>5. \A d \in u.joined : d \in u.bad \cup bad \/ \E p \in DOMAIN r : r[p] = d
  <2> SUFFICES ASSUME NEW d \in u.joined, d \notin u.bad, d \notin bad PROVE \E p \in DOMAIN r : r[p] = d
    OBVIOUS
  <2>1. PICK q \in DOMAIN u.tokens : u.tokens[q] = d
    BY DEF TokensInv
  <2>2. q \in K
    BY <1>k, <2>1
  <2>3. QED
    BY <1>2, <2>1, <2>2
<1> HIDE DEF r, K
<1>6. r \in Seq(v.joined)
  <2>1. \A p \in 1..Len(r) : r[p] \in v.joined
    BY <1>2, <1>4, LenProperties
  <2>2. QED
    BY <1>2, <2>1, IsASeq, LenProperties
<1>7. \A p, q \in DOMAIN v.tokens : v.tokens[p] = v.tokens[q] => p = q
  BY <1>1, <1>2 DEF TokensInv
<1>8. \A d \in v.joined : d \in v.bad \/ \E p \in DOMAIN v.tokens : v.tokens[p] = d
  BY <1>1, <1>5
<1>9. Len(v.tokens) <= Bound
  BY <1>0, <1>1, <1>3
<1>10. QED
  BY <1>1, <1>6, <1>7, <1>8, <1>9 DEF TokensInv

LEMMA TokensRegister == ASSUME TokensInv(ui), DOMAIN ui = RegFields, Reg!RegistryAssumptions, NEW d, Reg!Register(d) PROVE TokensInv(ui')
<1> DEFINE K == {q \in DOMAIN ui.tokens : ui.tokens[q] # d}
           s == Places(ui.tokens, K)
           rows == Append(s, d)
           kept == IF Len(rows) > Bound THEN Tail(rows) ELSE rows
           J == ui.joined \cup {d}
<1>0. ui.tokens \in Seq(ui.joined) /\ Len(ui.tokens) <= Bound /\ Len(ui.tokens) \in Nat /\ Bound \in Nat /\ Bound > 0
  BY LenProperties DEF TokensInv, Reg!RegistryAssumptions
<1>1. ui'.tokens = kept /\ ui'.joined = J /\ ui'.bad = (ui.bad \cup Reg!ToSet(rows)) \ Reg!ToSet(kept)
  BY DEF Reg!Register, RegFields, Places, Reg!Places
<1>2. /\ s \in Seq(ui.joined)
      /\ \A p \in DOMAIN s : \E q \in DOMAIN ui.tokens : q \in K /\ s[p] = ui.tokens[q]
      /\ \A q \in DOMAIN ui.tokens : q \in K => \E p \in DOMAIN s : s[p] = ui.tokens[q]
      /\ (\A p, q \in DOMAIN ui.tokens : ui.tokens[p] = ui.tokens[q] => p = q) => \A p, q \in DOMAIN s : s[p] = s[q] => p = q
  BY <1>0, PlacesIn
<1>3. Len(s) \in Nat /\ Len(s) <= Bound /\ s \in Seq(J) /\ DOMAIN s = 1..Len(s)
  <2>1. Len(s) \in Nat /\ Len(s) <= Len(ui.tokens)
    BY <1>0, PlacesLen
  <2>2. \A p \in 1..Len(s) : s[p] \in J
    BY <1>2, ElementOfSeq
  <2>3. s \in Seq(J)
    BY <1>2, <2>2, IsASeq, LenProperties
  <2>4. QED
    BY <1>0, <2>1, <2>3, LenProperties
<1>4. \A p \in DOMAIN s : s[p] # d
  BY <1>2
<1>5. \A x \in ui.joined : x \in ui.bad \/ x = d \/ \E p \in DOMAIN s : s[p] = x
  <2> SUFFICES ASSUME NEW x \in ui.joined, x \notin ui.bad, x # d PROVE \E p \in DOMAIN s : s[p] = x
    OBVIOUS
  <2>1. PICK q \in DOMAIN ui.tokens : ui.tokens[q] = x
    BY DEF TokensInv
  <2>2. q \in K
    BY <2>1
  <2>3. QED
    BY <1>2, <2>1, <2>2
<1>6. \A p, q \in DOMAIN s : s[p] = s[q] => p = q
  BY <1>2 DEF TokensInv
<1> HIDE DEF s, K
<1>7. /\ rows \in Seq(J) /\ Len(rows) = Len(s) + 1 /\ (\A p \in 1..Len(s) : rows[p] = s[p]) /\ rows[Len(s) + 1] = d
      /\ DOMAIN rows = 1..(Len(s) + 1) /\ rows # <<>>
  <2>1. d \in J
    OBVIOUS
  <2>2. rows \in Seq(J) /\ Len(rows) = Len(s) + 1 /\ (\A p \in 1..Len(s) : rows[p] = s[p]) /\ rows[Len(s) + 1] = d
    BY <1>3, <2>1, AppendProperties
  <2>3. DOMAIN rows = 1..(Len(s) + 1)
    BY <2>2, LenProperties
  <2>4. rows # <<>>
    BY <1>3, <2>2, EmptySeq
  <2>5. QED
    BY <2>2, <2>3, <2>4
<1> HIDE DEF rows
<1>8. \A p, q \in DOMAIN rows : rows[p] = rows[q] => p = q
  BY <1>3, <1>4, <1>6, <1>7
<1>9. \A x \in J : x \in ui.bad \cup Reg!ToSet(rows)
  <2>1. d \in Reg!ToSet(rows)
    BY <1>3, <1>7 DEF Reg!ToSet
  <2>2. ASSUME NEW p \in DOMAIN s PROVE s[p] \in Reg!ToSet(rows)
    <3>1. p \in DOMAIN rows /\ rows[p] = s[p]
      BY <1>3, <1>7
    <3>2. QED
      BY <3>1 DEF Reg!ToSet
  <2>3. QED
    BY <1>5, <2>1, <2>2
<1>10. kept \in Seq(J) /\ Len(kept) <= Bound /\ \A p, q \in DOMAIN kept : kept[p] = kept[q] => p = q
  <2>1. CASE Len(rows) > Bound
    <3>1. Tail(rows) \in Seq(J) /\ Len(Tail(rows)) = Len(rows) - 1 /\ \A p \in 1..(Len(rows) - 1) : Tail(rows)[p] = rows[p + 1]
      BY <1>7, HeadTailProperties
    <3>2. DOMAIN Tail(rows) = 1..(Len(rows) - 1)
      BY <3>1, LenProperties
    <3>3. \A p \in DOMAIN Tail(rows) : p + 1 \in DOMAIN rows /\ p \in Nat
      BY <1>3, <1>7, <3>2
    <3>4. \A p, q \in DOMAIN Tail(rows) : Tail(rows)[p] = Tail(rows)[q] => p = q
      BY <1>8, <3>1, <3>2, <3>3
    <3>5. QED
      BY <1>0, <1>3, <1>7, <2>1, <3>1, <3>4
  <2>2. CASE ~(Len(rows) > Bound)
    BY <1>0, <1>3, <1>7, <1>8, <2>2
  <2>3. QED
    BY <2>1, <2>2
<1> HIDE DEF kept
<1>11. \A x \in J : x \in ui'.bad \/ \E p \in DOMAIN kept : kept[p] = x
  BY <1>1, <1>9 DEF Reg!ToSet
<1>12. QED
  BY <1>1, <1>10, <1>11 DEF TokensInv

LEMMA TokensStep == ASSUME TokensInv(ui), DOMAIN ui = RegFields, Reg!RegistryAssumptions, Reg!Next PROVE TokensInv(ui')
<1> DEFINE Apart == ui'.tokens = ui.tokens /\ ui'.joined = ui.joined /\ ui'.bad = ui.bad
<1>0. Apart => TokensInv(ui')
  BY TokensFrame
<1>1. ASSUME NEW bad, NEW gone, gone \subseteq bad,
             ui'.tokens = Reg!Drop(ui, bad).tokens /\ ui'.bad = Reg!Drop(ui, bad).bad /\ ui'.joined = ui.joined \ gone
      PROVE  TokensInv(ui')
  <2>1. /\ ui'.tokens = Reg!Places(ui.tokens, {q \in DOMAIN ui.tokens : ui.tokens[q] \notin bad})
        /\ ui'.bad = ui.bad \cup bad
    BY <1>1 DEF Reg!Drop, RegFields
  <2>2. QED
    BY <1>1, <2>1, TokensCut
<1>2. ASSUME NEW d, Reg!Unregister(d) PROVE TokensInv(ui')
  <2>1. ui'.tokens = Reg!Drop(ui, {d}).tokens /\ ui'.bad = Reg!Drop(ui, {d}).bad /\ ui'.joined = ui.joined \ {d}
    BY <1>2 DEF Reg!Unregister, Reg!Drop, RegFields
  <2>2. QED
    BY <1>1, <2>1
<1>3. ASSUME NEW c, NEW bad, Reg!Sent(c, bad) PROVE TokensInv(ui')
  <2>1. ui'.tokens = Reg!Drop(ui, bad).tokens /\ ui'.bad = Reg!Drop(ui, bad).bad /\ ui'.joined = ui.joined \ {}
    BY <1>3 DEF Reg!Sent, Reg!Drop, RegFields
  <2>2. QED
    BY <1>1, <2>1
<1>4. ASSUME NEW c, NEW id, NEW bad, Reg!Told(c, id, bad) PROVE TokensInv(ui')
  <2>1. ui'.tokens = Reg!Drop(ui, bad).tokens /\ ui'.bad = Reg!Drop(ui, bad).bad /\ ui'.joined = ui.joined \ {}
    BY <1>4 DEF Reg!Told, Reg!Drop, RegFields
  <2>2. QED
    BY <1>1, <2>1
<1>5. CASE Reg!Restart
  BY <1>0, <1>5 DEF Reg!Restart, RegFields
<1>6. CASE Reg!Create \/ Reg!Issue
  BY <1>0, <1>6 DEF Reg!Create, Reg!Issue, Reg!Mint, RegFields
<1>7. ASSUME NEW id, \/ Reg!Delete(id) \/ Reg!SetActive(id, TRUE) \/ Reg!SetActive(id, FALSE) \/ Reg!Check \/ Reg!Broadcast
                     \/ Reg!Verify(id) \/ Reg!Revoke(id) \/ \E c : Reg!Tell(c)
      PROVE TokensInv(ui')
  BY <1>7 DEF Reg!Delete, Reg!SetActive, Reg!Check, Reg!Broadcast, Reg!Verify, Reg!Revoke, Reg!Tell
<1>8. ASSUME NEW c, Reg!Created(c) \/ Reg!Deleted(c) PROVE TokensInv(ui')
  BY <1>0, <1>8 DEF Reg!Created, Reg!Deleted, Reg!SaveAlerts, RegFields
<1>9. ASSUME NEW c, Reg!Armed(c) PROVE TokensInv(ui')
  BY <1>0, <1>9 DEF Reg!Armed, Reg!SaveAlerts, RegFields
<1>10. ASSUME NEW c, Reg!Fired(c) \/ \E hit : Reg!CheckReads(c, hit) PROVE TokensInv(ui')
  BY <1>0, <1>10 DEF Reg!Fired, Reg!CheckReads, Reg!SaveAlerts, RegFields
<1>11. ASSUME NEW c, Reg!Issued(c) \/ Reg!Verified(c) PROVE TokensInv(ui')
  BY <1>0, <1>11 DEF Reg!Issued, Reg!Verified, Reg!SaveKeys, RegFields
<1>12. ASSUME NEW c, Reg!Revoked(c) PROVE TokensInv(ui')
  BY <1>0, <1>12 DEF Reg!Revoked, Reg!SaveKeys, RegFields
<1> HIDE DEF Apart
<1>13. CASE Reg!Alerts
  BY <1>4, <1>6, <1>7, <1>8, <1>9, <1>10, <1>13 DEF Reg!Alerts
<1>14. CASE Reg!Keys
  BY <1>6, <1>7, <1>11, <1>12, <1>14 DEF Reg!Keys
<1>15. CASE Reg!Pushes
  BY <1>2, <1>3, <1>7, <1>15, TokensRegister DEF Reg!Pushes
<1>16. QED
  BY <1>5, <1>13, <1>14, <1>15 DEF Reg!Next

\* The registry keeps its fields.
LEMMA RegFieldsStay == ASSUME DOMAIN ui = RegFields, Reg!Next PROVE DOMAIN ui' = RegFields
<1>1. CASE Reg!Alerts
  <2>1. ASSUME NEW c, \/ Reg!Created(c) \/ Reg!Deleted(c) \/ Reg!Fired(c) \/ \E hit : Reg!CheckReads(c, hit) PROVE DOMAIN ui' = RegFields
    BY <2>1 DEF Reg!Created, Reg!Deleted, Reg!Fired, Reg!CheckReads, Reg!SaveAlerts
  <2>2. ASSUME NEW c, \/ Reg!Armed(c) \/ Reg!Tell(c) \/ \E id, bad : Reg!Told(c, id, bad) PROVE DOMAIN ui' = RegFields
    BY <2>2 DEF Reg!Armed, Reg!Tell, Reg!Told, Reg!SaveAlerts, Reg!Drop
  <2>3. ASSUME NEW id, \/ Reg!Create \/ Reg!Check \/ Reg!Delete(id) \/ Reg!SetActive(id, TRUE) \/ Reg!SetActive(id, FALSE) PROVE DOMAIN ui' = RegFields
    BY <2>3 DEF Reg!Create, Reg!Mint, Reg!Check, Reg!Delete, Reg!SetActive
  <2>4. QED
    BY <1>1, <2>1, <2>2, <2>3 DEF Reg!Alerts
<1>2. CASE Reg!Keys
  BY <1>2 DEF Reg!Keys, Reg!Issue, Reg!Mint, Reg!Verify, Reg!Revoke, Reg!Issued, Reg!Verified, Reg!Revoked, Reg!SaveKeys
<1>3. CASE Reg!Pushes
  BY <1>3 DEF Reg!Pushes, Reg!Broadcast, Reg!Register, Reg!Unregister, Reg!Sent, Reg!Drop
<1>4. CASE Reg!Restart
  BY <1>4 DEF Reg!Restart
<1>5. QED
  BY <1>1, <1>2, <1>3, <1>4 DEF Reg!Next

LEMMA RegStep == ASSUME RegInv, Reg!RegistryAssumptions, Reg!Next PROVE RegInv'
BY RegFieldsStay, AlertsStep, KeysStep, TokensStep DEF RegInv

LEMMA RegInit == ASSUME Reg!RegistryAssumptions, Reg!Init PROVE RegInv
<1>1. PICK n \in 0..1, k \in 0..1, t \in {<<>>} \cup {<<d>> : d \in Devices} : ui = Reg!Start(n, k, t) /\ calls = {}
  BY DEF Reg!Init
<1>2. /\ DOMAIN ui = RegFields /\ ui.minted = 1 /\ ui.told = <<0>> /\ ui.armed = <<n>> /\ ui.used = <<0>> /\ ui.gone = {} /\ ui.revoked = {}
      /\ ui.raced = {} /\ ui.tokens = t /\ ui.joined = Reg!ToSet(t) /\ ui.bad = {}
      /\ ui.alerts = [x \in 1..n |-> [active |-> TRUE, fired |-> FALSE]] /\ ui.keys = [x \in 1..k |-> [active |-> TRUE, calls |-> 0]]
  BY <1>1 DEF Reg!Start, RegFields, Reg!Alert, Reg!Key
<1>3. AlertsInv(ui, calls)
  <2>1. Counted(<<0>>, 1) /\ Counted(<<n>>, 1) /\ 1..1 = {1} /\ 1..n \subseteq {1}
    BY DEF Counted
  <2>2. Numbered(ui.alerts, 1, Alerted) /\ \A x \in DOMAIN ui.alerts : ~ui.alerts[x].fired
    BY <1>2, <2>1 DEF Numbered, Alerted
  <2>3. Due(ui, calls, 1)
    <3>1. ui.told[1] = 0 /\ ui.armed[1] = n
      BY <1>2
    <3>2. Awaits(ui.alerts, 1) => n = 1
      BY <1>2 DEF Awaits
    <3>3. QED
      BY <1>1, <3>1, <3>2 DEF Due
  <2>4. QED
    BY <1>1, <1>2, <2>1, <2>2, <2>3 DEF AlertsInv
<1>4. KeysInv(ui, calls)
  <2>1. Counted(<<0>>, 1) /\ 1..1 = {1} /\ 1..k \subseteq {1}
    BY DEF Counted
  <2>2. Numbered(ui.keys, 1, Keyed) /\ \A x \in DOMAIN ui.keys : ui.keys[x].calls <= ui.used[x]
    BY <1>2, <2>1 DEF Numbered, Keyed
  <2>3. QED
    BY <1>1, <1>2, <2>1, <2>2 DEF KeysInv
<1>5. TokensInv(ui)
  <2>1. CASE t = <<>>
    BY <1>2, <2>1 DEF TokensInv, Reg!ToSet, Reg!RegistryAssumptions
  <2>2. ASSUME NEW d, t = <<d>> PROVE TokensInv(ui)
    BY <1>2, <2>2 DEF TokensInv, Reg!ToSet, Reg!RegistryAssumptions
  <2>3. QED
    BY <1>1, <2>1, <2>2
<1>6. QED
  BY <1>2, <1>3, <1>4, <1>5 DEF RegInv

LEMMA RegUnchanged == ASSUME RegInv, UNCHANGED <<ui, calls>> PROVE RegInv'
BY DEF RegInv

\* What the invariant says of the three lists.
LEMMA RegSound == RegInv => Reg!ToldOnce /\ Reg!RemovedStaysRemoved /\ Reg!DevicesAreThoseJoined
<1> SUFFICES ASSUME RegInv PROVE Reg!ToldOnce /\ Reg!RemovedStaysRemoved /\ Reg!DevicesAreThoseJoined
  OBVIOUS
<1>1. Reg!ToldOnce
  <2>1. \A x \in (1..ui.minted) \ ui.raced : ui.told[x] <= ui.armed[x]
    BY DEF RegInv, AlertsInv, Due
  <2>2. \A x \in 1..ui.minted : ui.told[x] \in Nat /\ ui.armed[x] \in Nat
    BY CountedNats DEF RegInv, AlertsInv
  <2>3. \A x \in 1..ui.minted : ui.told[x] > ui.armed[x] => x \in ui.raced
    BY <2>1, <2>2
  <2>4. \A x \in DOMAIN ui.alerts : ui.alerts[x].fired => ui.told[x] > 0
    BY DEF RegInv, AlertsInv
  <2>5. QED
    BY <2>3, <2>4 DEF Reg!ToldOnce, Reg!Ids
<1>2. Reg!RemovedStaysRemoved
  BY DEF RegInv, AlertsInv, KeysInv, Reg!RemovedStaysRemoved
<1>3. Reg!DevicesAreThoseJoined
  <2>1. \A p \in DOMAIN ui.tokens : ui.tokens[p] \in ui.joined
    BY LenProperties, ElementOfSeq DEF RegInv, TokensInv
  <2>2. QED
    BY <2>1 DEF RegInv, TokensInv, Reg!DevicesAreThoseJoined, Reg!ToSet, Reg!IsInjective
<1>4. QED
  BY <1>1, <1>2, <1>3

LEMMA RegAlways == BooksSpec => [](focus = "registry" => RegInv)
<1>0. Reg!RegistryAssumptions
  BY BooksAssumptions
<1>1. BooksInit => (focus = "registry" => RegInv)
  BY <1>0, RegInit DEF BooksInit
<1>2. (focus = "registry" => RegInv) /\ [BooksNext]_booksVars => (focus = "registry" => RegInv)'
  BY <1>0, RegStep, RegUnchanged DEF BooksNext, booksVars, client
<1>3. QED
  BY <1>1, <1>2, PTL DEF BooksSpec

-------------------------------------------------------------------------------
\* The terminal.  Its workspace is sound but for the comparison's tab, and the comparison has its tab.
WorkFields == {"open", "tabs", "active", "compare", "dock", "newsOn", "newsTab"}
TabsOk(s) == s \in Seq(Term!Tabs) /\ \A p, q \in DOMAIN s : s[p] = s[q] => p = q
HalfOk(w) ==
  /\ DOMAIN w = WorkFields /\ TabsOk(w.tabs) /\ w.open \in BOOLEAN
  /\ (w.open => w.tabs # <<>>) /\ (w.active = none <=> w.tabs = <<>>) /\ (w.active # none => Term!Has(w.tabs, w.active))
WorkOk(w) == HalfOk(w) /\ (Term!Has(w.tabs, cmp) <=> w.compare # {})

\* A tab is added, and is there; one is dropped, and the others are there.
LEMMA TabAdded ==
  ASSUME NEW w, TabsOk(w.tabs), NEW t \in Term!Tabs, NEW r, r = Term!Added(w, t)
  PROVE  TabsOk(r) /\ r # <<>> /\ Term!Has(r, t) /\ \A x : x # t => (Term!Has(r, x) <=> Term!Has(w.tabs, x))
<1> DEFINE s == w.tabs
<1>1. s \in Seq(Term!Tabs) /\ (\A p, q \in DOMAIN s : s[p] = s[q] => p = q) /\ Len(s) \in Nat /\ DOMAIN s = 1..Len(s)
  BY LenProperties DEF TabsOk
<1>2. r = IF Term!Has(s, t) THEN s ELSE Append(s, t)
  BY DEF Term!Added
<1> HIDE DEF s
<1>3. CASE Term!Has(s, t)
  <2>1. s # <<>>
    BY <1>1, <1>3, EmptySeq DEF Term!Has
  <2>2. QED
    BY <1>1, <1>2, <1>3, <2>1 DEF s, TabsOk
<1>4. CASE ~Term!Has(s, t)
  <2>1. /\ r \in Seq(Term!Tabs) /\ Len(r) = Len(s) + 1 /\ (\A p \in 1..Len(s) : r[p] = s[p]) /\ r[Len(s) + 1] = t
    BY <1>1, <1>2, <1>4, AppendProperties
  <2>2. DOMAIN r = 1..(Len(s) + 1)
    BY <2>1, LenProperties
  <2>3. \A p \in DOMAIN s : s[p] # t
    BY <1>4 DEF Term!Has
  <2>4. \A p, q \in DOMAIN r : r[p] = r[q] => p = q
    BY <1>1, <2>1, <2>2, <2>3
  <2>5. r # <<>>
    BY <1>1, <2>1, EmptySeq
  <2>6. Term!Has(r, t)
    BY <1>1, <2>1, <2>2 DEF Term!Has
  <2>7. \A x : x # t => (Term!Has(r, x) <=> Term!Has(s, x))
    BY <1>1, <2>1, <2>2 DEF Term!Has
  <2>8. QED
    BY <2>1, <2>4, <2>5, <2>6, <2>7 DEF s, TabsOk
<1>5. QED
  BY <1>3, <1>4

LEMMA TabDropped ==
  ASSUME NEW s, TabsOk(s), NEW t, NEW r, r = Term!Without(s, t)
  PROVE  /\ TabsOk(r) /\ (r # <<>> => Term!Has(r, Term!Last(r))) /\ (r = <<>> => Term!Last(r) = none)
         /\ \A x : Term!Has(r, x) <=> x # t /\ Term!Has(s, x)
<1> DEFINE K == {q \in DOMAIN s : s[q] # t}
<1>0. s \in Seq(Term!Tabs) /\ r = Places(s, K)
  BY DEF TabsOk, Term!Without, Places, Term!Places
<1>k. \A q \in DOMAIN s : q \in K <=> s[q] # t
  OBVIOUS
<1> HIDE DEF K
<1>1. /\ r \in Seq(Term!Tabs)
      /\ \A p \in DOMAIN r : \E q \in DOMAIN s : q \in K /\ r[p] = s[q]
      /\ \A q \in DOMAIN s : q \in K => \E p \in DOMAIN r : r[p] = s[q]
      /\ (\A p, q \in DOMAIN s : s[p] = s[q] => p = q) => \A p, q \in DOMAIN r : r[p] = r[q] => p = q
  BY <1>0, PlacesIn
<1>2. TabsOk(r)
  BY <1>1 DEF TabsOk
<1>3. \A x : Term!Has(r, x) <=> x # t /\ Term!Has(s, x)
  BY <1>1, <1>k DEF Term!Has
<1>4. r # <<>> => Term!Has(r, Term!Last(r))
  <2> SUFFICES ASSUME r # <<>> PROVE Term!Has(r, Term!Last(r))
    OBVIOUS
  <2>1. Len(r) \in Nat /\ Len(r) # 0 /\ DOMAIN r = 1..Len(r)
    BY <1>1, LenProperties, EmptySeq
  <2>2. QED
    BY <2>1 DEF Term!Has, Term!Last
<1>5. QED
  BY <1>2, <1>3, <1>4 DEF Term!Last

LEMMA TabsNamed == ASSUME Term!TerminalAssumptions, NEW s, TabsOk(s), NEW x, Term!Has(s, x) PROVE x \in Term!Tabs /\ x # none
BY ElementOfSeq, LenProperties DEF TabsOk, Term!Has, Term!TerminalAssumptions, Term!Tabs

LEMMA TabsNone == ASSUME NEW s, NEW x, Term!Has(s, x) PROVE s # <<>>
BY DEF Term!Has

LEMMA WorkOpened ==
  ASSUME Term!TerminalAssumptions, NEW w, HalfOk(w), NEW t \in Term!Tabs, NEW v, v = Term!OpenedOn(w, t)
  PROVE  /\ HalfOk(v) /\ v.open /\ v.active = t /\ v.compare = w.compare
         /\ \A x : x # t => (Term!Has(v.tabs, x) <=> Term!Has(w.tabs, x))
         /\ Term!Has(v.tabs, t)
<1>1. /\ DOMAIN v = WorkFields /\ v.tabs = Term!Added(w, t) /\ v.open = TRUE /\ v.active = t /\ v.compare = w.compare
  BY DEF HalfOk, WorkFields, Term!OpenedOn
<1>2. TabsOk(v.tabs) /\ v.tabs # <<>> /\ Term!Has(v.tabs, t) /\ \A x : x # t => (Term!Has(v.tabs, x) <=> Term!Has(w.tabs, x))
  BY <1>1, TabAdded DEF HalfOk
<1>3. t # none
  BY DEF Term!TerminalAssumptions, Term!Tabs
<1>4. QED
  BY <1>1, <1>2, <1>3 DEF HalfOk

LEMMA WorkDropped ==
  ASSUME Term!TerminalAssumptions, NEW w, HalfOk(w), NEW t \in Term!Tabs, NEW v, v = Term!DroppedTab(w, t)
  PROVE  HalfOk(v) /\ v.compare = w.compare /\ \A x : Term!Has(v.tabs, x) <=> x # t /\ Term!Has(w.tabs, x)
<1> DEFINE r == Term!Without(w.tabs, t)
<1>1. /\ DOMAIN v = WorkFields /\ v.tabs = r /\ v.open = (w.open /\ r # <<>>) /\ v.compare = w.compare
      /\ v.active = IF w.active = t THEN Term!Last(r) ELSE w.active
  BY DEF HalfOk, WorkFields, Term!DroppedTab
<1>2. TabsOk(r) /\ (r # <<>> => Term!Has(r, Term!Last(r))) /\ (r = <<>> => Term!Last(r) = none) /\ \A x : Term!Has(r, x) <=> x # t /\ Term!Has(w.tabs, x)
  BY TabDropped DEF HalfOk
<1> HIDE DEF r
<1>3. t # none /\ (r # <<>> => Term!Last(r) # none)
  BY <1>2, TabsNamed DEF Term!TerminalAssumptions, Term!Tabs
<1>4. (v.active = none <=> v.tabs = <<>>) /\ (v.active # none => Term!Has(v.tabs, v.active))
  <2>1. CASE w.active = t
    BY <1>1, <1>2, <1>3, <2>1
  <2>2. CASE w.active # t /\ w.active # none
    <3>1. Term!Has(r, w.active)
      BY <1>2, <2>2 DEF HalfOk
    <3>2. QED
      BY <1>1, <2>2, <3>1, TabsNone
  <2>3. CASE w.active = none
    <3>1. w.tabs = <<>>
      BY <2>3 DEF HalfOk
    <3>2. \A x : ~Term!Has(r, x)
      BY <1>2, <3>1 DEF Term!Has
    <3>3. r = <<>>
      BY <1>2, <3>2
    <3>4. QED
      BY <1>1, <1>3, <2>3, <3>3
  <2>4. QED
    BY <2>1, <2>2, <2>3
<1>5. v.open \in BOOLEAN /\ (v.open => v.tabs # <<>>)
  BY <1>1
<1>6. QED
  BY <1>1, <1>2, <1>4, <1>5 DEF HalfOk

\* What opens and closes tabs, and the next frame, leave the workspace sound.
LEMMA WorkOpens ==
  ASSUME Term!TerminalAssumptions, NEW w, WorkOk(w), NEW t \in Term!Tabs \ {cmp}, NEW v, v = Term!OpenedOn(w, t)
  PROVE  WorkOk(v) /\ v.compare = w.compare
BY WorkOpened DEF WorkOk

LEMMA WorkCloses ==
  ASSUME Term!TerminalAssumptions, NEW w, WorkOk(w), NEW t \in Term!Tabs, NEW v, v = Term!Closed(w, t)
  PROVE  WorkOk(v)
<1> DEFINE x == Term!DroppedTab(w, t)
<1>1. HalfOk(x) /\ x.compare = w.compare /\ \A y : Term!Has(x.tabs, y) <=> y # t /\ Term!Has(w.tabs, y)
  BY WorkDropped DEF WorkOk
<1>2. v = [x EXCEPT !.compare = IF t = cmp THEN {} ELSE @]
  BY DEF Term!Closed
<1> HIDE DEF x
<1>3. /\ DOMAIN v = WorkFields /\ v.tabs = x.tabs /\ v.open = x.open /\ v.active = x.active
      /\ v.compare = IF t = cmp THEN {} ELSE x.compare
  BY <1>1, <1>2 DEF HalfOk, WorkFields
<1>4. HalfOk(v)
  BY <1>1, <1>3 DEF HalfOk
<1>5. QED
  BY <1>1, <1>3, <1>4 DEF WorkOk

LEMMA WorkCompares ==
  ASSUME Term!TerminalAssumptions, NEW w, WorkOk(w), NEW s, NEW v, v = Term!Compared(w, s)
  PROVE  WorkOk(v)
<1> DEFINE set == IF s \in w.compare THEN w.compare \ {s} ELSE w.compare \cup {s}
           x == [w EXCEPT !.compare = set]
<1>1. v = IF set # {} THEN Term!OpenedOn(x, cmp) ELSE Term!DroppedTab(x, cmp)
  BY DEF Term!Compared
<1>2. DOMAIN x = WorkFields /\ x.tabs = w.tabs /\ x.open = w.open /\ x.active = w.active /\ x.compare = set
  BY DEF WorkOk, HalfOk, WorkFields
<1> HIDE DEF x, set
<1>3. HalfOk(x) /\ cmp \in Term!Tabs
  BY <1>2 DEF WorkOk, HalfOk, Term!Tabs
<1>4. CASE set # {}
  <2>1. HalfOk(v) /\ v.compare = x.compare /\ Term!Has(v.tabs, cmp)
    BY <1>1, <1>3, <1>4, WorkOpened
  <2>2. QED
    BY <1>2, <1>4, <2>1 DEF WorkOk
<1>5. CASE set = {}
  <2>1. HalfOk(v) /\ v.compare = x.compare /\ ~Term!Has(v.tabs, cmp)
    BY <1>1, <1>3, <1>5, WorkDropped
  <2>2. QED
    BY <1>2, <1>5, <2>1 DEF WorkOk
<1>6. QED
  BY <1>4, <1>5

LEMMA WorkLike ==
  ASSUME NEW w, WorkOk(w), NEW v, DOMAIN v = DOMAIN w, v.tabs = w.tabs, v.active = w.active, v.compare = w.compare,
         v.open \in BOOLEAN, v.open => w.tabs # <<>>
  PROVE  WorkOk(v)
BY DEF WorkOk, HalfOk

LEMMA WorkBoots ==
  ASSUME Term!TerminalAssumptions, NEW w, WorkOk(w), NEW c \in Firms, NEW auto \in BOOLEAN, NEW name \in IndexNames \cup {none},
         NEW v, v = Term!Booted(w, c, auto, name)
  PROVE  WorkOk(v) /\ v.compare = w.compare
<1> DEFINE x == Term!Adapted(w)
           y == Term!WithCompany(x, c, auto)
<1>0. v = Term!WithIndex(y, name) /\ c \in Term!Tabs \ {cmp} /\ (name # none => name \in Term!Tabs \ {cmp})
  BY DEF Term!Booted, Term!TerminalAssumptions, Term!Tabs
<1>1. WorkOk(x) /\ x.compare = w.compare
  <2>1. DOMAIN x = DOMAIN w /\ x.tabs = w.tabs /\ x.active = w.active /\ x.compare = w.compare /\ x.open = w.open
    BY DEF Term!Adapted, WorkOk, HalfOk, WorkFields
  <2> HIDE DEF x
  <2>2. QED
    BY <2>1, WorkLike DEF WorkOk, HalfOk
<1> HIDE DEF x
<1>2. WorkOk(y) /\ y.compare = w.compare
  <2>1. CASE auto /\ ~mobile
    BY <1>0, <1>1, <2>1, WorkOpens DEF Term!WithCompany
  <2>2. CASE auto /\ mobile
    <3>1. /\ DOMAIN y = DOMAIN x /\ y.tabs = x.tabs /\ y.active = x.active /\ y.compare = x.compare /\ y.open = x.open
      BY <1>1, <2>2 DEF Term!WithCompany, WorkOk, HalfOk, WorkFields
    <3> HIDE DEF y
    <3>2. QED
      BY <1>1, <3>1, WorkLike DEF WorkOk, HalfOk
  <2>3. CASE ~auto
    BY <1>1, <2>3 DEF Term!WithCompany
  <2>4. QED
    BY <2>1, <2>2, <2>3
<1> HIDE DEF y
<1>3. QED
  BY <1>0, <1>2, WorkOpens DEF Term!WithIndex

\* The body: it shows the active tab, and the comparison under way is of the companies compared.
BodyFields == {"tab", "main", "side", "set"}
CallFields == {"kind", "of", "set", "round", "node"}
AskOk(c) ==
  /\ DOMAIN c = CallFields /\ c.kind \in {"hist", "fund", "index", "caps", "compare", "news"}
  /\ (c.kind \in {"hist", "fund"} => c.of # cmp) /\ (c.kind \in {"index", "caps"} => c.of \in IndexNames)
SetsAgree(w, C) == \A c \in C : c.kind = "compare" => c.set = w.compare
Shows(w, b) == w.open => b.tab = w.active /\ (b.tab = cmp /\ b.main = "drawn" => b.set = w.compare)
BodyOk(w, b, C) == SetsAgree(w, C) /\ (frame => Shows(w, b))
PlacesOk ==
  /\ centre \in Firms \cup {none} /\ generating \in Firms \cup {none} /\ idxCmd \in IndexNames \cup {none}
  /\ frame \in BOOLEAN /\ (frame => centre # none)
BodyInv ==
  /\ PlacesOk /\ WorkOk(W) /\ DOMAIN body = BodyFields /\ (\A c \in asked : AskOk(c))
  /\ strayed \in BOOLEAN /\ (~strayed => SetsAgree(W, asked) /\ (frame => Shows(W, body)))

LEMMA BodyMade == ASSUME NEW t, NEW m, NEW s, NEW set, NEW b, b = Term!Body(t, m, s, set) PROVE DOMAIN b = BodyFields /\ b.tab = t /\ b.main = m /\ b.set = set
BY DEF Term!Body, BodyFields
LEMMA CallMade == ASSUME NEW k, NEW x, NEW set, NEW c, c = Term!Call(k, x, set, 0) PROVE DOMAIN c = CallFields /\ c.kind = k /\ c.of = x /\ c.set = set
BY DEF Term!Call, CallFields

LEMMA ShownIs ==
  ASSUME Term!TerminalAssumptions, NEW w, WorkOk(w), NEW b, DOMAIN b = BodyFields, NEW k, NEW r, r = Term!Shown(w, b, k)
  PROVE  DOMAIN r = BodyFields /\ Shows(w, r)
<1>0. w.open \in BOOLEAN
  BY DEF WorkOk, HalfOk
<1>1. CASE ~w.open \/ w.active = none
  <2>1. r = b
    BY <1>0, <1>1 DEF Term!Shown
  <2>2. w.active = none => ~w.open
    BY DEF WorkOk, HalfOk
  <2>3. QED
    BY <1>1, <2>1, <2>2 DEF Shows
<1>2. CASE w.open /\ w.active # none /\ w.active = cmp
  <2>1. PICK m \in {"message", "loading"} : r = Term!Body(cmp, m, "none", {})
    BY <1>0, <1>2 DEF Term!Shown, Term!CompareBody
  <2>2. QED
    BY <1>2, <2>1, BodyMade DEF Shows
<1>3. CASE w.open /\ w.active # none /\ w.active # cmp
  <2>1. PICK m, s : r = Term!Body(w.active, m, s, {})
    BY <1>0, <1>3 DEF Term!Shown, Term!IndexBody, Term!CompanyBody
  <2>2. QED
    BY <1>3, <2>1, BodyMade DEF Shows
<1>4. QED
  BY <1>1, <1>2, <1>3

LEMMA AskedIs ==
  ASSUME Term!TerminalAssumptions, NEW w, WorkOk(w), NEW k, NEW c \in Term!Asked(w, k)
  PROVE  AskOk(c) /\ (c.kind = "compare" => c.set = w.compare)
<1>0. w.open /\ w.active # none
  <2>1. w.open \in BOOLEAN
    BY DEF WorkOk, HalfOk
  <2>2. ~w.open \/ w.active = none => Term!Asked(w, k) = {}
    BY <2>1 DEF Term!Asked
  <2>3. QED
    BY <2>1, <2>2
<1>1. CASE w.active = cmp
  <2>1. c = Term!Call("compare", cmp, w.compare, 0)
    BY <1>0, <1>1 DEF Term!Asked, Term!CompareCalls
  <2>2. QED
    BY <2>1, CallMade DEF AskOk
<1>2. CASE w.active # cmp /\ w.active \in IndexNames
  <2>1. c = Term!Call("index", w.active, {}, 0)
    BY <1>0, <1>2 DEF Term!Asked, Term!IndexCalls
  <2>2. QED
    BY <1>2, <2>1, CallMade DEF AskOk
<1>3. CASE w.active # cmp /\ w.active \notin IndexNames
  <2>1. c = Term!Call("hist", w.active, {}, 0) \/ c = Term!Call("fund", w.active, {}, 0)
    BY <1>0, <1>3 DEF Term!Asked, Term!CompanyCalls
  <2>2. QED
    BY <1>3, <2>1, CallMade DEF AskOk
<1>4. QED
  BY <1>1, <1>2, <1>3

LEMMA DetachedIs ==
  ASSUME NEW C, \A c \in C : AskOk(c), NEW w
  PROVE  (\A c \in Term!Detached(C) : AskOk(c)) /\ (SetsAgree(w, C) => SetsAgree(w, Term!Detached(C)))
<1>1. ASSUME NEW c \in Term!Detached(C) PROVE \E d \in C : DOMAIN c = DOMAIN d /\ c.kind = d.kind /\ c.of = d.of /\ c.set = d.set
  <2>1. PICK d \in C : c = IF d.kind \in {"hist", "fund"} THEN [d EXCEPT !.node = FALSE] ELSE d
    BY DEF Term!Detached
  <2>2. DOMAIN d = CallFields
    BY DEF AskOk
  <2>3. QED
    BY <2>1, <2>2 DEF CallFields
<1>2. QED
  BY <1>1 DEF AskOk, SetsAgree

LEMMA NewsAsk == AskOk(Term!NewsCall) /\ Term!NewsCall.kind # "compare"
BY CallMade DEF AskOk, Term!NewsCall

LEMMA BodyRender ==
  ASSUME Term!TerminalAssumptions, BodyInv, NEW w, WorkOk(w), Term!Render(w, {}), UNCHANGED <<centre, generating, idxCmd, frame>>
  PROVE  BodyInv'
<1>1. W' = w /\ body' = Term!Shown(w, body, cache)
  BY DEF Term!Render
<1>2. DOMAIN body' = BodyFields /\ Shows(w, body')
  BY <1>1, ShownIs DEF BodyInv
<1> DEFINE D == IF ~w.open \/ w.active = none THEN asked ELSE Term!Detached(asked)
<1>3. asked' = D \cup Term!Asked(w, cache)
  BY DEF Term!Render
<1>4. (\A c \in D : AskOk(c)) /\ (SetsAgree(w, asked) => SetsAgree(w, D))
  BY DetachedIs DEF BodyInv
<1> HIDE DEF D
<1>5. \A c \in asked' : AskOk(c)
  BY <1>3, <1>4, AskedIs
<1>6. strayed' = (strayed \/ (\E c \in asked : c.kind = "compare" /\ c.set # w.compare))
  BY DEF Term!Render
<1>7. ~strayed' => SetsAgree(w, asked)
  BY <1>6 DEF SetsAgree
<1>8. ~strayed' => SetsAgree(w, asked')
  BY <1>3, <1>4, <1>7, AskedIs DEF SetsAgree
<1>9. PlacesOk'
  BY DEF BodyInv, PlacesOk
<1>10. strayed' \in BOOLEAN
  BY <1>6 DEF BodyInv
<1>11. QED
  BY <1>1, <1>2, <1>5, <1>8, <1>9, <1>10 DEF BodyInv, SetsAgree, Shows

LEMMA BodyBuild ==
  ASSUME Term!TerminalAssumptions, WorkOk(W), strayed' \in BOOLEAN, NEW c \in Firms, NEW auto \in BOOLEAN, NEW name \in IndexNames \cup {none},
         Term!Build(c, auto, name), PlacesOk'
  PROVE  BodyInv'
<1> DEFINE w == Term!Booted(W, c, auto, name)
<1>1. /\ W' = w /\ body' = Term!Shown(w, Term!NoBody, Term!NoCache)
      /\ \A d \in asked' : d \in Term!Asked(w, Term!NoCache) \/ d = Term!NewsCall
  BY DEF Term!Build
<1>2. WorkOk(w)
  BY WorkBoots
<1> HIDE DEF w
<1>3. DOMAIN Term!NoBody = BodyFields
  BY BodyMade DEF Term!NoBody
<1>4. DOMAIN body' = BodyFields /\ Shows(w, body')
  BY <1>1, <1>2, <1>3, ShownIs
<1>5. \A d \in asked' : AskOk(d) /\ (d.kind = "compare" => d.set = w.compare)
  BY <1>1, <1>2, AskedIs, NewsAsk
<1>6. QED
  BY <1>1, <1>2, <1>4, <1>5 DEF BodyInv, SetsAgree, Shows

LEMMA BodyUnbuild == ASSUME BodyInv, Term!Unbuild, PlacesOk', UNCHANGED strayed PROVE BodyInv'
<1>1. W' = W /\ body' = Term!NoBody /\ asked' = {} /\ ~frame'
  BY DEF Term!Unbuild
<1>2. DOMAIN Term!NoBody = BodyFields
  BY BodyMade DEF Term!NoBody
<1>3. QED
  BY <1>1, <1>2 DEF BodyInv, SetsAgree

\* The workspace changes in what the body does not show.
LEMMA BodyLike ==
  ASSUME BodyInv, WorkOk(W'), W'.active = W.active, W'.compare = W.compare, W'.open => W.open, UNCHANGED <<body, frame, strayed>>,
         \A c \in asked' : c \in asked \/ c = Term!NewsCall, PlacesOk'
  PROVE  BodyInv'
<1>1. \A c \in asked' : AskOk(c) /\ (c \in asked \/ c.kind # "compare")
  BY NewsAsk DEF BodyInv
<1>2. ~strayed => SetsAgree(W', asked')
  BY <1>1 DEF BodyInv, SetsAgree
<1>3. ~strayed /\ frame => Shows(W', body)
  BY DEF BodyInv, Shows
<1>4. QED
  BY <1>1, <1>2, <1>3 DEF BodyInv, SetsAgree, Shows

\* An answer: the body stays with its tab, or shows what it is about.
LEMMA BodyAnswer ==
  ASSUME BodyInv, UNCHANGED <<centre, generating, idxCmd, frame, W>>, DOMAIN body' = BodyFields, strayed' \in BOOLEAN,
         \A c \in asked' : AskOk(c) /\ (~strayed' => (c.kind = "compare" => c.set = W.compare)),
         ~strayed' => (~strayed /\ (Shows(W, body) => Shows(W, body')))
  PROVE  BodyInv'
<1>1. PlacesOk'
  BY DEF BodyInv, PlacesOk
<1>2. ~strayed' /\ frame => Shows(W, body')
  BY DEF BodyInv
<1>3. QED
  BY <1>1, <1>2 DEF BodyInv, SetsAgree, Shows

\* The trail: no company follows itself, and its last is neither the one awaited nor the one centred.
Latest(h) == h[Len(h)]
Moves(h, next) == (\A p \in 1..(Len(h) - 1) : h[p] # h[p + 1]) /\ (h # <<>> => Latest(h) # next)
TrailInv ==
  /\ history \in Seq(Firms) /\ failed \in BOOLEAN /\ (centre = none => history = <<>>)
  /\ (~failed => Moves(history, IF generating # none THEN generating ELSE centre))
TermInv == BodyInv /\ TrailInv

LEMMA FirmsNamed == ASSUME Term!TerminalAssumptions PROVE none \notin Firms /\ none \notin IndexNames
BY DEF Term!TerminalAssumptions

\* One more company on the trail, one less.
LEMMA TrailMore ==
  ASSUME NEW h \in Seq(Firms), NEW c \in Firms, NEW s, s # c, NEW g, g = Append(h, c)
  PROVE  g \in Seq(Firms) /\ (Moves(h, c) => Moves(g, s))
<1>1. Len(h) \in Nat /\ g \in Seq(Firms) /\ Len(g) = Len(h) + 1 /\ (\A p \in 1..Len(h) : g[p] = h[p]) /\ g[Len(h) + 1] = c
  BY AppendProperties, LenProperties
<1>2. ASSUME Moves(h, c), NEW p \in 1..(Len(g) - 1) PROVE g[p] # g[p + 1]
  <2>1. CASE p = Len(h)
    <3>1. Len(h) # 0
      BY <1>1, <1>2, <2>1
    <3>2. h # <<>>
      BY <3>1, EmptySeq
    <3>3. QED
      BY <1>1, <1>2, <2>1, <3>1, <3>2 DEF Moves, Latest
  <2>2. CASE p # Len(h)
    <3>1. p \in 1..(Len(h) - 1) /\ p \in 1..Len(h) /\ p + 1 \in 1..Len(h)
      BY <1>1, <1>2, <2>2
    <3>2. QED
      BY <1>1, <1>2, <3>1 DEF Moves
  <2>3. QED
    BY <2>1, <2>2
<1>3. Latest(g) = c
  BY <1>1 DEF Latest
<1>4. QED
  BY <1>1, <1>2, <1>3 DEF Moves

LEMMA TrailLess ==
  ASSUME NEW h \in Seq(Firms), h # <<>>, NEW g, g = SubSeq(h, 1, Len(h) - 1), NEW s
  PROVE  g \in Seq(Firms) /\ Latest(h) \in Firms /\ (Moves(h, s) => Moves(g, Latest(h)))
<1> DEFINE n == Len(h) - 1
<1>1. Len(h) \in Nat /\ Len(h) # 0 /\ n \in Nat /\ Len(h) = n + 1
  BY LenProperties, EmptySeq
<1>s. g = SubSeq(h, 1, n)
  OBVIOUS
<1> HIDE DEF n
<1>2. g \in Seq(Firms) /\ Len(g) = n /\ \A p \in 1..n : g[p] = h[p]
  <2>1. \A p \in 1..n : h[p] \in Firms
    BY <1>1, ElementOfSeq
  <2>2. 1 \in Int /\ n \in Int
    BY <1>1
  <2>3. /\ SubSeq(h, 1, n) \in Seq(Firms)
        /\ Len(SubSeq(h, 1, n)) = (IF 1 <= n THEN n - 1 + 1 ELSE 0)
        /\ \A p \in 1..(n - 1 + 1) : SubSeq(h, 1, n)[p] = h[1 + p - 1]
    BY <2>1, <2>2, SubSeqProperties
  <2> DEFINE r == SubSeq(h, 1, n)
  <2>r. /\ r \in Seq(Firms) /\ Len(r) = (IF 1 <= n THEN n - 1 + 1 ELSE 0) /\ \A p \in 1..(n - 1 + 1) : r[p] = h[1 + p - 1]
    BY <2>3
  <2>g. g = r
    BY <1>s
  <2> HIDE DEF r
  <2>4. r \in Seq(Firms) /\ Len(r) = n
    BY <1>1, <2>r
  <2>5. ASSUME NEW p \in 1..n PROVE r[p] = h[p]
    <3>1. p \in 1..(n - 1 + 1) /\ 1 + p - 1 = p
      BY <1>1
    <3>2. r[p] = h[1 + p - 1]
      BY <2>r, <3>1
    <3>3. QED
      BY <3>1, <3>2
  <2>6. QED
    BY <2>4, <2>5, <2>g
<1>3. Latest(h) \in Firms
  BY <1>1, ElementOfSeq DEF Latest
<1>4. ASSUME Moves(h, s) PROVE Moves(g, Latest(h))
  <2>1. \A p \in 1..(Len(g) - 1) : g[p] # g[p + 1]
    <3> SUFFICES ASSUME NEW p \in 1..(Len(g) - 1) PROVE g[p] # g[p + 1]
      OBVIOUS
    <3>1. p \in 1..(n) /\ p + 1 \in 1..(n)
      BY <1>1, <1>2
    <3>2. QED
      BY <1>2, <1>4, <3>1 DEF Moves
  <2>2. g # <<>> => Latest(g) # Latest(h)
    <3> SUFFICES ASSUME g # <<>> PROVE Latest(g) # Latest(h)
      OBVIOUS
    <3>1. Len(g) # 0 /\ Len(g) \in Nat
      BY <1>2, EmptySeq, LenProperties
    <3>2. Len(g) \in 1..(n) /\ Len(g) + 1 = Len(h)
      BY <1>1, <1>2, <3>1
    <3>3. QED
      BY <1>2, <1>4, <3>2 DEF Moves, Latest
  <2>3. QED
    BY <2>1, <2>2 DEF Moves
<1>5. QED
  BY <1>2, <1>3, <1>4

\* What the host does.
LEMMA TermAsk ==
  ASSUME Term!TerminalAssumptions, TermInv, generating = none, NEW s \in Firms, NEW trail, Term!Ask(s, trail),
         UNCHANGED <<centre, idxCmd, failed, strayed>>, ~failed => Moves(trail, s) \/ trail = history, trail \in Seq(Firms),
         centre = none => trail = history, centre # none /\ s = centre => trail = history \/ failed
  PROVE  TermInv'
<1>0. none \notin Firms
  BY FirmsNamed
<1>1. CASE Term!Stays(s)
  <2>1. centre = s /\ generating' = none /\ history' = trail
    BY <1>0, <1>1 DEF Term!Ask, Term!Stays
  <2>2. TrailInv'
    BY <1>0, <2>1 DEF TermInv, TrailInv
  <2>3. CASE Term!Build(centre, graph = "minimal", idxCmd)
    <3>1. frame'
      BY <2>3 DEF Term!Build
    <3>2. PlacesOk'
      BY <1>0, <2>1, <2>3 DEF TermInv, BodyInv, PlacesOk, Term!Build
    <3>3. centre \in Firms /\ (graph = "minimal") \in BOOLEAN /\ idxCmd \in IndexNames \cup {none} /\ WorkOk(W) /\ strayed' \in BOOLEAN
      BY <2>1 DEF TermInv, BodyInv, PlacesOk
    <3>4. QED
      BY <2>2, <2>3, <3>2, <3>3, BodyBuild DEF TermInv
  <2>4. CASE UNCHANGED <<W, frame, body, news, cache, asked>>
    <3>1. PlacesOk'
      BY <2>1, <2>4 DEF TermInv, BodyInv, PlacesOk
    <3>2. BodyInv'
      BY <2>4, <3>1 DEF TermInv, BodyInv, SetsAgree, Shows
    <3>3. QED
      BY <2>2, <3>2 DEF TermInv
  <2>5. QED
    BY <1>0, <1>1, <2>1, <2>3, <2>4 DEF Term!Ask, Term!inner
<1>2. CASE ~Term!Stays(s)
  <2>1. /\ centre # s /\ generating' = s /\ Term!Unbuild
        /\ history' = IF trail = history /\ centre # none THEN Append(history, centre) ELSE trail
    BY <1>2 DEF Term!Ask, Term!Stays
  <2>2. PlacesOk'
    BY <2>1 DEF TermInv, BodyInv, PlacesOk, Term!Unbuild
  <2>3. BodyInv'
    BY <2>1, <2>2, BodyUnbuild DEF TermInv
  <2>4. TrailInv'
    <3>1. CASE trail = history /\ centre # none
      <4>1. history \in Seq(Firms) /\ centre \in Firms /\ history' = Append(history, centre)
        BY <2>1, <3>1 DEF TermInv, TrailInv, BodyInv, PlacesOk
      <4>2. history' \in Seq(Firms) /\ (Moves(history, centre) => Moves(history', s))
        BY <2>1, <4>1, TrailMore
      <4>3. QED
        BY <1>0, <2>1, <3>1, <4>2 DEF TermInv, TrailInv
    <3>2. CASE ~(trail = history /\ centre # none)
      <4>1. history' = trail
        BY <2>1, <3>2
      <4>2. centre = none => trail = <<>> /\ Moves(trail, s)
        BY DEF TermInv, TrailInv, Moves
      <4>3. ~failed => Moves(trail, s)
        BY <3>2, <4>2
      <4>4. QED
        BY <1>0, <2>1, <4>1, <4>2, <4>3 DEF TermInv, TrailInv
    <3>3. QED
      BY <3>1, <3>2
  <2>5. QED
    BY <2>3, <2>4 DEF TermInv
<1>3. QED
  BY <1>1, <1>2
LEMMA TermRebuild ==
  ASSUME Term!TerminalAssumptions, TermInv, NEW c \in Firms, NEW g, NEW name \in IndexNames \cup {none},
         Term!Build(c, g = "minimal", name), c = centre', generating' \in Firms \cup {none}, idxCmd' \in IndexNames \cup {none},
         strayed' \in BOOLEAN, TrailInv'
  PROVE  TermInv'
<1>1. frame' = TRUE /\ none \notin Firms
  BY FirmsNamed DEF Term!Build
<1>2. PlacesOk'
  BY <1>1 DEF PlacesOk
<1>3. (g = "minimal") \in BOOLEAN /\ WorkOk(W)
  BY DEF TermInv, BodyInv
<1>4. QED
  BY <1>2, <1>3, BodyBuild DEF TermInv

LEMMA TrailSame == ASSUME TrailInv, UNCHANGED <<history, failed, centre, generating>> PROVE TrailInv'
BY DEF TrailInv

LEMMA TermIdle ==
  ASSUME TermInv, UNCHANGED <<history, failed, centre, generating, W, frame, body, asked, strayed>>, idxCmd' \in IndexNames \cup {none}
  PROVE  TermInv'
<1>1. PlacesOk'
  BY DEF TermInv, BodyInv, PlacesOk
<1>2. BodyInv'
  BY <1>1 DEF TermInv, BodyInv, SetsAgree, Shows
<1>3. QED
  BY <1>2, TrailSame DEF TermInv

LEMMA TermArrived == ASSUME Term!TerminalAssumptions, TermInv, Term!Arrived PROVE TermInv'
<1>0. /\ generating \in Firms /\ generating # none /\ generating' = none /\ none \notin Firms /\ idxCmd \in IndexNames \cup {none}
      /\ centre \in Firms \cup {none} /\ UNCHANGED <<history, idxCmd, strayed>> /\ strayed' \in BOOLEAN
  BY FirmsNamed DEF TermInv, BodyInv, PlacesOk, Term!Arrived
<1>1. ASSUME NEW g, centre' = generating, Term!Build(generating, g = "minimal", idxCmd), UNCHANGED <<genErr, failed>> PROVE TermInv'
  <2>1. TrailInv'
    BY <1>0, <1>1 DEF TermInv, TrailInv
  <2>2. QED
    BY <1>0, <1>1, <2>1, TermRebuild
<1>2. ASSUME failed' = TRUE, UNCHANGED centre, IF centre = none THEN UNCHANGED <<W, frame, body, news, cache, asked>> ELSE Term!Build(centre, graph = "minimal", idxCmd)
      PROVE  TermInv'
  <2>1. TrailInv'
    BY <1>0, <1>2 DEF TermInv, TrailInv
  <2>2. CASE centre = none
    <3>1. PlacesOk'
      BY <1>0, <1>2, <2>2 DEF TermInv, BodyInv, PlacesOk
    <3>2. BodyInv'
      BY <1>0, <1>2, <2>2, <3>1 DEF TermInv, BodyInv, SetsAgree, Shows
    <3>3. QED
      BY <2>1, <3>2 DEF TermInv
  <2>3. CASE centre # none
    BY <1>0, <1>2, <2>1, <2>3, TermRebuild
  <2>4. QED
    BY <2>2, <2>3
<1>3. QED
  BY <1>1, <1>2 DEF Term!Arrived, Term!inner

LEMMA TermHost == ASSUME Term!TerminalAssumptions, TermInv, Term!HostNext PROVE TermInv'
<1>0. none \notin Firms /\ none \notin IndexNames /\ centre \in Firms \cup {none} /\ idxCmd \in IndexNames \cup {none} /\ generating \in Firms \cup {none} /\ strayed \in BOOLEAN
  BY FirmsNamed DEF TermInv, BodyInv, PlacesOk
<1>1. CASE Term!Loaded
  BY <1>0, <1>1, TermIdle DEF Term!Loaded, Term!inner
<1>2. ASSUME Term!SetKey \/ Term!QuotesArrive PROVE TermInv'
  <2>1. UNCHANGED <<history, centre, generating, idxCmd, failed, strayed>>
    BY <1>2 DEF Term!SetKey, Term!QuotesArrive, Term!host
  <2>2. ASSUME UNCHANGED <<W, frame, body, news, cache, asked>> PROVE TermInv'
    BY <1>0, <2>1, <2>2, TermIdle
  <2>3. ASSUME Term!FrameShown, Term!Build(centre, graph = "minimal", idxCmd) PROVE TermInv'
    <3>1. centre \in Firms /\ TrailInv'
      BY <1>0, <2>1, <2>3, TrailSame DEF Term!FrameShown, TermInv
    <3>2. QED
      BY <1>0, <2>1, <2>3, <3>1, TermRebuild
  <2>4. QED
    BY <1>2, <2>2, <2>3 DEF Term!SetKey, Term!QuotesArrive, Term!inner
<1>3. ASSUME NEW x \in IndexNames, Term!SelectIndex(x) PROVE TermInv'
  <2>1. UNCHANGED <<history, centre, generating, failed, strayed>> /\ idxCmd' = x
    BY <1>3 DEF Term!SelectIndex
  <2>2. CASE Term!FrameShown
    <3>1. centre \in Firms /\ TrailInv'
      BY <1>0, <2>1, <2>2, TrailSame DEF Term!FrameShown, TermInv
    <3>2. Term!Build(centre, graph = "minimal", x)
      BY <1>3, <2>2 DEF Term!SelectIndex
    <3>3. QED
      BY <1>0, <2>1, <3>1, <3>2, TermRebuild
  <2>3. CASE ~Term!FrameShown
    <3>1. UNCHANGED <<W, frame, body, news, cache, asked>>
      BY <1>3, <2>3 DEF Term!SelectIndex, Term!inner
    <3>2. QED
      BY <2>1, <3>1, TermIdle
  <2>4. QED
    BY <2>2, <2>3
<1>4. ASSUME NEW s \in Firms, Term!Select(s) PROVE TermInv'
  <2>1. generating = none
    BY <1>4 DEF Term!Select, Term!Controls
  <2>2. history \in Seq(Firms) /\ Term!Ask(s, history) /\ UNCHANGED <<centre, idxCmd, failed, strayed>>
    BY <1>4 DEF Term!Select, TermInv, TrailInv
  <2>3. QED
    BY <2>1, <2>2, TermAsk
<1>5. CASE Term!GoBack
  <2> DEFINE trail == SubSeq(history, 1, Len(history) - 1)
  <2>1. generating = none /\ centre # none /\ history # <<>> /\ UNCHANGED <<centre, idxCmd, failed, strayed>>
    BY <1>5 DEF Term!GoBack, Term!FrameShown
  <2>2. Term!Ask(Latest(history), trail)
    BY <1>5, <2>1 DEF Term!GoBack, Term!Last, Latest
  <2>3. history \in Seq(Firms)
    BY DEF TermInv, TrailInv
  <2>4. trail \in Seq(Firms) /\ Latest(history) \in Firms /\ (Moves(history, centre) => Moves(trail, Latest(history)))
    BY <2>1, <2>3, TrailLess
  <2> HIDE DEF trail
  <2>5. ~failed => Moves(history, centre)
    BY <2>1 DEF TermInv, TrailInv
  <2>6. ~failed => Latest(history) # centre
    BY <2>1, <2>5 DEF Moves
  <2>7. (~failed => Moves(trail, Latest(history)) \/ trail = history) /\ (centre # none /\ Latest(history) = centre => trail = history \/ failed)
    BY <2>4, <2>5, <2>6
  <2>8. QED
    BY <2>1, <2>2, <2>4, <2>7, TermAsk
<1>6. QED
  BY <1>1, <1>2, <1>3, <1>4, <1>5, TermArrived DEF Term!HostNext

\* What is done in the frame.
LEMMA TermRender ==
  ASSUME Term!TerminalAssumptions, TermInv, NEW w, WorkOk(w), Term!Render(w, {}), UNCHANGED <<history, centre, generating, idxCmd, frame, failed>>
  PROVE  TermInv'
BY BodyRender, TrailSame DEF TermInv

LEMMA TermLike ==
  ASSUME TermInv, NEW w, W' = w, WorkOk(w), w.active = W.active, w.compare = W.compare, w.open => W.open,
         UNCHANGED <<history, centre, generating, idxCmd, frame, failed, body, strayed>>,
         \A c \in asked' : c \in asked \/ c = Term!NewsCall
  PROVE  TermInv'
<1>1. PlacesOk'
  BY DEF TermInv, BodyInv, PlacesOk
<1>2. WorkOk(W') /\ W'.active = W.active /\ W'.compare = W.compare /\ (W'.open => W.open)
  OBVIOUS
<1>3. BodyInv'
  BY <1>1, <1>2, BodyLike DEF TermInv
<1>4. QED
  BY <1>3, TrailSame DEF TermInv

LEMMA TermFrame == ASSUME Term!TerminalAssumptions, TermInv, Term!FrameNext PROVE TermInv'
<1>0. /\ UNCHANGED <<history, centre, generating, idxCmd, frame, failed>> /\ frame /\ centre \in Firms /\ WorkOk(W) /\ W.open \in BOOLEAN
      /\ DOMAIN W = WorkFields
  <2>1. Term!InFrame
    BY DEF Term!FrameNext, Term!CloseWin, Term!ToggleNews, Term!LoadNews, Term!ToggleWin, Term!OpenTab, Term!ToggleCompare, Term!CloseTab,
           Term!SelTab, Term!SetDock, Term!SetNewsTab
  <2>2. QED
    BY <2>1 DEF Term!InFrame, Term!host, TermInv, BodyInv, PlacesOk, WorkOk, HalfOk
<1>n. \A s \in Firms : s \in Term!Tabs \ {cmp}
  BY DEF Term!TerminalAssumptions, Term!Tabs
<1>1. ASSUME NEW s \in Firms, Term!OpenTab(s) PROVE TermInv'
  <2>1. WorkOk(Term!OpenedOn(W, s))
    BY <1>0, <1>n, WorkOpens
  <2>2. Term!Render(Term!OpenedOn(W, s), {})
    BY <1>1 DEF Term!OpenTab
  <2>3. QED
    BY <1>0, <2>1, <2>2, TermRender
<1>2. ASSUME NEW s \in Firms, Term!ToggleCompare(s) PROVE TermInv'
  <2>1. WorkOk(Term!Compared(W, s))
    BY <1>0, WorkCompares
  <2>2. Term!Render(Term!Compared(W, s), {})
    BY <1>2 DEF Term!ToggleCompare
  <2>3. QED
    BY <1>0, <2>1, <2>2, TermRender
<1>3. ASSUME NEW t \in Term!Tabs, Term!CloseTab(t) PROVE TermInv'
  <2>1. WorkOk(Term!Closed(W, t))
    BY <1>0, WorkCloses
  <2>2. Term!Render(Term!Closed(W, t), {})
    BY <1>3 DEF Term!CloseTab
  <2>3. QED
    BY <1>0, <2>1, <2>2, TermRender
<1>4. ASSUME NEW t \in Term!Tabs, Term!SelTab(t) PROVE TermInv'
  <2> DEFINE w == [W EXCEPT !.active = t]
  <2>1. Term!Render(w, {}) /\ W.open /\ Term!Has(W.tabs, t)
    BY <1>4 DEF Term!SelTab
  <2>2. DOMAIN w = WorkFields /\ w.tabs = W.tabs /\ w.open = W.open /\ w.compare = W.compare /\ w.active = t
    BY <1>0 DEF WorkFields
  <2> HIDE DEF w
  <2>3. t # none /\ W.tabs # <<>>
    BY <2>1, TabsNone DEF Term!TerminalAssumptions, Term!Tabs
  <2>4. WorkOk(w)
    BY <1>0, <2>1, <2>2, <2>3 DEF WorkOk, HalfOk
  <2>5. QED
    BY <1>0, <2>1, <2>4, TermRender
<1>5. ASSUME NEW m, Term!SetDock(m) PROVE TermInv'
  <2> DEFINE w == [W EXCEPT !.dock = m]
  <2>1. Term!Render(w, {})
    BY <1>5 DEF Term!SetDock
  <2>2. DOMAIN w = DOMAIN W /\ w.tabs = W.tabs /\ w.open = W.open /\ w.compare = W.compare /\ w.active = W.active
    BY <1>0 DEF WorkFields
  <2> HIDE DEF w
  <2>3. WorkOk(w)
    BY <1>0, <2>2, WorkLike DEF WorkOk, HalfOk
  <2>4. QED
    BY <1>0, <2>1, <2>3, TermRender
<1>6. CASE Term!ToggleWin
  <2>1. CASE W.open
    <3> DEFINE w == [W EXCEPT !.open = FALSE]
    <3>1. Term!Render(w, {})
      BY <1>6, <2>1 DEF Term!ToggleWin
    <3>2. DOMAIN w = DOMAIN W /\ w.tabs = W.tabs /\ w.open = FALSE /\ w.compare = W.compare /\ w.active = W.active
      BY <1>0 DEF WorkFields
    <3> HIDE DEF w
    <3>3. WorkOk(w)
      BY <1>0, <3>2, WorkLike
    <3>4. QED
      BY <1>0, <3>1, <3>3, TermRender
  <2>2. CASE ~W.open /\ W.tabs = <<>>
    <3>1. WorkOk(Term!OpenedOn(W, centre))
      BY <1>0, <1>n, WorkOpens
    <3>2. Term!Render(Term!OpenedOn(W, centre), {})
      BY <1>6, <2>2 DEF Term!ToggleWin
    <3>3. QED
      BY <1>0, <3>1, <3>2, TermRender
  <2>3. CASE ~W.open /\ W.tabs # <<>>
    <3> DEFINE w == [W EXCEPT !.open = TRUE]
    <3>1. Term!Render(w, {})
      BY <1>6, <2>3 DEF Term!ToggleWin
    <3>2. DOMAIN w = DOMAIN W /\ w.tabs = W.tabs /\ w.open = TRUE /\ w.compare = W.compare /\ w.active = W.active
      BY <1>0 DEF WorkFields
    <3> HIDE DEF w
    <3>3. WorkOk(w)
      BY <1>0, <2>3, <3>2, WorkLike
    <3>4. QED
      BY <1>0, <3>1, <3>3, TermRender
  <2>4. QED
    BY <2>1, <2>2, <2>3
<1>7. CASE Term!CloseWin
  <2> DEFINE w == [W EXCEPT !.open = FALSE]
  <2>1. W' = w /\ UNCHANGED <<body, asked, strayed>>
    BY <1>7 DEF Term!CloseWin
  <2>2. DOMAIN w = DOMAIN W /\ w.tabs = W.tabs /\ w.open = FALSE /\ w.compare = W.compare /\ w.active = W.active
    BY <1>0 DEF WorkFields
  <2> HIDE DEF w
  <2>3. WorkOk(w)
    BY <1>0, <2>2, WorkLike
  <2>4. QED
    BY <1>0, <2>1, <2>2, <2>3, TermLike
<1>8. ASSUME NEW t, Term!SetNewsTab(t) PROVE TermInv'
  <2> DEFINE w == [W EXCEPT !.newsTab = t]
  <2>1. W' = w /\ UNCHANGED <<body, strayed>> /\ \A c \in asked' : c \in asked \/ c = Term!NewsCall
    BY <1>8 DEF Term!SetNewsTab
  <2>2. DOMAIN w = DOMAIN W /\ w.tabs = W.tabs /\ w.open = W.open /\ w.compare = W.compare /\ w.active = W.active
    BY <1>0 DEF WorkFields
  <2> HIDE DEF w
  <2>3. WorkOk(w)
    BY <1>0, <2>2, WorkLike DEF WorkOk, HalfOk
  <2>4. QED
    BY <1>0, <2>1, <2>2, <2>3, TermLike
<1>9. CASE Term!ToggleNews
  <2> DEFINE w == [W EXCEPT !.newsOn = ~@]
  <2>1. W' = w /\ UNCHANGED <<body, strayed>> /\ \A c \in asked' : c \in asked \/ c = Term!NewsCall
    BY <1>9 DEF Term!ToggleNews
  <2>2. DOMAIN w = DOMAIN W /\ w.tabs = W.tabs /\ w.open = W.open /\ w.compare = W.compare /\ w.active = W.active
    BY <1>0 DEF WorkFields
  <2> HIDE DEF w
  <2>3. WorkOk(w)
    BY <1>0, <2>2, WorkLike DEF WorkOk, HalfOk
  <2>4. QED
    BY <1>0, <2>1, <2>2, <2>3, TermLike
<1>10. CASE Term!LoadNews
  <2>1. W' = W /\ UNCHANGED <<body, strayed>> /\ \A c \in asked' : c \in asked \/ c = Term!NewsCall
    BY <1>10 DEF Term!LoadNews
  <2>2. QED
    BY <1>0, <2>1, TermLike
<1>11. QED
  BY <1>1, <1>2, <1>3, <1>4, <1>5, <1>6, <1>7, <1>8, <1>9, <1>10 DEF Term!FrameNext

\* The answers.
LEMMA TermAnswer ==
  ASSUME TermInv, Term!Answer, DOMAIN body' = BodyFields, strayed' \in BOOLEAN,
         \A c \in asked' : AskOk(c) /\ (c \in asked \/ c.kind # "compare" \/ strayed'),
         ~strayed' => (~strayed /\ (Shows(W, body) => Shows(W, body')))
  PROVE  TermInv'
<1>1. UNCHANGED <<history, centre, generating, idxCmd, frame, W, failed>>
  BY DEF Term!Answer, Term!host
<1>2. \A c \in asked' : AskOk(c) /\ (~strayed' => (c.kind = "compare" => c.set = W.compare))
  BY DEF TermInv, BodyInv, SetsAgree
<1>3. BodyInv'
  BY <1>1, <1>2, BodyAnswer DEF TermInv
<1>4. QED
  BY <1>1, <1>3, TrailSame DEF TermInv

LEMMA TermDraws ==
  ASSUME TermInv, NEW c \in asked, c.of \in IndexNames, Term!TerminalAssumptions, Term!Drawn(c), Term!Done(c), Term!Answer
  PROVE  TermInv'
<1>0. c.of # cmp /\ strayed' = strayed /\ asked' = asked \ {c} /\ strayed \in BOOLEAN /\ (\A d \in asked : AskOk(d)) /\ DOMAIN body = BodyFields
  BY DEF Term!TerminalAssumptions, Term!Drawn, Term!Done, TermInv, BodyInv
<1> DEFINE b == Term!Body(c.of, "drawn", "none", {})
<1>1. body' = IF W.active = c.of THEN b ELSE body
  BY DEF Term!Drawn, Term!InPlace
<1>2. DOMAIN b = BodyFields /\ b.tab = c.of
  BY BodyMade
<1> HIDE DEF b
<1>3. DOMAIN body' = BodyFields /\ (Shows(W, body) => Shows(W, body'))
  BY <1>0, <1>1, <1>2 DEF Shows
<1>4. QED
  BY <1>0, <1>3, TermAnswer

LEMMA TermMisses ==
  ASSUME TermInv, NEW c \in asked, Term!NotDrawn(c), Term!Answer
  PROVE  TermInv'
<1>0. strayed' = TRUE /\ asked' = Term!Detached(asked) \ {c} /\ body' = Term!Body(c.of, "message", "none", {}) /\ \A d \in asked : AskOk(d)
  BY DEF Term!NotDrawn, TermInv, BodyInv
<1>1. DOMAIN body' = BodyFields
  BY <1>0, BodyMade
<1>2. \A d \in asked' : AskOk(d)
  BY <1>0, DetachedIs
<1>3. QED
  BY <1>0, <1>1, <1>2, TermAnswer

LEMMA TermAnswers == ASSUME Term!TerminalAssumptions, TermInv, Term!AnswerNext PROVE TermInv'
<1>0. DOMAIN body = BodyFields /\ strayed \in BOOLEAN /\ \A c \in asked : AskOk(c)
  BY DEF TermInv, BodyInv
<1>1. ASSUME NEW c \in asked, NEW ok \in BOOLEAN, Term!ChartArrives(c, ok) PROVE TermInv'
  <2>1. Term!Answer /\ asked' = asked \ {c} /\ strayed' = strayed /\ c.of # cmp
    BY <1>0, <1>1 DEF Term!ChartArrives, Term!Done, AskOk
  <2>2. DOMAIN body' = BodyFields /\ body'.tab = body.tab /\ body'.set = body.set /\ (body' = body \/ W.active = c.of)
    BY <1>0, <1>1 DEF Term!ChartArrives, BodyFields
  <2>3. Shows(W, body) => Shows(W, body')
    BY <2>1, <2>2 DEF Shows
  <2>4. QED
    BY <1>0, <2>1, <2>2, <2>3, TermAnswer
<1>2. ASSUME NEW c \in asked, NEW ok \in BOOLEAN, Term!FundArrives(c, ok) PROVE TermInv'
  <2>1. Term!Answer /\ asked' = asked \ {c} /\ strayed' = strayed
    BY <1>2 DEF Term!FundArrives, Term!Done
  <2>2. DOMAIN body' = BodyFields /\ body'.tab = body.tab /\ body'.set = body.set /\ body'.main = body.main
    BY <1>0, <1>2 DEF Term!FundArrives, BodyFields
  <2>3. Shows(W, body) => Shows(W, body')
    BY <2>2 DEF Shows
  <2>4. QED
    BY <1>0, <2>1, <2>2, <2>3, TermAnswer
<1>3. ASSUME NEW c \in asked, Term!CompareArrives(c) PROVE TermInv'
  <2> DEFINE b == Term!Body(cmp, "drawn", "none", c.set)
  <2>1. Term!Answer /\ asked' = asked \ {c} /\ strayed' = strayed /\ c.kind = "compare"
    BY <1>3 DEF Term!CompareArrives, Term!Done
  <2>2. body' = IF W.active = cmp THEN b ELSE body
    BY <1>3 DEF Term!CompareArrives
  <2>3. DOMAIN b = BodyFields /\ b.tab = cmp /\ b.set = c.set
    BY BodyMade
  <2> HIDE DEF b
  <2>4. ~strayed => c.set = W.compare
    BY <2>1 DEF TermInv, BodyInv, SetsAgree
  <2>5. DOMAIN body' = BodyFields /\ (~strayed => (Shows(W, body) => Shows(W, body')))
    BY <1>0, <2>2, <2>3, <2>4 DEF Shows
  <2>6. QED
    BY <1>0, <2>1, <2>5, TermAnswer
<1>4. ASSUME NEW c \in asked, c.kind \in {"index", "caps"}, NEW d, DOMAIN d = CallFields, d.kind = "caps", d.of = c.of,
             asked' = (asked \ {c}) \cup {d}, UNCHANGED <<body, strayed>>, Term!Answer
      PROVE  TermInv'
  <2>1. AskOk(d)
    BY <1>0, <1>4 DEF AskOk
  <2>2. QED
    BY <1>0, <1>4, <2>1, TermAnswer
<1>5. ASSUME NEW c \in asked, NEW ok \in BOOLEAN, Term!IndexArrives(c, ok) PROVE TermInv'
  <2>1. Term!Answer /\ c.of \in IndexNames /\ c.kind = "index"
    BY <1>0, <1>5 DEF Term!IndexArrives, AskOk
  <2> DEFINE d == Term!Call("caps", c.of, {}, 0)
  <2>2. DOMAIN d = CallFields /\ d.kind = "caps" /\ d.of = c.of
    BY CallMade
  <2>3. \/ Term!Drawn(c) /\ Term!Done(c)
        \/ asked' = (asked \ {c}) \cup {d} /\ UNCHANGED <<body, strayed>>
        \/ Term!NotDrawn(c)
    BY <1>5 DEF Term!IndexArrives
  <2> HIDE DEF d
  <2>4. QED
    BY <1>4, <2>1, <2>2, <2>3, TermDraws, TermMisses
<1>6. ASSUME NEW c \in asked, Term!CapsArrive(c) PROVE TermInv'
  <2>1. Term!Answer /\ c.of \in IndexNames /\ c.kind = "caps" /\ DOMAIN c = CallFields
    BY <1>0, <1>6 DEF Term!CapsArrive, AskOk
  <2> DEFINE d == [c EXCEPT !.round = @ + 1]
  <2>2. DOMAIN d = CallFields /\ d.kind = "caps" /\ d.of = c.of
    BY <2>1 DEF CallFields
  <2>3. \/ Term!Drawn(c) /\ Term!Done(c)
        \/ asked' = (asked \ {c}) \cup {d} /\ UNCHANGED <<body, strayed>>
        \/ Term!NotDrawn(c)
    BY <1>6 DEF Term!CapsArrive
  <2> HIDE DEF d
  <2>4. QED
    BY <1>4, <2>1, <2>2, <2>3, TermDraws, TermMisses
<1>7. ASSUME NEW c \in asked, NEW ok, Term!NewsArrives(c, ok) PROVE TermInv'
  <2>1. Term!Answer /\ asked' = asked \ {c} /\ UNCHANGED <<body, strayed>>
    BY <1>7 DEF Term!NewsArrives, Term!Done
  <2>2. QED
    BY <1>0, <2>1, TermAnswer
<1>8. QED
  BY <1>1, <1>2, <1>3, <1>5, <1>6, <1>7 DEF Term!AnswerNext

LEMMA TermStep == ASSUME Term!TerminalAssumptions, TermInv, Term!Next PROVE TermInv'
BY TermHost, TermFrame, TermAnswers DEF Term!Next

LEMMA TermUnchanged == ASSUME TermInv, UNCHANGED terminal PROVE TermInv'
<1>1. idxCmd' \in IndexNames \cup {none}
  BY DEF terminal, TermInv, BodyInv, PlacesOk
<1>2. QED
  BY <1>1, TermIdle DEF terminal

LEMMA TermInit == ASSUME Term!Init PROVE TermInv
<1>1. WorkOk(W)
  <2>1. W.tabs = <<>> /\ W.open = FALSE /\ W.active = none /\ W.compare = {} /\ DOMAIN W = WorkFields
    BY DEF Term!Init, Term!NewWorkspace, WorkFields
  <2>2. TabsOk(W.tabs) /\ ~Term!Has(W.tabs, cmp)
    BY <2>1 DEF TabsOk, Term!Has
  <2>3. QED
    BY <2>1, <2>2 DEF WorkOk, HalfOk
<1>2. DOMAIN body = BodyFields
  BY BodyMade DEF Term!Init, Term!NoBody
<1>3. PlacesOk
  BY DEF Term!Init, PlacesOk
<1>4. TrailInv
  <2>1. history = <<>> /\ <<>> \in Seq(Firms) /\ failed = FALSE
    BY EmptySeq DEF Term!Init
  <2>2. \A x : Moves(<<>>, x)
    BY DEF Moves
  <2>3. QED
    BY <2>1, <2>2 DEF TrailInv
<1>5. BodyInv
  <2>1. asked = {} /\ strayed = FALSE /\ frame = FALSE
    BY DEF Term!Init
  <2>2. QED
    BY <1>1, <1>2, <1>3, <2>1 DEF BodyInv, SetsAgree
<1>6. QED
  BY <1>4, <1>5 DEF TermInv

LEMMA TermSound == ASSUME Term!TerminalAssumptions PROVE TermInv => Term!Workspace /\ Term!BodyIsActiveTab /\ Term!TrailMovesOn
<1> SUFFICES ASSUME TermInv PROVE Term!Workspace /\ Term!BodyIsActiveTab /\ Term!TrailMovesOn
  OBVIOUS
<1>1. Term!Workspace
  <2>0. WorkOk(W)
    BY DEF TermInv, BodyInv
  <2>1. (W.active = none) = (W.tabs = <<>>)
    BY <2>0 DEF WorkOk, HalfOk
  <2>2. Term!Has(W.tabs, cmp) = (W.compare # {})
    <3>1. Term!Has(W.tabs, cmp) \in BOOLEAN
      BY DEF Term!Has
    <3>2. QED
      BY <2>0, <3>1 DEF WorkOk
  <2>3. (W.open => W.tabs # <<>>) /\ (W.active # none => Term!Has(W.tabs, W.active)) /\ \A p, q \in DOMAIN W.tabs : W.tabs[p] = W.tabs[q] => p = q
    BY <2>0 DEF WorkOk, HalfOk, TabsOk
  <2>4. QED
    BY <2>1, <2>2, <2>3 DEF Term!Workspace
<1>2. Term!BodyIsActiveTab
  BY DEF TermInv, BodyInv, Shows, Term!BodyIsActiveTab
<1>3. Term!TrailMovesOn
  <2>1. CASE failed
    BY <2>1 DEF Term!TrailMovesOn
  <2>2. CASE ~failed /\ (generating # none \/ centre = none)
    BY <2>2 DEF Term!TrailMovesOn, TermInv, TrailInv, Moves
  <2>3. CASE ~failed /\ generating = none /\ centre # none
    <3>1. centre \in Firms /\ history \in Seq(Firms) /\ Moves(history, centre)
      BY <2>3 DEF TermInv, TrailInv, BodyInv, PlacesOk
    <3>2. Moves(Append(history, centre), none)
      BY <3>1, FirmsNamed, TrailMore
    <3>3. QED
      BY <2>3, <3>2 DEF Term!TrailMovesOn, Moves
  <2>4. QED
    BY <2>1, <2>2, <2>3 DEF TermInv, TrailInv
<1>4. QED
  BY <1>1, <1>2, <1>3

LEMMA TermAlways == BooksSpec => []TermInv
<1>0. Term!TerminalAssumptions
  BY BooksAssumptions
<1>1. BooksInit => TermInv
  BY TermInit DEF BooksInit
<1>2. TermInv /\ [BooksNext]_booksVars => TermInv'
  BY <1>0, TermStep, TermUnchanged DEF BooksNext, booksVars
<1>3. QED
  BY <1>1, <1>2, PTL DEF BooksSpec

-------------------------------------------------------------------------------
\* The pages.  What is on show is where the last intent leads and what it asks for; the browser is
\* as deep as the stack, and one step back at a time does not leave it.
NavFields == {"stack", "pos", "last", "pending", "page", "inner", "tab", "shown", "left", "wandered", "forward", "twice", "kept"}
Tabbed == Pages!Takes \cap (Pages!DeskTabs \cup Pages!ScreensTabs \cup Pages!ScreenerTabs)
NavShape(u) == DOMAIN u = NavFields /\ DOMAIN u.tab = {"screens", "desk"}
Asks == Intents \cup {Pages!Home}
Kin(u, v) == /\ v.stack = u.stack /\ v.pos = u.pos /\ v.last = u.last /\ v.left = u.left /\ v.forward = u.forward /\ v.twice = u.twice
AtTop(u, t) ==
  /\ u.page = Pages!MapTarget(t.page, t.sub) /\ (t.sub \in Tabbed => Pages!Mounted(u) = t.sub)
  /\ ~u.kept /\ t.sym # 0 /\ Pages!Mounted(u) \in Pages!Takes /\ t.sub = Pages!Mounted(u) => u.shown = t.sym
NavDepth(u, C) ==
  /\ u.pos \in Nat /\ u.last \in Nat /\ (~u.forward => Len(u.stack) = u.pos + 1) /\ (u.left => u.twice \/ u.forward)
  /\ ~u.twice /\ ~u.forward => \A c \in C : C = {c} /\ u.pos > 0
NavInv ==
  /\ NavShape(ui) /\ ui.stack \in Seq(Asks) /\ ui.stack # <<>> /\ {ui.left, ui.wandered, ui.forward, ui.twice, ui.kept} \subseteq BOOLEAN
  /\ NavDepth(ui, calls) /\ (~ui.wandered /\ ~ui.left => AtTop(ui, Pages!Top(ui)))

\* A symbol taken changes nothing else.
LEMMA NavTakes ==
  ASSUME NEW u, NavShape(u), NEW v, v = Pages!TakeSymbol(u)
  PROVE  /\ NavShape(v) /\ Kin(u, v) /\ v.page = u.page /\ v.tab = u.tab /\ v.inner = u.inner /\ v.wandered = u.wandered /\ v.kept = u.kept
         /\ Pages!Mounted(v) = Pages!Mounted(u)
         /\ Pages!Mounted(u) \in Pages!Takes /\ u.pending.sub = Pages!Mounted(u) /\ u.pending.sym # 0 => v.shown = u.pending.sym
<1>1. /\ DOMAIN v = NavFields /\ Kin(u, v) /\ v.page = u.page /\ v.tab = u.tab /\ v.inner = u.inner /\ v.wandered = u.wandered /\ v.kept = u.kept
      /\ Pages!Mounted(u) \in Pages!Takes /\ u.pending.sub = Pages!Mounted(u) /\ u.pending.sym # 0 => v.shown = u.pending.sym
  <2>1. CASE Pages!Mounted(u) \in Pages!Takes /\ u.pending.sub = Pages!Mounted(u) /\ u.pending.sym # 0
    BY <2>1 DEF Pages!TakeSymbol, NavShape, NavFields, Kin
  <2>2. CASE ~(Pages!Mounted(u) \in Pages!Takes /\ u.pending.sub = Pages!Mounted(u) /\ u.pending.sym # 0)
    BY <2>2 DEF Pages!TakeSymbol, NavShape, NavFields, Kin
  <2>3. QED
    BY <2>1, <2>2
<1>2. Pages!Mounted(v) = Pages!Mounted(u)
  BY <1>1 DEF Pages!Mounted
<1>3. QED
  BY <1>1, <1>2 DEF NavShape

\* Where an intent leads, and what it finds there.
LEMMA NavArrives ==
  ASSUME NEW u, NavShape(u), NEW t, Pages!Lands(t), NEW w, w = Pages!Arrived(u, t)
  PROVE  NavShape(w) /\ Kin(u, w) /\ w.wandered = FALSE /\ w.kept \in BOOLEAN /\ AtTop(w, t)
<1> DEFINE page == Pages!MapTarget(t.page, t.sub)
           tab == Pages!Resolve(page, t.sub)
           here == tab \in Pages!TabsOf(page)
           tabs == IF here THEN [u.tab EXCEPT ![page] = tab] ELSE u.tab
           hub == page = "screens" /\ tabs["screens"] = "screener"
           stays == u.page = "screens" /\ u.tab["screens"] = "screener"
           inner == IF ~hub THEN u.inner ELSE IF Pages!Pick(t.sub) \in Pages!ScreenerTabs THEN Pages!Pick(t.sub) ELSE IF stays THEN u.inner ELSE "custom"
           v == [u EXCEPT !.pending = t, !.page = page, !.tab = tabs, !.inner = inner, !.wandered = FALSE, !.kept = FALSE]
           mounts == Pages!Mounted(v) # Pages!Mounted(u) \/ page # u.page
           x == [v EXCEPT !.shown = 0]
           y == [v EXCEPT !.kept = t.sym # 0]
<1>1. w = IF mounts THEN Pages!TakeSymbol(x) ELSE IF Pages!Mounted(v) \in Pages!Listens THEN Pages!TakeSymbol(v) ELSE y
  BY DEF Pages!Arrived
<1>2. DOMAIN tabs = {"screens", "desk"}
  BY DEF NavShape
<1>3. t.sub \in Tabbed => here
  BY DEF Pages!Lands, Tabbed
<1>4. page \in {"screens", "desk"} /\ here => tabs[page] = tab
  BY DEF NavShape
<1>5. here => page \in {"screens", "desk"}
  BY DEF Pages!TabsOf
<1>6. here /\ page = "screens" => tab \in Pages!ScreensTabs
  BY DEF Pages!TabsOf
<1>7. here /\ page = "desk" => tab \in Pages!DeskTabs
  BY DEF Pages!TabsOf
<1>8. tab = IF page = "screens" /\ t.sub \in {"mb", "momentum"} THEN "screener" ELSE t.sub
  BY DEF Pages!Resolve
<1>9. Pages!Pick(t.sub) = IF t.sub = "screener" THEN "custom" ELSE t.sub
  BY DEF Pages!Pick
<1> HIDE DEF page, tab, here, tabs
<1>10. /\ NavShape(v) /\ Kin(u, v) /\ v.pending = t /\ v.page = page /\ v.tab = tabs /\ v.inner = inner /\ v.wandered = FALSE /\ v.kept = FALSE
  BY <1>2 DEF NavShape, NavFields, Kin
<1>11. t.sub \in Tabbed => Pages!Mounted(v) = t.sub
  <2> SUFFICES ASSUME t.sub \in Tabbed PROVE Pages!Mounted(v) = t.sub
    OBVIOUS
  <2>0. t.sub \in {"mb", "momentum", "patterns", "inst"}
    BY DEF Tabbed, Pages!Takes, Pages!DeskTabs, Pages!ScreensTabs, Pages!ScreenerTabs
  <2>1. CASE page = "screens"
    <3>1. tab \in Pages!ScreensTabs /\ tabs["screens"] = tab
      BY <1>3, <1>4, <1>6, <2>1
    <3>2. CASE t.sub \in {"mb", "momentum"}
      <4>1. tab = "screener" /\ Pages!Pick(t.sub) = t.sub /\ t.sub \in Pages!ScreenerTabs
        BY <1>8, <1>9, <2>1, <3>2 DEF Pages!ScreenerTabs
      <4>2. inner = t.sub
        BY <2>1, <3>1, <4>1
      <4> HIDE DEF inner, v
      <4>3. QED
        BY <1>10, <2>1, <3>1, <4>1, <4>2 DEF Pages!Mounted
    <3>3. CASE t.sub \notin {"mb", "momentum"}
      <4>1. tab = t.sub /\ t.sub = "patterns"
        BY <1>8, <2>0, <3>1, <3>3 DEF Pages!ScreensTabs
      <4> HIDE DEF inner, v
      <4>2. QED
        BY <1>10, <2>1, <3>1, <4>1 DEF Pages!Mounted
    <3>4. QED
      BY <3>2, <3>3
  <2>2. CASE page = "desk"
    <3>1. tab = t.sub /\ tabs["desk"] = tab
      BY <1>3, <1>4, <1>8, <2>2
    <3> HIDE DEF inner, v
    <3>2. QED
      BY <1>10, <2>2, <3>1 DEF Pages!Mounted
  <2>3. QED
    BY <1>3, <1>5, <2>1, <2>2
<1> HIDE DEF inner
<1>12. /\ NavShape(x) /\ Kin(u, x) /\ x.pending = t /\ x.page = page /\ x.tab = tabs /\ x.inner = inner /\ x.wandered = FALSE /\ x.kept = FALSE
       /\ Pages!Mounted(x) = Pages!Mounted(v)
  <2> HIDE DEF v
  <2>1. /\ NavShape(x) /\ Kin(u, x) /\ x.pending = t /\ x.page = page /\ x.tab = tabs /\ x.inner = inner /\ x.wandered = FALSE /\ x.kept = FALSE
    BY <1>10 DEF NavShape, NavFields, Kin
  <2>2. QED
    BY <1>10, <2>1 DEF Pages!Mounted
<1>13. /\ NavShape(y) /\ Kin(u, y) /\ y.page = page /\ y.tab = tabs /\ y.inner = inner /\ y.wandered = FALSE /\ y.kept = (t.sym # 0)
       /\ Pages!Mounted(y) = Pages!Mounted(v)
  <2> HIDE DEF v
  <2>1. /\ NavShape(y) /\ Kin(u, y) /\ y.page = page /\ y.tab = tabs /\ y.inner = inner /\ y.wandered = FALSE /\ y.kept = (t.sym # 0)
    BY <1>10 DEF NavShape, NavFields, Kin
  <2>2. QED
    BY <1>10, <2>1 DEF Pages!Mounted
<1> HIDE DEF v, x, y, mounts
<1>p. Pages!MapTarget(t.page, t.sub) = page
  BY DEF page
<1>14. ASSUME NEW z, z \in {v, x}, w = Pages!TakeSymbol(z) PROVE NavShape(w) /\ Kin(u, w) /\ w.wandered = FALSE /\ w.kept \in BOOLEAN /\ AtTop(w, t)
  <2>1. NavShape(z) /\ Kin(u, z) /\ z.pending = t /\ z.page = page /\ z.wandered = FALSE /\ z.kept = FALSE /\ Pages!Mounted(z) = Pages!Mounted(v)
    BY <1>10, <1>12, <1>14
  <2>2. /\ NavShape(w) /\ Kin(z, w) /\ w.page = z.page /\ w.wandered = z.wandered /\ w.kept = z.kept
        /\ Pages!Mounted(w) = Pages!Mounted(z)
        /\ Pages!Mounted(z) \in Pages!Takes /\ z.pending.sub = Pages!Mounted(z) /\ z.pending.sym # 0 => w.shown = z.pending.sym
    BY <1>14, <2>1, NavTakes
  <2>3. Kin(u, w)
    BY <2>1, <2>2 DEF Kin
  <2>4. AtTop(w, t)
    BY <1>11, <1>p, <2>1, <2>2 DEF AtTop
  <2>5. QED
    BY <2>1, <2>2, <2>3, <2>4
<1>15. CASE w = y
  <2>1. AtTop(w, t)
    BY <1>11, <1>13, <1>15, <1>p DEF AtTop
  <2>2. QED
    BY <1>13, <1>15, <2>1
<1>16. QED
  BY <1>1, <1>14, <1>15

\* Home and the intents of the buttons land.
LEMMA NavLands == ASSUME Pages!NavigationAssumptions PROVE \A t \in Asks : Pages!Lands(t)
<1>1. Pages!Lands(Pages!Home)
  BY DEF Pages!Lands, Pages!Home, Pages!Takes
<1>2. QED
  BY <1>1 DEF Pages!NavigationAssumptions, Asks

\* An intent on top of the stack is replayed.
LEMMA NavReplay ==
  ASSUME Pages!NavigationAssumptions, NEW u, NavShape(u), u.stack \in Seq(Asks), u.stack # <<>>,
         {u.left, u.forward, u.twice} \subseteq BOOLEAN, NEW t \in Asks, t = Pages!Top(u), ui' = Pages!Arrived(u, t), NavDepth(u, calls')
  PROVE  NavInv'
<1>1. NavShape(ui') /\ Kin(u, ui') /\ ui'.wandered = FALSE /\ ui'.kept \in BOOLEAN /\ AtTop(ui', t)
  <2>1. Pages!Lands(t)
    BY NavLands
  <2> DEFINE w == Pages!Arrived(u, t)
  <2>2. NavShape(w) /\ Kin(u, w) /\ w.wandered = FALSE /\ w.kept \in BOOLEAN /\ AtTop(w, t)
    BY <2>1, NavArrives
  <2> HIDE DEF w
  <2>3. ui' = w
    BY DEF w
  <2>4. QED
    BY <2>2, <2>3
<1>2. ui'.stack \in Seq(Asks) /\ ui'.stack # <<>> /\ {ui'.left, ui'.wandered, ui'.forward, ui'.twice, ui'.kept} \subseteq BOOLEAN
  BY <1>1 DEF Kin
<1>3. NavDepth(ui', calls')
  BY <1>1 DEF NavDepth, Kin
<1>4. AtTop(ui', Pages!Top(ui'))
  BY <1>1 DEF Kin, Pages!Top
<1>5. QED
  BY <1>1, <1>2, <1>3, <1>4 DEF NavInv, NavShape, NavDepth, AtTop, Pages!Top, Pages!Mounted

LEMMA NavTopIs == ASSUME NEW u, u.stack \in Seq(Asks), u.stack # <<>> PROVE Pages!Top(u) \in Asks
<1>1. Len(u.stack) \in Nat /\ Len(u.stack) # 0
  BY LenProperties, EmptySeq
<1>2. QED
  BY <1>1, ElementOfSeq DEF Pages!Top

LEMMA NavGo == ASSUME Pages!NavigationAssumptions, NavInv, NEW t \in Intents, Pages!Navigate(t) PROVE NavInv'
<1>0. /\ NavShape(ui) /\ ui.stack \in Seq(Asks) /\ ui.stack # <<>> /\ {ui.left, ui.wandered, ui.forward, ui.twice, ui.kept} \subseteq BOOLEAN
      /\ NavDepth(ui, calls) /\ t \in Asks /\ calls' = calls
  BY DEF NavInv, Asks, Pages!Navigate
<1>1. CASE Pages!SameIntent(Pages!Top(ui), t)
  <2> DEFINE top == Pages!Top(ui)
  <2>1. top \in Asks
    BY <1>0, NavTopIs
  <2>2. top.page = t.page /\ top.sub = t.sub /\ top.sym = t.sym
    BY <1>1 DEF Pages!SameIntent
  <2> DEFINE w == Pages!Arrived(ui, t)
  <2>3. ui' = w /\ Pages!Lands(t)
    BY <1>0, <1>1, NavLands DEF Pages!Navigate
  <2>4. NavShape(w) /\ Kin(ui, w) /\ w.wandered = FALSE /\ w.kept \in BOOLEAN /\ AtTop(w, t)
    BY <1>0, <2>3, NavArrives
  <2> HIDE DEF w, top
  <2>5. AtTop(w, top)
    BY <2>2, <2>4 DEF AtTop
  <2>6. NavShape(ui') /\ Kin(ui, ui') /\ ui'.wandered = FALSE /\ ui'.kept \in BOOLEAN /\ AtTop(ui', top)
    BY <2>3, <2>4, <2>5
  <2>7. ui'.stack \in Seq(Asks) /\ ui'.stack # <<>> /\ NavDepth(ui', calls') /\ AtTop(ui', Pages!Top(ui'))
    BY <1>0, <2>6 DEF Kin, NavDepth, Pages!Top, top
  <2>8. {ui'.left, ui'.wandered, ui'.forward, ui'.twice, ui'.kept} \subseteq BOOLEAN
    BY <1>0, <2>6 DEF Kin
  <2>9. QED
    BY <2>6, <2>7, <2>8 DEF NavInv, NavShape, NavDepth, AtTop, Pages!Top, Pages!Mounted
<1>2. CASE ~Pages!SameIntent(Pages!Top(ui), t)
  <2> DEFINE u == [ui EXCEPT !.stack = Append(@, t), !.pos = @ + 1, !.last = ui.pos + 1]
  <2>1. ui' = Pages!Arrived(u, t)
    BY <1>2 DEF Pages!Navigate
  <2>2. /\ DOMAIN u = DOMAIN ui /\ u.tab = ui.tab /\ u.stack = Append(ui.stack, t) /\ u.pos = ui.pos + 1 /\ u.last = ui.pos + 1
        /\ u.left = ui.left /\ u.forward = ui.forward /\ u.twice = ui.twice
    BY <1>0 DEF NavShape, NavFields
  <2> HIDE DEF u
  <2>3. u.stack \in Seq(Asks) /\ Len(u.stack) = Len(ui.stack) + 1 /\ u.stack[Len(ui.stack) + 1] = t /\ Len(ui.stack) \in Nat
    BY <1>0, <2>2, AppendProperties, LenProperties
  <2>4. u.stack # <<>> /\ t = Pages!Top(u)
    BY <2>3, EmptySeq DEF Pages!Top
  <2>5. NavShape(u) /\ NavDepth(u, calls')
    BY <1>0, <2>2, <2>3 DEF NavShape, NavDepth
  <2>6. {u.left, u.forward, u.twice} \subseteq BOOLEAN
    BY <1>0, <2>2
  <2>7. QED
    BY <1>0, <2>1, <2>3, <2>4, <2>5, <2>6, NavReplay
<1>3. QED
  BY <1>1, <1>2

\* The stack without its last intent, and what is then replayed.
LEMMA NavFront ==
  ASSUME NEW s \in Seq(Asks), s # <<>>
  PROVE  LET g == Pages!Popped(s) IN g \in Seq(Asks) /\ g # <<>> /\ (Len(s) > 1 => Len(g) = Len(s) - 1)
<1> DEFINE n == Len(s) - 1
           g == SubSeq(s, 1, n)
<1>1. Len(s) \in Nat /\ Len(s) # 0 /\ n \in Nat /\ Len(s) = n + 1
  BY LenProperties, EmptySeq
<1>2. Pages!Popped(s) = IF Len(s) > 1 THEN g ELSE s
  BY DEF Pages!Popped
<1> HIDE DEF n
<1>3. \A q \in 1..n : s[q] \in Asks
  BY <1>1, ElementOfSeq
<1>4. /\ SubSeq(s, 1, n) \in Seq(Asks)
      /\ Len(SubSeq(s, 1, n)) = (IF 1 <= n THEN n - 1 + 1 ELSE 0)
  <2>1. 1 \in Int /\ n \in Int
    BY <1>1
  <2>2. QED
    BY <1>3, <2>1, SubSeqProperties
<1>5. g \in Seq(Asks) /\ Len(g) = (IF 1 <= n THEN n - 1 + 1 ELSE 0)
  BY <1>4
<1> HIDE DEF g
<1>6. CASE Len(s) > 1
  <2>1. Len(g) = n /\ n # 0
    BY <1>1, <1>5, <1>6
  <2>2. g # <<>>
    BY <2>1, EmptySeq
  <2>3. QED
    BY <1>1, <1>2, <1>5, <1>6, <2>1, <2>2
<1>7. CASE ~(Len(s) > 1)
  BY <1>2, <1>7
<1>8. QED
  BY <1>6, <1>7

\* The browser moved one entry back, or anywhere once the user went forward.
LEMMA NavPop ==
  ASSUME Pages!NavigationAssumptions, NEW u, NavShape(u), u.stack \in Seq(Asks), u.stack # <<>>,
         {u.left, u.forward, u.twice} \subseteq BOOLEAN, u.pos \in Nat, u.last \in Nat, ~u.forward => Len(u.stack) = u.pos + 2,
         u.left => u.twice \/ u.forward, ~u.twice /\ ~u.forward => calls' = {}, ui' = Pages!PopState(u)
  PROVE  NavInv'
<1> DEFINE g == Pages!Popped(u.stack)
           v == [u EXCEPT !.stack = Pages!Popped(@)]
           t == Pages!Top(v)
<1>1. ui' = Pages!Arrived(v, t)
  BY DEF Pages!PopState
<1>2. g \in Seq(Asks) /\ g # <<>> /\ (Len(u.stack) > 1 => Len(g) = Len(u.stack) - 1)
  BY NavFront
<1>3. /\ DOMAIN v = DOMAIN u /\ v.tab = u.tab /\ v.stack = g /\ v.pos = u.pos /\ v.last = u.last
      /\ v.left = u.left /\ v.forward = u.forward /\ v.twice = u.twice
  BY DEF NavShape, NavFields
<1>4. t = Pages!Top(v)
  OBVIOUS
<1> HIDE DEF g, v, t
<1>5. t \in Asks
  BY <1>2, <1>3, <1>4, NavTopIs
<1>6. NavShape(v)
  BY <1>3 DEF NavShape
<1>7. NavDepth(v, calls')
  <2>1. ~v.forward => Len(v.stack) = v.pos + 1
    <3> SUFFICES ASSUME ~u.forward PROVE Len(g) = u.pos + 1
      BY <1>3
    <3>1. Len(u.stack) = u.pos + 2
      OBVIOUS
    <3>2. QED
      BY <1>2, <3>1
  <2>2. v.pos \in Nat /\ v.last \in Nat /\ (v.left => v.twice \/ v.forward)
    BY <1>3
  <2>3. ~v.twice /\ ~v.forward => calls' = {}
    BY <1>3
  <2>4. QED
    BY <2>1, <2>2, <2>3 DEF NavDepth
<1>8. v.stack \in Seq(Asks) /\ v.stack # <<>> /\ {v.left, v.forward, v.twice} \subseteq BOOLEAN
  BY <1>2, <1>3
<1>9. QED
  BY <1>1, <1>4, <1>5, <1>6, <1>7, <1>8, NavReplay

LEMMA NavBack == ASSUME Pages!NavigationAssumptions, NavInv, NEW c \in calls, Pages!HistoryMoves(c) PROVE NavInv'
<1>0. /\ NavShape(ui) /\ ui.stack \in Seq(Asks) /\ ui.stack # <<>> /\ {ui.left, ui.wandered, ui.forward, ui.twice, ui.kept} \subseteq BOOLEAN
      /\ NavDepth(ui, calls) /\ calls' = calls \ {c} /\ ui' = Pages!Backwards(ui)
  BY DEF NavInv, Pages!HistoryMoves
<1>d. /\ ui.pos \in Nat /\ ui.last \in Nat /\ (~ui.forward => Len(ui.stack) = ui.pos + 1) /\ (ui.left => ui.twice \/ ui.forward)
      /\ (~ui.twice /\ ~ui.forward => calls = {c} /\ ui.pos > 0)
  BY <1>0 DEF NavDepth
<1>1. CASE ui.pos = 0
  <2>1. ui' = [ui EXCEPT !.left = TRUE]
    BY <1>0, <1>1 DEF Pages!Backwards
  <2>2. /\ DOMAIN ui' = DOMAIN ui /\ ui'.tab = ui.tab /\ ui'.stack = ui.stack /\ ui'.pos = ui.pos /\ ui'.last = ui.last /\ ui'.left = TRUE
        /\ ui'.forward = ui.forward /\ ui'.twice = ui.twice /\ ui'.wandered = ui.wandered /\ ui'.kept = ui.kept
    BY <1>0, <2>1 DEF NavShape, NavFields
  <2>3. ui.twice \/ ui.forward
    BY <1>1, <1>d
  <2>4. NavShape(ui')
    BY <1>0, <2>2 DEF NavShape
  <2>5. NavDepth(ui', calls')
    BY <1>d, <2>2, <2>3 DEF NavDepth
  <2>6. QED
    BY <1>0, <2>2, <2>4, <2>5 DEF NavInv, NavShape, NavDepth
<1>2. CASE ui.pos # 0
  <2> DEFINE u == [ui EXCEPT !.pos = @ - 1]
  <2>1. ui' = Pages!PopState(u)
    BY <1>0, <1>2 DEF Pages!Backwards
  <2>2. /\ DOMAIN u = DOMAIN ui /\ u.tab = ui.tab /\ u.stack = ui.stack /\ u.pos = ui.pos - 1 /\ u.last = ui.last /\ u.left = ui.left
        /\ u.forward = ui.forward /\ u.twice = ui.twice
    BY <1>0 DEF NavShape, NavFields
  <2> HIDE DEF u
  <2>3. NavShape(u)
    BY <1>0, <2>2 DEF NavShape
  <2>4. u.pos \in Nat /\ u.last \in Nat /\ (~u.forward => Len(u.stack) = u.pos + 2)
    BY <1>2, <1>d, <2>2
  <2>5. (u.left => u.twice \/ u.forward) /\ (~u.twice /\ ~u.forward => calls' = {})
    BY <1>0, <1>d, <2>2
  <2>6. u.stack \in Seq(Asks) /\ u.stack # <<>> /\ {u.left, u.forward, u.twice} \subseteq BOOLEAN
    BY <1>0, <2>2
  <2>7. QED
    BY <2>1, <2>3, <2>4, <2>5, <2>6, NavPop
<1>3. QED
  BY <1>1, <1>2

LEMMA NavBrowserBack == ASSUME Pages!NavigationAssumptions, NavInv, Pages!BrowserBack PROVE NavInv'
<1> DEFINE x == [ui EXCEPT !.twice = @ \/ calls # {}]
           u == [x EXCEPT !.pos = @ - 1]
<1>0. /\ NavShape(ui) /\ ui.stack \in Seq(Asks) /\ ui.stack # <<>> /\ {ui.left, ui.wandered, ui.forward, ui.twice, ui.kept} \subseteq BOOLEAN
      /\ NavDepth(ui, calls) /\ calls' = calls /\ ui.pos > 0 /\ ui' = Pages!Backwards(x)
  BY DEF NavInv, Pages!BrowserBack
<1>1. /\ DOMAIN x = DOMAIN ui /\ x.tab = ui.tab /\ x.stack = ui.stack /\ x.pos = ui.pos /\ x.last = ui.last /\ x.left = ui.left
      /\ x.forward = ui.forward
  BY <1>0 DEF NavShape, NavFields
<1>2. x.twice = (ui.twice \/ calls # {})
  BY <1>0 DEF NavShape, NavFields
<1> HIDE DEF x
<1>d. /\ ui.pos \in Nat /\ ui.last \in Nat /\ (~ui.forward => Len(ui.stack) = ui.pos + 1) /\ (ui.left => ui.twice \/ ui.forward)
  BY <1>0 DEF NavDepth
<1>3. ui' = Pages!PopState(u)
  BY <1>0, <1>1, <1>d DEF Pages!Backwards
<1>4. /\ DOMAIN u = DOMAIN ui /\ u.tab = ui.tab /\ u.stack = ui.stack /\ u.pos = ui.pos - 1 /\ u.last = ui.last /\ u.left = ui.left
      /\ u.forward = ui.forward /\ u.twice = x.twice
  BY <1>0, <1>1 DEF NavShape, NavFields
<1> HIDE DEF u
<1>5. NavShape(u)
  BY <1>0, <1>4 DEF NavShape
<1>6. u.pos \in Nat /\ u.last \in Nat /\ (~u.forward => Len(u.stack) = u.pos + 2)
  BY <1>0, <1>d, <1>4
<1>7. {u.left, u.forward, u.twice} \subseteq BOOLEAN
  <2>1. x.twice \in BOOLEAN
    BY <1>2
  <2>2. QED
    BY <1>0, <1>4, <2>1
<1>8. (u.left => u.twice \/ u.forward) /\ (~u.twice /\ ~u.forward => calls' = {})
  <2>1. x.twice <=> (ui.twice \/ calls # {})
    BY <1>2
  <2>2. QED
    BY <1>0, <1>d, <1>4, <2>1
<1>9. u.stack \in Seq(Asks) /\ u.stack # <<>>
  BY <1>0, <1>4
<1>10. QED
  BY <1>3, <1>5, <1>6, <1>7, <1>8, <1>9, NavPop

LEMMA NavForward == ASSUME Pages!NavigationAssumptions, NavInv, Pages!BrowserForward PROVE NavInv'
<1> DEFINE u == [ui EXCEPT !.pos = @ + 1, !.forward = TRUE]
<1>0. /\ NavShape(ui) /\ ui.stack \in Seq(Asks) /\ ui.stack # <<>> /\ {ui.left, ui.wandered, ui.forward, ui.twice, ui.kept} \subseteq BOOLEAN
      /\ NavDepth(ui, calls) /\ ui' = Pages!PopState(u)
  BY DEF NavInv, Pages!BrowserForward
<1>1. /\ DOMAIN u = DOMAIN ui /\ u.tab = ui.tab /\ u.stack = ui.stack /\ u.pos = ui.pos + 1 /\ u.last = ui.last /\ u.left = ui.left
      /\ u.forward = TRUE /\ u.twice = ui.twice
  BY <1>0 DEF NavShape, NavFields
<1> HIDE DEF u
<1>2. NavShape(u) /\ u.pos \in Nat /\ u.last \in Nat /\ u.stack \in Seq(Asks) /\ u.stack # <<>> /\ {u.left, u.forward, u.twice} \subseteq BOOLEAN
  <2>1. NavShape(u)
    BY <1>0, <1>1 DEF NavShape
  <2>2. ui.pos \in Nat /\ ui.last \in Nat
    BY <1>0 DEF NavDepth
  <2>3. u.pos \in Nat /\ u.last \in Nat
    BY <1>1, <2>2
  <2>4. u.stack \in Seq(Asks) /\ u.stack # <<>> /\ {u.left, u.forward, u.twice} \subseteq BOOLEAN
    BY <1>0, <1>1
  <2>5. QED
    BY <2>1, <2>3, <2>4
<1>3. (~u.forward => Len(u.stack) = u.pos + 2) /\ (u.left => u.twice \/ u.forward) /\ (~u.twice /\ ~u.forward => calls' = {})
  BY <1>1
<1>4. QED
  BY <1>0, <1>2, <1>3, NavPop

\* The user goes elsewhere without an intent: nothing is asked of what is shown.
LEMMA NavStray ==
  ASSUME NavInv, NEW x, NavShape(x), Kin(ui, x), x.wandered = TRUE, x.kept = ui.kept, ui' = Pages!TakeSymbol(x), calls' = calls
  PROVE  NavInv'
<1> DEFINE v == Pages!TakeSymbol(x)
<1>1. NavShape(v) /\ Kin(x, v) /\ v.wandered = x.wandered /\ v.kept = x.kept
  BY NavTakes
<1> HIDE DEF v
<1>2. ui' = v
  BY DEF v
<1>3. NavShape(ui') /\ Kin(ui, ui') /\ ui'.wandered = TRUE /\ ui'.kept = ui.kept
  BY <1>1, <1>2 DEF Kin
<1>4. ui'.stack \in Seq(Asks) /\ ui'.stack # <<>> /\ {ui'.left, ui'.wandered, ui'.forward, ui'.twice, ui'.kept} \subseteq BOOLEAN
  BY <1>3 DEF Kin, NavInv
<1>5. NavDepth(ui', calls')
  BY <1>3 DEF NavDepth, Kin, NavInv
<1>6. QED
  BY <1>3, <1>4, <1>5 DEF NavInv, NavShape, NavDepth

LEMMA NavTap == ASSUME NavInv, NEW t, Pages!Tap(t) PROVE NavInv'
<1> DEFINE u == IF t \in Pages!TabsOf(ui.page) THEN [ui EXCEPT !.tab[ui.page] = t] ELSE [ui EXCEPT !.inner = t]
           x == [u EXCEPT !.wandered = TRUE, !.shown = 0, !.inner = IF t = "screener" /\ ui.page = "screens" THEN "custom" ELSE @]
<1>0. NavShape(ui) /\ ui' = Pages!TakeSymbol(x) /\ calls' = calls
  BY DEF NavInv, Pages!Tap
<1>1. DOMAIN u = DOMAIN ui /\ DOMAIN u.tab = DOMAIN ui.tab /\ Kin(ui, u) /\ u.kept = ui.kept
  BY <1>0 DEF NavShape, NavFields, Kin
<1> HIDE DEF u
<1>2. DOMAIN x = DOMAIN u /\ x.tab = u.tab /\ Kin(u, x) /\ x.kept = u.kept /\ x.wandered = TRUE
  BY <1>0, <1>1 DEF NavShape, NavFields, Kin
<1> HIDE DEF x
<1>3. NavShape(x) /\ Kin(ui, x) /\ x.kept = ui.kept
  BY <1>0, <1>1, <1>2 DEF NavShape, Kin
<1>4. QED
  BY <1>0, <1>2, <1>3, NavStray

LEMMA NavLegacy == ASSUME NavInv, NEW p, Pages!LegacyNav(p) PROVE NavInv'
<1> DEFINE x == [ui EXCEPT !.page = p, !.wandered = TRUE, !.shown = 0, !.inner = IF p = "screens" THEN "custom" ELSE @]
<1>0. NavShape(ui) /\ ui' = Pages!TakeSymbol(x) /\ calls' = calls
  BY DEF NavInv, Pages!LegacyNav
<1>1. NavShape(x) /\ Kin(ui, x) /\ x.kept = ui.kept /\ x.wandered = TRUE
  BY <1>0 DEF NavShape, NavFields, Kin
<1> HIDE DEF x
<1>2. QED
  BY <1>0, <1>1, NavStray

\* The app's own Back asks the browser, and nothing has moved yet.
LEMMA NavGoBack == ASSUME NavInv, Pages!GoBack PROVE NavInv'
<1> DEFINE call == [kind |-> "back", n |-> steps]
<1>0. /\ NavShape(ui) /\ ui.stack \in Seq(Asks) /\ ui.stack # <<>> /\ {ui.left, ui.wandered, ui.forward, ui.twice, ui.kept} \subseteq BOOLEAN
      /\ NavDepth(ui, calls) /\ calls' = calls \cup {call} /\ ui' = [ui EXCEPT !.twice = @ \/ calls # {}] /\ Len(ui.stack) > 1
      /\ (~ui.wandered /\ ~ui.left => AtTop(ui, Pages!Top(ui)))
  BY DEF NavInv, Pages!GoBack
<1>1. /\ DOMAIN ui' = DOMAIN ui /\ ui'.tab = ui.tab /\ ui'.stack = ui.stack /\ ui'.pos = ui.pos /\ ui'.last = ui.last /\ ui'.left = ui.left
      /\ ui'.forward = ui.forward /\ ui'.wandered = ui.wandered /\ ui'.kept = ui.kept /\ ui'.page = ui.page /\ ui'.inner = ui.inner
      /\ ui'.shown = ui.shown
  BY <1>0 DEF NavShape, NavFields
<1>2. ui'.twice = (ui.twice \/ calls # {})
  BY <1>0 DEF NavShape, NavFields
<1> HIDE DEF call
<1>3. ui'.twice \in BOOLEAN /\ (ui'.twice <=> (ui.twice \/ calls # {}))
  BY <1>2
<1>4. NavShape(ui')
  BY <1>0, <1>1 DEF NavShape
<1>5. NavDepth(ui', calls')
  <2>1. /\ ui.pos \in Nat /\ ui.last \in Nat /\ (~ui.forward => Len(ui.stack) = ui.pos + 1) /\ (ui.left => ui.twice \/ ui.forward)
    BY <1>0 DEF NavDepth
  <2>2. ASSUME ~ui'.twice, ~ui'.forward, NEW c \in calls' PROVE calls' = {c} /\ ui'.pos > 0
    <3>1. calls' = {call}
      BY <1>0, <1>3, <2>2
    <3>2. ui.pos > 0
      BY <1>0, <1>1, <2>1, <2>2
    <3>3. QED
      BY <1>1, <2>2, <3>1, <3>2
  <2>3. ui'.left => ui'.twice \/ ui'.forward
    BY <1>1, <1>3, <2>1
  <2>4. ui'.pos \in Nat /\ ui'.last \in Nat /\ (~ui'.forward => Len(ui'.stack) = ui'.pos + 1)
    BY <1>1, <2>1
  <2>5. QED
    BY <2>2, <2>3, <2>4 DEF NavDepth
<1>6. ui'.stack \in Seq(Asks) /\ ui'.stack # <<>> /\ {ui'.left, ui'.wandered, ui'.forward, ui'.twice, ui'.kept} \subseteq BOOLEAN
  BY <1>0, <1>1, <1>3
<1>7. Pages!Top(ui') = Pages!Top(ui) /\ Pages!Mounted(ui') = Pages!Mounted(ui)
  BY <1>1 DEF Pages!Top, Pages!Mounted
<1>8. ~ui'.wandered /\ ~ui'.left => AtTop(ui', Pages!Top(ui'))
  BY <1>0, <1>1, <1>7 DEF AtTop
<1>9. QED
  BY <1>4, <1>5, <1>6, <1>8 DEF NavInv, NavShape, NavDepth, AtTop, Pages!Top, Pages!Mounted

LEMMA NavStep == ASSUME Pages!NavigationAssumptions, NavInv, Pages!Next PROVE NavInv'
<1>1. \A c \in Pages!Of({"back"}) : c \in calls
  BY DEF Pages!Of
<1>2. QED
  BY <1>1, NavGo, NavGoBack, NavBack, NavBrowserBack, NavForward, NavTap, NavLegacy DEF Pages!Next

LEMMA NavUnchanged == ASSUME NavInv, UNCHANGED client PROVE NavInv'
<1>1. ui' = ui /\ calls' = calls
  BY DEF client
<1>2. QED
  BY <1>1 DEF NavInv, NavShape, NavDepth, AtTop, Pages!Top, Pages!Mounted

LEMMA NavInit == ASSUME Pages!Init PROVE NavInv
<1>1. /\ ui.stack = <<Pages!Home>> /\ ui.pos = 0 /\ ui.last = 0 /\ ui.page = "today" /\ ui.left = FALSE /\ ui.wandered = FALSE
      /\ ui.forward = FALSE /\ ui.twice = FALSE /\ ui.kept = FALSE /\ DOMAIN ui.tab = {"screens", "desk"} /\ DOMAIN ui = NavFields
      /\ calls = {}
  BY DEF Pages!Init, NavFields
<1>2. <<Pages!Home>> \in Seq(Asks) /\ Len(<<Pages!Home>>) = 1 /\ <<Pages!Home>>[1] = Pages!Home /\ <<Pages!Home>> # <<>>
  BY DEF Asks
<1>3. Pages!Top(ui) = Pages!Home
  BY <1>1, <1>2 DEF Pages!Top
<1>4. Pages!Home.sub = "" /\ Pages!Home.sym = 0 /\ Pages!Home.page = "today"
  BY DEF Pages!Home
<1>5. AtTop(ui, Pages!Home)
  BY <1>1, <1>4 DEF AtTop, Pages!MapTarget, Tabbed, Pages!Takes
<1>6. NavDepth(ui, calls)
  BY <1>1, <1>2 DEF NavDepth
<1>7. QED
  BY <1>1, <1>2, <1>3, <1>5, <1>6 DEF NavInv, NavShape

LEMMA NavSound == NavInv => Pages!ShownIsAsked /\ Pages!PlaceIsTop /\ Pages!BackStaysInside
<1> SUFFICES ASSUME NavInv PROVE Pages!ShownIsAsked /\ Pages!PlaceIsTop /\ Pages!BackStaysInside
  OBVIOUS
<1>1. Pages!BackStaysInside
  BY DEF NavInv, NavDepth, Pages!BackStaysInside
<1>2. ~ui.wandered /\ ~ui.left => AtTop(ui, Pages!Top(ui))
  BY DEF NavInv
<1>3. Pages!PlaceIsTop
  BY <1>2 DEF AtTop, Tabbed, Pages!PlaceIsTop
<1>4. Pages!ShownIsAsked
  BY <1>2 DEF AtTop, Pages!ShownIsAsked
<1>5. QED
  BY <1>1, <1>3, <1>4

LEMMA NavAlways == BooksSpec => [](focus = "pages" => NavInv)
<1>0. Pages!NavigationAssumptions
  BY BooksAssumptions
<1>1. BooksInit => (focus = "pages" => NavInv)
  BY NavInit DEF BooksInit
<1>2. (focus = "pages" => NavInv) /\ [BooksNext]_booksVars => (focus = "pages" => NavInv)'
  <2> SUFFICES ASSUME focus = "pages" => NavInv, [BooksNext]_booksVars, focus' = "pages" PROVE NavInv'
    OBVIOUS
  <2>1. focus = "pages"
    BY DEF BooksNext, booksVars
  <2>2. Pages!Next \/ UNCHANGED client
    BY <2>1 DEF BooksNext, booksVars
  <2>3. QED
    BY <1>0, <2>1, <2>2, NavStep, NavUnchanged
<1>3. QED
  BY <1>1, <1>2, PTL DEF BooksSpec
===============================================================================

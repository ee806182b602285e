--------------------------- MODULE CallSiteProofs ---------------------------
(***************************************************************************)
(* Proofs about CallSite for any threads, any VCLs where not said          *)
(* otherwise, and any number of loads.                                     *)
(***************************************************************************)
EXTENDS CallSite, FiniteSetTheorems, TLAPS

(***************************************************************************)
(* The inductive invariant.  A thread that is in a call is at a call site  *)
(* of a loaded VCL.  Once it has stored or seen a regex there, there is    *)
(* one.  What it has compiled itself or uses has not been freed.           *)
(***************************************************************************)
InCall(t) ==
  th[t].pc # "idle" =>
    /\ th[t].site \in Site /\ vcl[th[t].site[1]].loaded
    /\ th[t].pc \in HeaderPc => th[t].site[2] = "header"
    /\ th[t].pc \in BodyPc => th[t].site[2] = "body"

HasPriv(t) == th[t].pc \in {"free", "unlock", "use", "match"} => Priv(t) # NULL

HasRegex(t) ==
  /\ At(t, "store") => th[t].t \in Compiled(th[t].site)
  /\ At(t, "match") => th[t].re \in Compiled(th[t].site)

Sound(t) == InCall(t) /\ HasPriv(t) /\ HasRegex(t)

\* What a call site has, it has compiled since its VCL was loaded.
Held ==
  \A s \in Site : priv[s].priv # NULL => priv[s].priv \in Compiled(s) /\ vcl[s[1]].loaded

Past == \A b \in heap : b.life <= vcl[b.site[1]].life

CallInv ==
  TypeOK /\ IsFiniteSet(heap) /\ Held /\ Past /\ \A t \in Thread : Sound(t)

-----------------------------------------------------------------------------
LEMMA CompiledIs ==
  ASSUME NEW s, NEW b
  PROVE  /\ b \in Compiled(s) <=> b \in heap /\ b.site = s /\ b.life = vcl[s[1]].life
         /\ b \in Compiled(s)' <=> b \in heap' /\ b.site = s /\ b.life = vcl'[s[1]].life
  BY DEF Compiled

LEMMA NewRegex ==
  ASSUME CallInv, NEW s \in Site
  PROVE  /\ New(s) \in Regex /\ New(s) # NULL
         /\ New(s).site = s /\ New(s).life = vcl[s[1]].life
<1>1. IsFiniteSet(Compiled(s))
  BY FS_Subset DEF Compiled, CallInv
<1>2. Cardinality(Compiled(s)) \in Nat
  BY <1>1, FS_CardinalityType
<1>3. vcl[s[1]].life \in Nat
  BY DEF CallInv, TypeOK, VclType, Site
<1> QED
  BY <1>2, <1>3, NullAssumption DEF New, Regex

\* Who holds the mutex is where it has to be released.
MutexOK == mutex \in {t \in Thread : th[t].pc \in Critical} \cup {NULL}

\* One thread moves, and nothing that the others rely on goes away.
LEMMA ThreadMoves ==
  ASSUME CallInv, NEW t \in Thread, vcl' = vcl,
         th' \in [Thread -> ThType], \A q \in Thread : q # t => th'[q] = th[q],
         priv' \in [Site -> PrivType],
         \A s \in Site : priv[s].priv # NULL => priv'[s].priv # NULL,
         heap \subseteq heap', heap' \subseteq Regex, IsFiniteSet(heap'),
         MutexOK', Held', Past', Sound(t)'
  PROVE  CallInv'
<1>1. TypeOK'
  BY DEF CallInv, TypeOK, MutexOK
<1>2. ASSUME NEW q \in Thread, q # t
      PROVE  Sound(q)'
  <2>0. th'[q] = th[q] /\ InCall(q) /\ HasPriv(q) /\ HasRegex(q)
    BY <1>2 DEF CallInv, Sound
  <2>1. InCall(q)'
    BY <2>0 DEF InCall
  <2>2. HasPriv(q)'
    BY <2>0 DEF HasPriv, InCall, Priv
  <2>3. HasRegex(q)'
    BY <2>0 DEF HasRegex, At, Compiled
  <2> QED
    BY <2>1, <2>2, <2>3 DEF Sound
<1> QED
  BY <1>1, <1>2 DEF CallInv

\* The same, where only a thread and the mutex change.
LEMMA ThreadOnly ==
  ASSUME CallInv, NEW t \in Thread, vcl' = vcl, priv' = priv, heap' = heap,
         th' \in [Thread -> ThType], \A q \in Thread : q # t => th'[q] = th[q],
         MutexOK', Sound(t)'
  PROVE  CallInv'
<1>1. /\ Held' /\ Past' /\ heap' \subseteq Regex /\ IsFiniteSet(heap')
      /\ priv' \in [Site -> PrivType]
  BY DEF CallInv, TypeOK, Held, Past, Compiled
<1> QED
  BY <1>1, ThreadMoves

\* What Goto does.
LEMMA GotoIs ==
  ASSUME th \in [Thread -> ThType], NEW t \in Thread, NEW l, Goto(t, l),
         l \in {"idle", "use", "match"} \cup HeaderPc \cup BodyPc
  PROVE  /\ th' \in [Thread -> ThType]
         /\ \A q \in Thread : q # t => th'[q] = th[q]
         /\ th'[t].pc = l /\ th'[t].site = th[t].site /\ th'[t].t = th[t].t
         /\ th'[t].re = th[t].re
  BY DEF Goto, ThType

-----------------------------------------------------------------------------
LEMMA CallStep ==
  ASSUME CallInv, NEW t \in Thread, NEW s \in Site, Call(t, s)
  PROVE  CallInv'
<1>0. th \in [Thread -> ThType] /\ MutexOK
  BY DEF CallInv, TypeOK, MutexOK
<1>1. /\ vcl' = vcl /\ priv' = priv /\ heap' = heap /\ mutex' = mutex
      /\ th[t].pc = "idle" /\ vcl[s[1]].loaded
      /\ th' = [th EXCEPT ![t] = [th[t] EXCEPT
                  !.pc = IF s[2] = "header" THEN "test" ELSE "btest", !.site = s]]
  BY <1>0 DEF Call, At
<1>2. th' \in [Thread -> ThType]
  <2>1. (IF s[2] = "header" THEN "test" ELSE "btest")
          \in {"idle", "use", "match"} \cup HeaderPc \cup BodyPc
    BY DEF HeaderPc, BodyPc
  <2>2. [th[t] EXCEPT !.pc = IF s[2] = "header" THEN "test" ELSE "btest", !.site = s] \in ThType
    <3>1. th[t] \in ThType
      BY <1>0
    <3> QED
      BY <2>1, <3>1 DEF ThType
  <2> QED
    BY <1>0, <1>1, <2>2
<1>3. /\ \A q \in Thread : q # t => th'[q] = th[q]
      /\ th'[t].pc = IF s[2] = "header" THEN "test" ELSE "btest"
      /\ th'[t].site = s
  BY <1>0, <1>1 DEF ThType
<1>4. MutexOK'
  BY <1>0, <1>1, <1>3 DEF MutexOK, Critical
<1>5. Sound(t)'
  BY <1>1, <1>3 DEF Sound, InCall, HasPriv, HasRegex, At, Site, Kind, HeaderPc, BodyPc, Critical
<1> QED
  BY <1>1, <1>2, <1>3, <1>4, <1>5, ThreadOnly

\* The steps that only go on.
LEMMA GoStep ==
  ASSUME CallInv, NEW t \in Thread,
         header_test(t) \/ header_lock(t) \/ header_recheck(t) \/ header_unlock(t) \/ body_test(t)
  PROVE  CallInv'
<1>0. th \in [Thread -> ThType] /\ MutexOK /\ InCall(t) /\ HasPriv(t) /\ HasRegex(t)
  BY DEF CallInv, TypeOK, MutexOK, Sound
<1>1. vcl' = vcl /\ priv' = priv /\ heap' = heap
  BY DEF header_test, header_lock, header_recheck, header_unlock, body_test
<1> DEFINE null == Priv(t) = NULL
<1>2. PICK l \in {"lock", "use", "recheck", "re_init", "unlock", "compile"} :
        /\ Goto(t, l)
        /\ \/ th[t].pc = "test" /\ l = (IF null THEN "lock" ELSE "use") /\ mutex' = mutex
           \/ th[t].pc = "lock" /\ l = "recheck" /\ mutex' = t
           \/ th[t].pc = "recheck" /\ l = (IF null THEN "re_init" ELSE "unlock") /\ mutex' = mutex
           \/ th[t].pc = "unlock" /\ l = "use" /\ mutex' = NULL
           \/ th[t].pc = "btest" /\ l = (IF null THEN "compile" ELSE "use") /\ mutex' = mutex
  BY DEF header_test, header_lock, header_recheck, header_unlock, body_test, At
<1>3. /\ th' \in [Thread -> ThType]
      /\ \A q \in Thread : q # t => th'[q] = th[q]
      /\ th'[t].pc = l /\ th'[t].site = th[t].site
  <2>1. l \in {"idle", "use", "match"} \cup HeaderPc \cup BodyPc
    BY DEF HeaderPc, BodyPc, Critical
  <2> QED
    BY <1>0, <1>2, <2>1, GotoIs
<1>4. MutexOK'
  BY <1>0, <1>2, <1>3 DEF MutexOK, Critical
<1>5. InCall(t)'
  BY <1>0, <1>1, <1>2, <1>3 DEF InCall, HeaderPc, BodyPc, Critical
<1>6. HasPriv(t)'
  BY <1>0, <1>1, <1>2, <1>3 DEF HasPriv, Priv
<1>7. HasRegex(t)'
  BY <1>2, <1>3 DEF HasRegex, At
<1> QED
  BY <1>1, <1>3, <1>4, <1>5, <1>6, <1>7, ThreadOnly DEF Sound

LEMMA ReInitStep ==
  ASSUME CallInv, NEW t \in Thread, header_re_init(t)
  PROVE  CallInv'
<1>0. /\ th \in [Thread -> ThType] /\ priv \in [Site -> PrivType] /\ heap \subseteq Regex
      /\ MutexOK /\ InCall(t) /\ IsFiniteSet(heap) /\ Held /\ Past
      /\ vcl \in [Vcl -> VclType]
  BY DEF CallInv, TypeOK, MutexOK, Sound
<1>1. th[t].pc = "re_init" /\ th[t].site \in Site /\ vcl[th[t].site[1]].loaded
      /\ th[t].site[2] = "header"
  BY <1>0 DEF header_re_init, At, InCall, HeaderPc, Critical
<1> DEFINE s == th[t].site
           n == New(s)
<1>2. n \in Regex /\ n # NULL /\ n.site = s /\ n.life = vcl[s[1]].life
  BY <1>1, NewRegex
<1>3. /\ vcl' = vcl /\ mutex' = mutex /\ heap' = heap \cup {n} /\ Goto(t, "free")
      /\ priv' = [priv EXCEPT ![s] = [priv[s] EXCEPT !.priv = n]]
  BY <1>0, <1>1 DEF header_re_init
<1> HIDE DEF n
<1>4. /\ th' \in [Thread -> ThType]
      /\ \A q \in Thread : q # t => th'[q] = th[q]
      /\ th'[t].pc = "free" /\ th'[t].site = s
  BY <1>0, <1>3, GotoIs DEF HeaderPc, Critical
<1>5. /\ priv' \in [Site -> PrivType]
      /\ priv'[s].priv = n /\ \A q \in Site : q # s => priv'[q] = priv[q]
  BY <1>0, <1>1, <1>2, <1>3 DEF PrivType
<1>6. heap' \subseteq Regex /\ IsFiniteSet(heap') /\ heap \subseteq heap'
  BY <1>0, <1>2, <1>3, FS_AddElement
<1>7. Held'
  BY <1>0, <1>1, <1>2, <1>3, <1>5 DEF Held, Compiled
<1>8. Past'
  <2>1. vcl[s[1]].life \in Nat
    BY <1>0, <1>1 DEF Site, VclType
  <2> QED
    BY <1>0, <1>2, <1>3, <2>1 DEF Past
<1>9. MutexOK'
  BY <1>0, <1>3, <1>4 DEF MutexOK, Critical
<1>10. Sound(t)'
  BY <1>1, <1>2, <1>3, <1>4, <1>5
     DEF Sound, InCall, HasPriv, HasRegex, At, Priv, HeaderPc, BodyPc, Critical
<1>11. \A q \in Site : priv[q].priv # NULL => priv'[q].priv # NULL
  BY <1>2, <1>5
<1> QED
  BY <1>3, <1>4, <1>5, <1>6, <1>7, <1>8, <1>9, <1>10, <1>11, ThreadMoves

LEMMA FreeStep ==
  ASSUME CallInv, NEW t \in Thread, header_free(t)
  PROVE  CallInv'
<1>0. /\ th \in [Thread -> ThType] /\ priv \in [Site -> PrivType] /\ heap \subseteq Regex
      /\ MutexOK /\ InCall(t) /\ HasPriv(t) /\ IsFiniteSet(heap) /\ Held /\ Past
  BY DEF CallInv, TypeOK, MutexOK, Sound
<1> DEFINE s == th[t].site
<1>1. th[t].pc = "free" /\ s \in Site /\ vcl[s[1]].loaded /\ s[2] = "header" /\ priv[s].priv # NULL
  BY <1>0 DEF header_free, At, InCall, HasPriv, Priv, HeaderPc, Critical
<1>2. /\ vcl' = vcl /\ mutex' = mutex /\ heap' = heap /\ Goto(t, "unlock")
      /\ priv' = [priv EXCEPT ![s] = [priv[s] EXCEPT !.free = TRUE]]
  BY <1>0, <1>1 DEF header_free
<1>3. /\ th' \in [Thread -> ThType]
      /\ \A q \in Thread : q # t => th'[q] = th[q]
      /\ th'[t].pc = "unlock" /\ th'[t].site = s
  BY <1>0, <1>2, GotoIs DEF HeaderPc, Critical
<1>4. /\ priv' \in [Site -> PrivType]
      /\ \A q \in Site : priv'[q].priv = priv[q].priv
  BY <1>0, <1>1, <1>2 DEF PrivType
<1>5. Held' /\ Past'
  BY <1>0, <1>2, <1>4 DEF Held, Past, Compiled
<1>6. MutexOK'
  BY <1>0, <1>2, <1>3 DEF MutexOK, Critical
<1>7. Sound(t)'
  BY <1>1, <1>2, <1>3, <1>4
     DEF Sound, InCall, HasPriv, HasRegex, At, Priv, HeaderPc, BodyPc, Critical
<1> QED
  BY <1>0, <1>2, <1>3, <1>4, <1>5, <1>6, <1>7, ThreadMoves

\* A call ends.
LEMMA ReturnStep ==
  ASSUME CallInv, NEW t \in Thread, th[t].pc \notin Critical,
         th' = [th EXCEPT ![t] = Idle],
         vcl' = vcl, priv' = priv, heap' = heap, mutex' = mutex
  PROVE  CallInv'
<1>0. th \in [Thread -> ThType] /\ MutexOK
  BY DEF CallInv, TypeOK, MutexOK
<1>1. Idle \in ThType /\ Idle.pc = "idle"
  BY DEF Idle, ThType
<1>2. /\ th' \in [Thread -> ThType]
      /\ \A q \in Thread : q # t => th'[q] = th[q]
      /\ th'[t].pc = "idle"
  BY <1>0, <1>1
<1>3. MutexOK'
  BY <1>0, <1>2 DEF MutexOK
<1>4. Sound(t)'
  BY <1>2 DEF Sound, InCall, HasPriv, HasRegex, At
<1> QED
  BY <1>2, <1>3, <1>4, ThreadOnly

LEMMA CompileStep ==
  ASSUME CallInv, NEW t \in Thread, body_compile(t)
  PROVE  CallInv'
<1>0. /\ th \in [Thread -> ThType] /\ priv \in [Site -> PrivType] /\ heap \subseteq Regex
      /\ MutexOK /\ InCall(t) /\ IsFiniteSet(heap) /\ Held /\ Past
      /\ vcl \in [Vcl -> VclType]
  BY DEF CallInv, TypeOK, MutexOK, Sound
<1>1. th[t].pc = "compile" /\ th[t].site \in Site /\ vcl[th[t].site[1]].loaded
      /\ th[t].site[2] = "body"
  BY <1>0 DEF body_compile, At, InCall, BodyPc
<1> DEFINE s == th[t].site
           n == New(s)
<1>2. n \in Regex /\ n # NULL /\ n.site = s /\ n.life = vcl[s[1]].life
  BY <1>1, NewRegex
<1>3. vcl' = vcl /\ priv' = priv /\ mutex' = mutex
  BY DEF body_compile
<1>4. CASE /\ heap' = heap \cup {n}
           /\ th' = [th EXCEPT ![t] = [th[t] EXCEPT !.pc = "store", !.t = n]]
  <2> HIDE DEF n
  <2>1. "store" \in {"idle", "use", "match"} \cup HeaderPc \cup BodyPc
    BY DEF BodyPc
  <2>2. /\ th' \in [Thread -> ThType]
        /\ \A q \in Thread : q # t => th'[q] = th[q]
        /\ th'[t].pc = "store" /\ th'[t].site = s /\ th'[t].t = n
    BY <1>0, <1>2, <1>4, <2>1 DEF ThType
  <2>3. heap' \subseteq Regex /\ IsFiniteSet(heap') /\ heap \subseteq heap'
    BY <1>0, <1>2, <1>4, FS_AddElement
  <2>4. Held'
    BY <1>0, <1>3, <1>4 DEF Held, Compiled
  <2>5. Past'
    <3>1. vcl[s[1]].life \in Nat
      BY <1>0, <1>1 DEF Site, VclType
    <3> QED
      BY <1>0, <1>2, <1>3, <1>4, <3>1 DEF Past
  <2>6. MutexOK'
    BY <1>0, <1>1, <1>3, <2>2 DEF MutexOK, Critical
  <2>7. n \in Compiled(s)'
    BY <1>2, <1>3, <1>4, CompiledIs
  <2>8. Sound(t)'
    BY <1>1, <1>3, <2>2, <2>7
       DEF Sound, InCall, HasPriv, HasRegex, At, HeaderPc, BodyPc, Critical, Compiled
  <2> QED
    BY <1>0, <1>3, <2>2, <2>3, <2>4, <2>5, <2>6, <2>8, ThreadMoves
<1>5. CASE th' = [th EXCEPT ![t] = Idle] /\ heap' = heap
  BY <1>1, <1>3, <1>5, ReturnStep DEF Critical
<1> QED
  BY <1>0, <1>4, <1>5 DEF body_compile

LEMMA StoreStep ==
  ASSUME CallInv, NEW t \in Thread, body_store(t)
  PROVE  CallInv'
<1>0. /\ th \in [Thread -> ThType] /\ priv \in [Site -> PrivType] /\ heap \subseteq Regex
      /\ MutexOK /\ InCall(t) /\ HasRegex(t) /\ IsFiniteSet(heap) /\ Held /\ Past
  BY DEF CallInv, TypeOK, MutexOK, Sound
<1> DEFINE s == th[t].site
           b == th[t].t
<1>1. th[t].pc = "store" /\ s \in Site /\ vcl[s[1]].loaded /\ b \in Compiled(s)
  BY <1>0 DEF body_store, At, InCall, HasRegex
<1>2. b \in Regex /\ b # NULL
  BY <1>0, <1>1, CompiledIs, NullAssumption
<1>3. /\ vcl' = vcl /\ mutex' = mutex /\ heap' = heap
      /\ priv' = [priv EXCEPT ![s] = [priv |-> b, free |-> TRUE]]
      /\ th' = [th EXCEPT ![t] = [th[t] EXCEPT !.pc = "use", !.t = NULL]]
  BY <1>0, <1>1 DEF body_store
<1>4. /\ th' \in [Thread -> ThType]
      /\ \A q \in Thread : q # t => th'[q] = th[q]
      /\ th'[t].pc = "use" /\ th'[t].site = s
  BY <1>0, <1>3 DEF ThType
<1>5. /\ priv' \in [Site -> PrivType]
      /\ priv'[s].priv = b /\ \A q \in Site : q # s => priv'[q] = priv[q]
  <2>1. [priv |-> b, free |-> TRUE] \in PrivType
    BY <1>2 DEF PrivType
  <2> QED
    BY <1>0, <1>1, <1>3, <2>1
<1>6. Held'
  BY <1>0, <1>1, <1>3, <1>5 DEF Held, Compiled
<1>7. Past'
  BY <1>0, <1>3 DEF Past
<1>8. MutexOK'
  BY <1>0, <1>1, <1>3, <1>4 DEF MutexOK, Critical
<1>9. Sound(t)'
  BY <1>1, <1>2, <1>3, <1>4, <1>5
     DEF Sound, InCall, HasPriv, HasRegex, At, Priv, HeaderPc, BodyPc, Critical
<1>10. \A q \in Site : priv[q].priv # NULL => priv'[q].priv # NULL
  BY <1>2, <1>5
<1> QED
  BY <1>0, <1>3, <1>4, <1>5, <1>6, <1>7, <1>8, <1>9, <1>10, ThreadMoves

LEMMA UseStep ==
  ASSUME CallInv, NEW t \in Thread, use(t)
  PROVE  CallInv'
<1>0. /\ th \in [Thread -> ThType] /\ priv \in [Site -> PrivType]
      /\ MutexOK /\ InCall(t) /\ HasPriv(t) /\ Held
  BY DEF CallInv, TypeOK, MutexOK, Sound
<1> DEFINE s == th[t].site
           b == priv[s].priv
<1>1. th[t].pc = "use" /\ s \in Site /\ vcl[s[1]].loaded /\ b \in Compiled(s)
  BY <1>0 DEF use, At, InCall, HasPriv, Held, Priv
<1>2. b \in Regex \cup {NULL}
  BY <1>0, <1>1 DEF PrivType
<1>3. /\ vcl' = vcl /\ priv' = priv /\ heap' = heap /\ mutex' = mutex
      /\ th' = [th EXCEPT ![t] = [th[t] EXCEPT !.pc = "match", !.re = b]]
  BY <1>0 DEF use, Priv
<1>4. /\ th' \in [Thread -> ThType]
      /\ \A q \in Thread : q # t => th'[q] = th[q]
      /\ th'[t].pc = "match" /\ th'[t].site = s /\ th'[t].re = b
  BY <1>0, <1>2, <1>3 DEF ThType
<1>5. MutexOK'
  BY <1>0, <1>1, <1>3, <1>4 DEF MutexOK, Critical
<1>6. HasPriv(t)'
  <2>1. priv[s].priv # NULL
    BY <1>0, <1>1 DEF HasPriv, Priv
  <2> QED
    BY <1>3, <1>4, <2>1 DEF HasPriv, Priv
<1>7. InCall(t)' /\ HasRegex(t)'
  BY <1>1, <1>3, <1>4
     DEF InCall, HasRegex, At, HeaderPc, BodyPc, Critical, Compiled
<1> QED
  BY <1>3, <1>4, <1>5, <1>6, <1>7, ThreadOnly DEF Sound

LEMMA MatchStep ==
  ASSUME CallInv, NEW t \in Thread, match(t)
  PROVE  CallInv'
  BY ReturnStep DEF match, At, Critical

-----------------------------------------------------------------------------
LEMMA LoadStep ==
  ASSUME CallInv, NEW v \in Vcl, event_function(v)
  PROVE  CallInv'
<1>0. /\ vcl \in [Vcl -> VclType] /\ Held /\ Past /\ heap \subseteq Regex
      /\ \A t \in Thread : InCall(t) /\ HasPriv(t) /\ HasRegex(t)
  BY DEF CallInv, TypeOK, Sound
<1>1. /\ ~vcl[v].loaded
      /\ vcl' = [vcl EXCEPT ![v] = [loaded |-> TRUE, life |-> vcl[v].life + 1]]
      /\ mutex' = NULL /\ priv' = priv /\ heap' = heap /\ th' = th
  BY <1>0 DEF event_function
<1>2. /\ vcl' \in [Vcl -> VclType]
      /\ \A w \in Vcl : w # v => vcl'[w] = vcl[w]
      /\ vcl'[v].loaded /\ vcl'[v].life = vcl[v].life + 1
  BY <1>0, <1>1 DEF VclType
<1>3. \A s \in Site : s[1] \in Vcl /\ (vcl[s[1]].loaded => vcl'[s[1]] = vcl[s[1]])
  BY <1>1, <1>2 DEF Site
<1>4. TypeOK'
  BY <1>1, <1>2 DEF CallInv, TypeOK
<1>5. Held'
  BY <1>0, <1>1, <1>3 DEF Held, Compiled
<1>6. Past'
  <2> SUFFICES ASSUME NEW b \in heap
               PROVE  b.life <= vcl'[b.site[1]].life
    BY <1>1 DEF Past
  <2>1. b.site[1] \in Vcl /\ b.life \in Nat /\ b.life <= vcl[b.site[1]].life
    BY <1>0 DEF Regex, Site, Past
  <2>2. vcl[b.site[1]].life \in Nat
    BY <1>0, <2>1 DEF VclType
  <2> QED
    BY <1>2, <2>1, <2>2
<1>7. ASSUME NEW t \in Thread
      PROVE  Sound(t)'
  <2>1. CASE th[t].pc = "idle"
    BY <1>1, <2>1 DEF Sound, InCall, HasPriv, HasRegex, At
  <2>2. CASE th[t].pc # "idle"
    <3>1. th[t].site \in Site /\ vcl'[th[t].site[1]] = vcl[th[t].site[1]]
      BY <1>0, <1>3, <2>2 DEF InCall
    <3> QED
      BY <1>0, <1>1, <3>1 DEF Sound, InCall, HasPriv, HasRegex, At, Priv, Compiled
  <2> QED
    BY <2>1, <2>2
<1> QED
  BY <1>1, <1>4, <1>5, <1>6, <1>7 DEF CallInv

LEMMA DiscardStep ==
  ASSUME CallInv, NEW v \in Vcl, Discard(v)
  PROVE  CallInv'
<1>0. /\ vcl \in [Vcl -> VclType] /\ priv \in [Site -> PrivType]
      /\ Held /\ Past /\ heap \subseteq Regex /\ IsFiniteSet(heap)
      /\ \A t \in Thread : InCall(t) /\ HasPriv(t) /\ HasRegex(t)
  BY DEF CallInv, TypeOK, Sound
<1>1. /\ \A t \in Thread : th[t].pc # "idle" => th[t].site[1] # v
      /\ vcl' = [vcl EXCEPT ![v] = [vcl[v] EXCEPT !.loaded = FALSE]]
      /\ heap' = heap \ {priv[<<v, k>>].priv : k \in {i \in Kind : priv[<<v, i>>].free}}
      /\ priv' = [s \in Site |-> IF s[1] = v THEN NoPriv ELSE priv[s]]
      /\ mutex' = mutex /\ th' = th
  BY <1>0 DEF Discard
<1>2. /\ vcl' \in [Vcl -> VclType]
      /\ \A w \in Vcl : w # v => vcl'[w] = vcl[w]
      /\ \A w \in Vcl : vcl'[w].life = vcl[w].life
  BY <1>0, <1>1 DEF VclType
<1>3. heap' \subseteq heap /\ heap' \subseteq Regex /\ IsFiniteSet(heap')
  BY <1>0, <1>1, FS_Subset
<1>4. priv' \in [Site -> PrivType]
  <2>1. NoPriv \in PrivType
    BY DEF NoPriv, PrivType
  <2> QED
    BY <1>0, <1>1, <2>1
<1>5. TypeOK'
  BY <1>1, <1>2, <1>3, <1>4 DEF CallInv, TypeOK
\* Other VCLs keep what they have.
<1>6. ASSUME NEW s \in Site, s[1] # v, NEW b \in Compiled(s)
      PROVE  b \in Compiled(s)'
  <2>1. b \in heap /\ b.site = s /\ b.life = vcl[s[1]].life
    BY <1>6, CompiledIs
  <2>2. ASSUME NEW k \in Kind, b = priv[<<v, k>>].priv
        PROVE  FALSE
    <3>1. <<v, k>> \in Site /\ b # NULL
      BY <1>0, <2>1, NullAssumption DEF Site
    <3>2. b \in Compiled(<<v, k>>)
      BY <1>0, <2>2, <3>1 DEF Held
    <3>3. b.site = <<v, k>>
      BY <3>2, CompiledIs
    <3> QED
      BY <1>6, <2>1, <3>3
  <2>3. b \in heap'
    BY <1>1, <2>1, <2>2
  <2>4. vcl'[s[1]].life = vcl[s[1]].life
    BY <1>2 DEF Site
  <2> QED
    BY <2>1, <2>3, <2>4, CompiledIs
<1>7. Held'
  <2> SUFFICES ASSUME NEW s \in Site, priv'[s].priv # NULL
               PROVE  priv'[s].priv \in Compiled(s)' /\ vcl'[s[1]].loaded
    BY DEF Held, Compiled
  <2>1. s[1] # v /\ priv'[s] = priv[s]
    BY <1>1 DEF NoPriv
  <2>2. priv[s].priv \in Compiled(s) /\ vcl[s[1]].loaded /\ s[1] \in Vcl
    BY <1>0, <2>1 DEF Held, Site
  <2> QED
    BY <1>2, <1>6, <2>1, <2>2
<1>8. Past'
  <2>1. \A b \in heap' : b \in heap /\ b.site[1] \in Vcl
    BY <1>0, <1>3 DEF Regex, Site
  <2> QED
    BY <1>0, <1>2, <2>1 DEF Past
<1>9. ASSUME NEW t \in Thread
      PROVE  Sound(t)'
  <2>1. CASE th[t].pc = "idle"
    BY <1>1, <2>1 DEF Sound, InCall, HasPriv, HasRegex, At
  <2>2. CASE th[t].pc # "idle"
    <3> DEFINE s == th[t].site
    <3>1. s \in Site /\ s[1] \in Vcl /\ s[1] # v
      BY <1>0, <1>1, <2>2 DEF InCall, Site
    <3>2. vcl'[s[1]] = vcl[s[1]] /\ priv'[s] = priv[s]
      BY <1>1, <1>2, <3>1
    <3>3. InCall(t)' /\ HasPriv(t)'
      BY <1>0, <1>1, <3>2 DEF InCall, HasPriv, Priv
    <3>4. HasRegex(t)'
      <4>1. ASSUME NEW b, b \in Compiled(s)
            PROVE  b \in heap' /\ b.site = s /\ b.life = vcl'[s[1]].life
        BY <1>6, <3>1, <4>1, CompiledIs
      <4> QED
        BY <1>0, <1>1, <4>1 DEF HasRegex, At, Compiled
    <3> QED
      BY <3>3, <3>4 DEF Sound
  <2> QED
    BY <2>1, <2>2
<1> QED
  BY <1>3, <1>5, <1>7, <1>8, <1>9 DEF CallInv

-----------------------------------------------------------------------------
LEMMA InitInv == Init => CallInv
<1> SUFFICES ASSUME Init
             PROVE  CallInv
  OBVIOUS
<1>1. vcl \in [Vcl -> VclType] /\ heap = {} /\ mutex = NULL
  BY DEF Init, VclType
<1>2. priv \in [Site -> PrivType] /\ \A s \in Site : priv[s].priv = NULL
  BY DEF Init, NoPriv, PrivType
<1>3. th \in [Thread -> ThType] /\ \A t \in Thread : th[t].pc = "idle"
  BY DEF Init, Idle, ThType
<1>4. IsFiniteSet(heap) /\ Held /\ Past
  BY <1>1, <1>2, FS_EmptySet DEF Held, Past
<1>5. \A t \in Thread : Sound(t)
  BY <1>3 DEF Sound, InCall, HasPriv, HasRegex, At
<1> QED
  BY <1>1, <1>2, <1>3, <1>4, <1>5 DEF CallInv, TypeOK

LEMMA NextInv == CallInv /\ [Next]_vars => CallInv'
<1> SUFFICES ASSUME CallInv, [Next]_vars
             PROVE  CallInv'
  OBVIOUS
<1>1. CASE \E v \in Vcl : event_function(v)
  BY <1>1, LoadStep
<1>2. CASE \E v \in Vcl : Discard(v)
  BY <1>2, DiscardStep
<1>3. CASE \E t \in Thread, s \in Site : Call(t, s)
  BY <1>3, CallStep
<1>4. CASE \E t \in Thread : ThreadStep(t)
  <2>1. PICK t \in Thread : ThreadStep(t)
    BY <1>4
  <2> QED
    BY <2>1, GoStep, ReInitStep, FreeStep, CompileStep, StoreStep, UseStep, MatchStep
       DEF ThreadStep
<1>5. CASE UNCHANGED vars
  BY <1>5 DEF vars, CallInv, TypeOK, Held, Past, Sound, InCall, HasPriv, HasRegex,
              At, Priv, Compiled
<1> QED
  BY <1>1, <1>2, <1>3, <1>4, <1>5 DEF Next

LEMMA CallInvariant == Spec => []CallInv
  BY InitInv, NextInv, PTL DEF Spec

(***************************************************************************)
(* Every variable keeps its type; in particular header_mutex is never held *)
(* by a thread that has left header_init_re, even if the load of another   *)
(* VCL has initialised it in between.                                      *)
(***************************************************************************)
THEOREM CallSiteType == Spec => []TypeOK
<1>1. CallInv => TypeOK
  BY DEF CallInv
<1> QED
  BY <1>1, CallInvariant, PTL

(***************************************************************************)
(* Threads match with regexes of their own call site that have not been    *)
(* freed.  This needs neither the mutex of vmod_header nor one in          *)
(* vmod_bodyaccess: nobody frees but the discard of the VCL.               *)
(***************************************************************************)
THEOREM CallSiteUsesLive == Spec => []UsesLive
<1>1. CallInv => UsesLive
  BY CompiledIs DEF CallInv, Sound, HasRegex, UsesLive
<1> QED
  BY <1>1, CallInvariant, PTL

-----------------------------------------------------------------------------
(***************************************************************************)
(* What a call site of vmod_bodyaccess costs.  Threads that are about to   *)
(* compile, or to store what they have compiled, are the ones that found   *)
(* nothing there; once something is, no more of them come.                 *)
(***************************************************************************)
AtSite(s, l) == {t \in Thread : th[t].pc = l /\ th[t].site = s}

Budget(s) ==
  /\ Cardinality(Compiled(s)) + Cardinality(AtSite(s, "compile")) <= Cardinality(Thread)
  /\ vcl[s[1]].loaded /\ priv[s].priv = NULL =>
       Cardinality(Compiled(s)) <= Cardinality(AtSite(s, "store"))

BudgetInv == \A s \in Site : s[2] = "body" => Budget(s)

LEMMA BudgetFinite ==
  ASSUME NEW s, IsFiniteSet(heap)
  PROVE  /\ IsFiniteSet(Compiled(s)) /\ Cardinality(Compiled(s)) \in Nat
         /\ \A l : IsFiniteSet(AtSite(s, l)) /\ Cardinality(AtSite(s, l)) \in Nat
         /\ Cardinality(Thread) \in Nat
<1>1. IsFiniteSet(Compiled(s))
  BY FS_Subset DEF Compiled
<1>2. \A l : IsFiniteSet(AtSite(s, l))
  BY FS_Subset, CallSiteAssumption DEF AtSite
<1> QED
  BY <1>1, <1>2, FS_CardinalityType, CallSiteAssumption

\* No thread is in two places.
LEMMA TwoPlaces ==
  ASSUME NEW C, NEW S, C \subseteq Thread, S \subseteq Thread, C \cap S = {}
  PROVE  Cardinality(C) + Cardinality(S) <= Cardinality(Thread)
<1>1. IsFiniteSet(C) /\ IsFiniteSet(S)
  BY FS_Subset, CallSiteAssumption
<1>2. Cardinality(C \cup S) = Cardinality(C) + Cardinality(S) - Cardinality(C \cap S)
  BY <1>1, FS_Union
<1>3. Cardinality(C \cap S) = 0
  BY FS_EmptySet
<1>4. Cardinality(C \cup S) <= Cardinality(Thread)
  BY FS_Subset, CallSiteAssumption
<1>5. Cardinality(C) \in Nat /\ Cardinality(S) \in Nat
  BY <1>1, FS_CardinalityType
<1> QED
  BY <1>2, <1>3, <1>4, <1>5

\* A step by which nothing is compiled, and nobody comes to compile.
LEMMA BudgetKeeps ==
  ASSUME IsFiniteSet(heap), NEW s, Budget(s),
         Compiled(s)' \subseteq Compiled(s),
         AtSite(s, "compile")' \subseteq AtSite(s, "compile"),
         vcl'[s[1]].loaded /\ priv'[s].priv = NULL =>
           /\ vcl[s[1]].loaded /\ priv[s].priv = NULL
           /\ AtSite(s, "store")' = AtSite(s, "store")
  PROVE  Budget(s)'
<1>1. /\ Cardinality(Compiled(s)') \in Nat
      /\ Cardinality(Compiled(s)') <= Cardinality(Compiled(s))
  <2>1. IsFiniteSet(Compiled(s)) /\ IsFiniteSet(Compiled(s)')
    BY BudgetFinite, FS_Subset
  <2> QED
    BY <2>1, FS_Subset, FS_CardinalityType
<1>2. /\ Cardinality(AtSite(s, "compile")') \in Nat
      /\ Cardinality(AtSite(s, "compile")') <= Cardinality(AtSite(s, "compile"))
  <2>1. IsFiniteSet(AtSite(s, "compile")) /\ IsFiniteSet(AtSite(s, "compile")')
    BY BudgetFinite, FS_Subset
  <2> QED
    BY <2>1, FS_Subset, FS_CardinalityType
<1>3. /\ Cardinality(Compiled(s)) \in Nat /\ Cardinality(AtSite(s, "compile")) \in Nat
      /\ Cardinality(AtSite(s, "store")) \in Nat /\ Cardinality(Thread) \in Nat
  BY BudgetFinite
<1> QED
  BY <1>1, <1>2, <1>3 DEF Budget

LEMMA LoadBudget ==
  ASSUME CallInv, NEW s \in Site, Budget(s), NEW v \in Vcl, event_function(v)
  PROVE  Budget(s)'
<1>0. /\ vcl \in [Vcl -> VclType] /\ Past /\ heap \subseteq Regex /\ IsFiniteSet(heap)
  BY DEF CallInv, TypeOK
<1>1. /\ vcl' = [vcl EXCEPT ![v] = [loaded |-> TRUE, life |-> vcl[v].life + 1]]
      /\ priv' = priv /\ heap' = heap /\ th' = th /\ s[1] \in Vcl
  BY <1>0 DEF event_function, Site
<1>2. CASE s[1] = v
  \* All that has been compiled so far is of an earlier life.
  <2>1. Compiled(s)' = {}
    <3>1. ASSUME NEW b \in heap, b.site = s, b.life = vcl'[v].life
          PROVE  FALSE
      <4>1. b.life <= vcl[v].life /\ vcl[v].life \in Nat /\ vcl'[v].life = vcl[v].life + 1
        BY <1>0, <1>1, <1>2, <3>1 DEF Past, VclType
      <4> QED
        BY <3>1, <4>1
    <3> QED
      BY <1>1, <1>2, <3>1 DEF Compiled
  <2>2. Cardinality(Compiled(s)') = 0
    BY <2>1, FS_EmptySet
  <2>3. /\ Cardinality(AtSite(s, "compile")') <= Cardinality(Thread)
        /\ \A l : Cardinality(AtSite(s, l)') \in Nat
    <3>1. \A l : AtSite(s, l)' \subseteq Thread
      BY DEF AtSite
    <3> QED
      BY <3>1, FS_Subset, FS_CardinalityType, CallSiteAssumption
  <2> QED
    BY <2>2, <2>3 DEF Budget
<1>3. CASE s[1] # v
  <2>1. vcl'[s[1]] = vcl[s[1]]
    BY <1>0, <1>1, <1>3
  <2>2. Compiled(s)' = Compiled(s) /\ \A l : AtSite(s, l)' = AtSite(s, l)
    BY <1>1, <2>1 DEF Compiled, AtSite
  <2> QED
    BY <1>0, <1>1, <2>1, <2>2, BudgetKeeps
<1> QED
  BY <1>2, <1>3

LEMMA DiscardBudget ==
  ASSUME CallInv, NEW s \in Site, Budget(s), NEW v \in Vcl, Discard(v)
  PROVE  Budget(s)'
<1>0. vcl \in [Vcl -> VclType] /\ heap \subseteq Regex /\ IsFiniteSet(heap)
  BY DEF CallInv, TypeOK
<1>1. /\ vcl' = [vcl EXCEPT ![v] = [vcl[v] EXCEPT !.loaded = FALSE]]
      /\ priv' = [q \in Site |-> IF q[1] = v THEN NoPriv ELSE priv[q]]
      /\ heap' \subseteq heap /\ th' = th /\ s[1] \in Vcl
  BY <1>0 DEF Discard, Site
<1>2. vcl'[s[1]].life = vcl[s[1]].life /\ (s[1] = v => ~vcl'[s[1]].loaded)
      /\ (s[1] # v => vcl'[s[1]] = vcl[s[1]] /\ priv'[s] = priv[s])
  BY <1>0, <1>1 DEF VclType
<1>3. Compiled(s)' \subseteq Compiled(s) /\ \A l : AtSite(s, l)' = AtSite(s, l)
  BY <1>1, <1>2 DEF Compiled, AtSite
<1> QED
  BY <1>0, <1>2, <1>3, BudgetKeeps

\* A thread comes to compile: it has found nothing there.
LEMMA ComesBudget ==
  ASSUME CallInv, NEW s \in Site, Budget(s), NEW t \in Thread, th[t].site = s,
         body_test(t), Priv(t) = NULL
  PROVE  Budget(s)'
<1>0. th \in [Thread -> ThType] /\ InCall(t) /\ IsFiniteSet(heap)
  BY DEF CallInv, TypeOK, Sound
<1>1. /\ th[t].pc = "btest" /\ vcl[s[1]].loaded /\ priv[s].priv = NULL
      /\ vcl' = vcl /\ priv' = priv /\ heap' = heap /\ Goto(t, "compile")
  BY <1>0 DEF body_test, At, Priv, InCall
<1>2. /\ \A q \in Thread : q # t => th'[q] = th[q]
      /\ th'[t].pc = "compile" /\ th'[t].site = s
  BY <1>0, <1>1, GotoIs DEF BodyPc
<1>3. Compiled(s)' = Compiled(s) /\ AtSite(s, "store")' = AtSite(s, "store")
  BY <1>1, <1>2 DEF Compiled, AtSite
<1>4. Cardinality(AtSite(s, "compile")') + Cardinality(AtSite(s, "store")')
        <= Cardinality(Thread)
  BY TwoPlaces DEF AtSite
<1>5. /\ Cardinality(Compiled(s)) \in Nat /\ Cardinality(AtSite(s, "store")) \in Nat
      /\ Cardinality(Thread) \in Nat
  BY <1>0, BudgetFinite
<1>6. Cardinality(AtSite(s, "compile")') \in Nat
  <2>1. AtSite(s, "compile")' \subseteq Thread
    BY DEF AtSite
  <2> QED
    BY <2>1, FS_Subset, FS_CardinalityType, CallSiteAssumption
<1> QED
  BY <1>1, <1>3, <1>4, <1>5, <1>6 DEF Budget

\* A thread has compiled a regex, and goes on to store it.
LEMMA CompiledBudget ==
  ASSUME CallInv, NEW s \in Site, Budget(s), NEW t \in Thread, th[t].site = s,
         th[t].pc = "compile", NEW n,
         vcl' = vcl, priv' = priv, heap' = heap \cup {n},
         th' = [th EXCEPT ![t] = [th[t] EXCEPT !.pc = "store", !.t = n]]
  PROVE  Budget(s)'
<1>0. th \in [Thread -> ThType] /\ IsFiniteSet(heap)
  BY DEF CallInv, TypeOK
<1>1. /\ \A q \in Thread : q # t => th'[q] = th[q]
      /\ th'[t].pc = "store" /\ th'[t].site = s
  BY <1>0 DEF ThType
<1>2. AtSite(s, "compile")' = AtSite(s, "compile") \ {t} /\ t \in AtSite(s, "compile")
  BY <1>1 DEF AtSite
<1>3. AtSite(s, "store")' = AtSite(s, "store") \cup {t} /\ t \notin AtSite(s, "store")
  BY <1>1 DEF AtSite
<1>4. /\ IsFiniteSet(Compiled(s)) /\ Cardinality(Compiled(s)) \in Nat
      /\ IsFiniteSet(AtSite(s, "compile")) /\ Cardinality(AtSite(s, "compile")) \in Nat
      /\ IsFiniteSet(AtSite(s, "store")) /\ Cardinality(AtSite(s, "store")) \in Nat
      /\ Cardinality(Thread) \in Nat
  BY <1>0, BudgetFinite
<1>5. /\ Cardinality(Compiled(s)') \in Nat
      /\ Cardinality(Compiled(s)') <= Cardinality(Compiled(s)) + 1
  <2>1. Compiled(s)' \subseteq Compiled(s) \cup {n}
    BY DEF Compiled
  <2>2. /\ IsFiniteSet(Compiled(s) \cup {n})
        /\ Cardinality(Compiled(s) \cup {n}) <= Cardinality(Compiled(s)) + 1
    <3>1. /\ IsFiniteSet(Compiled(s) \cup {n})
          /\ \/ Cardinality(Compiled(s) \cup {n}) = Cardinality(Compiled(s))
             \/ Cardinality(Compiled(s) \cup {n}) = Cardinality(Compiled(s)) + 1
      BY <1>4, FS_AddElement
    <3> QED
      BY <1>4, <3>1
  <2>3. /\ IsFiniteSet(Compiled(s)')
        /\ Cardinality(Compiled(s)') <= Cardinality(Compiled(s) \cup {n})
    BY <2>1, <2>2, FS_Subset
  <2>4. Cardinality(Compiled(s)') \in Nat /\ Cardinality(Compiled(s) \cup {n}) \in Nat
    BY <2>2, <2>3, FS_CardinalityType
  <2> QED
    BY <1>4, <2>2, <2>3, <2>4
<1>6. Cardinality(AtSite(s, "compile")') = Cardinality(AtSite(s, "compile")) - 1
  BY <1>2, <1>4, FS_RemoveElement
<1>7. Cardinality(AtSite(s, "store")') = Cardinality(AtSite(s, "store")) + 1
  BY <1>3, <1>4, FS_AddElement
<1> QED
  BY <1>4, <1>5, <1>6, <1>7 DEF Budget

\* All other steps of threads.
LEMMA OtherBudget ==
  ASSUME CallInv, NEW s \in Site, Budget(s), NEW t \in Thread, vcl' = vcl,
         \A q \in Thread : q # t => th'[q] = th[q],
         Compiled(s)' \subseteq Compiled(s),
         th'[t].site = s => th'[t].pc \notin {"compile", "store"},
         \/ th[t].site = s => th[t].pc # "store"
         \/ priv'[s].priv # NULL,
         priv'[s].priv = NULL => priv[s].priv = NULL
  PROVE  Budget(s)'
<1>1. IsFiniteSet(heap)
  BY DEF CallInv
<1>2. AtSite(s, "compile")' \subseteq AtSite(s, "compile")
  BY DEF AtSite
<1>3. priv'[s].priv = NULL => AtSite(s, "store")' = AtSite(s, "store")
  BY DEF AtSite
<1> QED
  BY <1>1, <1>2, <1>3, BudgetKeeps

LEMMA HeaderBudget ==
  ASSUME CallInv, NEW s \in Site, s[2] = "body", Budget(s), NEW t \in Thread,
         \/ header_test(t) \/ header_lock(t) \/ header_recheck(t)
         \/ header_re_init(t) \/ header_free(t) \/ header_unlock(t)
  PROVE  Budget(s)'
<1>0. th \in [Thread -> ThType] /\ priv \in [Site -> PrivType] /\ InCall(t)
  BY DEF CallInv, TypeOK, Sound
<1>1. th[t].pc \in HeaderPc
  BY DEF header_test, header_lock, header_recheck, header_re_init, header_free,
         header_unlock, At, HeaderPc, Critical
<1>2. th[t].site \in Site /\ th[t].site # s
  BY <1>0, <1>1 DEF InCall, HeaderPc, Critical
<1>3. PICK l \in {"lock", "recheck", "re_init", "free", "unlock", "use"} : Goto(t, l)
  BY DEF header_test, header_lock, header_recheck, header_re_init, header_free, header_unlock
<1>4. th'[t].site # s /\ \A q \in Thread : q # t => th'[q] = th[q]
  <2>1. l \in {"idle", "use", "match"} \cup HeaderPc \cup BodyPc
    BY DEF HeaderPc, Critical
  <2> QED
    BY <1>0, <1>2, <1>3, <2>1, GotoIs
<1>5. vcl' = vcl
  BY DEF header_test, header_lock, header_recheck, header_re_init, header_free, header_unlock
<1>6. priv'[s] = priv[s]
  BY <1>0, <1>2
     DEF header_test, header_lock, header_recheck, header_re_init, header_free, header_unlock
<1>7. Compiled(s)' \subseteq Compiled(s)
  <2>1. New(th[t].site).site # s
    BY <1>2, NewRegex
  <2>2. heap' \subseteq heap \cup {New(th[t].site)}
    BY DEF header_test, header_lock, header_recheck, header_re_init, header_free, header_unlock
  <2> QED
    BY <1>5, <2>1, <2>2 DEF Compiled
<1> QED
  BY <1>2, <1>4, <1>5, <1>6, <1>7, OtherBudget

LEMMA BodyBudget ==
  ASSUME CallInv, NEW s \in Site, s[2] = "body", Budget(s), NEW t \in Thread,
         body_test(t) \/ body_compile(t) \/ body_store(t)
  PROVE  Budget(s)'
<1>0. /\ th \in [Thread -> ThType] /\ priv \in [Site -> PrivType] /\ heap \subseteq Regex
      /\ InCall(t) /\ HasRegex(t)
  BY DEF CallInv, TypeOK, Sound
<1>1. CASE body_test(t)
  <2>1. vcl' = vcl /\ priv' = priv /\ heap' = heap /\ th[t].pc = "btest"
    BY <1>1 DEF body_test, At
  <2>2. PICK l \in {"compile", "use"} :
          Goto(t, l) /\ (l = "compile" <=> Priv(t) = NULL)
    BY <1>1 DEF body_test
  <2>3. /\ \A q \in Thread : q # t => th'[q] = th[q]
        /\ th'[t].pc = l /\ th'[t].site = th[t].site
    <3>1. l \in {"idle", "use", "match"} \cup HeaderPc \cup BodyPc
      BY DEF BodyPc
    <3> QED
      BY <1>0, <2>2, <3>1, GotoIs
  <2>4. CASE th[t].site = s /\ Priv(t) = NULL
    BY <1>1, <2>4, ComesBudget
  <2>5. CASE ~(th[t].site = s /\ Priv(t) = NULL)
    <3>1. Compiled(s)' \subseteq Compiled(s)
      BY <2>1 DEF Compiled
    <3>2. th'[t].site = s => th'[t].pc \notin {"compile", "store"}
      BY <2>2, <2>3, <2>5
    <3> QED
      BY <2>1, <2>3, <3>1, <3>2, OtherBudget
  <2> QED
    BY <2>4, <2>5
<1>2. CASE body_compile(t)
  <2>1. vcl' = vcl /\ priv' = priv /\ th[t].pc = "compile" /\ th[t].site \in Site
    BY <1>0, <1>2 DEF body_compile, At, InCall
  <2> DEFINE n == New(th[t].site)
  <2>2. CASE /\ heap' = heap \cup {n}
             /\ th' = [th EXCEPT ![t] = [th[t] EXCEPT !.pc = "store", !.t = n]]
    <3>1. n.site = th[t].site
      BY <2>1, NewRegex
    <3> HIDE DEF n
    <3>2. CASE th[t].site = s
      BY <2>1, <2>2, <3>2, CompiledBudget
    <3>3. CASE th[t].site # s
      <4>1. Compiled(s)' \subseteq Compiled(s)
        BY <2>1, <2>2, <3>1, <3>3 DEF Compiled
      <4>2. th'[t].site # s /\ \A q \in Thread : q # t => th'[q] = th[q]
        BY <1>0, <2>2, <3>3 DEF ThType
      <4> QED
        BY <2>1, <3>3, <4>1, <4>2, OtherBudget
    <3> QED
      BY <3>2, <3>3
  <2>3. CASE th' = [th EXCEPT ![t] = Idle] /\ heap' = heap
    <3>1. Compiled(s)' \subseteq Compiled(s)
      BY <2>1, <2>3 DEF Compiled
    <3>2. th'[t].pc = "idle" /\ \A q \in Thread : q # t => th'[q] = th[q]
      BY <1>0, <2>3 DEF Idle
    <3> QED
      BY <2>1, <3>1, <3>2, OtherBudget
  <2> QED
    BY <1>0, <1>2, <2>2, <2>3 DEF body_compile
<1>3. CASE body_store(t)
  <2>1. /\ vcl' = vcl /\ heap' = heap /\ th[t].pc = "store" /\ th[t].site \in Site
        /\ priv' = [priv EXCEPT ![th[t].site] = [priv |-> th[t].t, free |-> TRUE]]
        /\ th' = [th EXCEPT ![t] = [th[t] EXCEPT !.pc = "use", !.t = NULL]]
    BY <1>0, <1>3 DEF body_store, At, InCall
  <2>2. th[t].t # NULL
    BY <1>0, <2>1, CompiledIs, NullAssumption DEF HasRegex, At
  <2>3. Compiled(s)' \subseteq Compiled(s)
    BY <2>1 DEF Compiled
  <2>4. th'[t].pc = "use" /\ \A q \in Thread : q # t => th'[q] = th[q]
    BY <1>0, <2>1 DEF ThType
  <2>5. th[t].site # s => priv'[s] = priv[s]
    BY <1>0, <2>1
  <2>6. th[t].site = s => priv'[s].priv # NULL
    BY <1>0, <2>1, <2>2
  <2> QED
    BY <2>1, <2>3, <2>4, <2>5, <2>6, OtherBudget
<1> QED
  BY <1>1, <1>2, <1>3

LEMMA RestBudget ==
  ASSUME CallInv, NEW s \in Site, Budget(s), NEW t \in Thread,
         use(t) \/ match(t) \/ \E q \in Site : Call(t, q)
  PROVE  Budget(s)'
<1>0. th \in [Thread -> ThType]
  BY DEF CallInv, TypeOK
<1>1. /\ vcl' = vcl /\ priv' = priv /\ heap' = heap
      /\ th[t].pc \in {"use", "match", "idle"}
  BY DEF use, match, Call, At
<1>2. Compiled(s)' \subseteq Compiled(s)
  BY <1>1 DEF Compiled
<1>3. th'[t].pc \in {"match", "idle", "test", "btest"}
      /\ \A q \in Thread : q # t => th'[q] = th[q]
  <2>1. CASE use(t)
    BY <1>0, <2>1 DEF use, ThType
  <2>2. CASE match(t)
    BY <1>0, <2>2 DEF match, Idle
  <2>3. CASE \E q \in Site : Call(t, q)
    <3>1. PICK q \in Site : Call(t, q)
      BY <2>3
    <3>2. th' = [th EXCEPT ![t] = [th[t] EXCEPT
                   !.pc = IF q[2] = "header" THEN "test" ELSE "btest", !.site = q]]
      BY <1>0, <3>1 DEF Call
    <3> QED
      BY <1>0, <3>2 DEF ThType
  <2> QED
    BY <2>1, <2>2, <2>3
<1> QED
  BY <1>1, <1>2, <1>3, OtherBudget

LEMMA BudgetNext == CallInv /\ BudgetInv /\ [Next]_vars => BudgetInv'
<1> SUFFICES ASSUME CallInv, BudgetInv, [Next]_vars, NEW s \in Site, s[2] = "body"
             PROVE  Budget(s)'
  BY DEF BudgetInv, Budget, Compiled, AtSite
<1>0. Budget(s)
  BY DEF BudgetInv
<1>1. CASE \E v \in Vcl : event_function(v)
  BY <1>0, <1>1, LoadBudget
<1>2. CASE \E v \in Vcl : Discard(v)
  BY <1>0, <1>2, DiscardBudget
<1>3. CASE \E t \in Thread, q \in Site : Call(t, q)
  BY <1>0, <1>3, RestBudget
<1>4. CASE \E t \in Thread : ThreadStep(t)
  <2>1. PICK t \in Thread : ThreadStep(t)
    BY <1>4
  <2> QED
    BY <1>0, <2>1, HeaderBudget, BodyBudget, RestBudget DEF ThreadStep
<1>5. CASE UNCHANGED vars
  BY <1>0, <1>5 DEF vars, Budget, Compiled, AtSite
<1> QED
  BY <1>1, <1>2, <1>3, <1>4, <1>5 DEF Next

LEMMA BudgetInit == Init => BudgetInv
<1> SUFFICES ASSUME Init, NEW s \in Site
             PROVE  Budget(s)
  BY DEF BudgetInv
<1>1. heap = {} /\ \A t \in Thread : th[t].pc = "idle"
  BY DEF Init, Idle
<1>2. Compiled(s) = {} /\ AtSite(s, "compile") = {} /\ AtSite(s, "store") = {}
  BY <1>1 DEF Compiled, AtSite
<1>3. Cardinality(Thread) \in Nat
  BY FS_CardinalityType, CallSiteAssumption
<1> QED
  BY <1>2, <1>3, FS_EmptySet DEF Budget

(***************************************************************************)
(* The unlocked initialisation of rematch_req_body loses regexes, but in   *)
(* each life of a VCL never more than there are threads.                   *)
(***************************************************************************)
THEOREM CallSiteLossBounded == Spec => []LossBounded
<1>1. CallInv /\ BudgetInv => LossBounded
  <2> SUFFICES ASSUME CallInv, BudgetInv, NEW s \in Site, s[2] = "body"
               PROVE  Cardinality(Compiled(s)) <= Cardinality(Thread)
    BY DEF LossBounded
  <2>1. Budget(s) /\ IsFiniteSet(heap)
    BY DEF BudgetInv, CallInv
  <2>2. /\ Cardinality(Compiled(s)) \in Nat /\ Cardinality(AtSite(s, "compile")) \in Nat
        /\ Cardinality(Thread) \in Nat
    BY <2>1, BudgetFinite
  <2> QED
    BY <2>1, <2>2 DEF Budget
<1> QED
  BY <1>1, CallInvariant, BudgetInit, BudgetNext, PTL DEF Spec

-----------------------------------------------------------------------------
(***************************************************************************)
(* The double-checked initialisation of vmod_header, with one VCL.  The    *)
(* mutex excludes; who has rechecked finds nothing until it stores; what   *)
(* is stored will be freed, unless its thread has yet to say so.           *)
(***************************************************************************)
Exclusive == \A t \in Thread : th[t].pc \in Critical => mutex = t

StillNull == \A t \in Thread : At(t, "re_init") => Priv(t) = NULL

WillBeFreed ==
  \A s \in Site : s[2] = "header" /\ priv[s].priv # NULL =>
    priv[s].free \/ \E t \in Thread : At(t, "free") /\ th[t].site = s

LockInv == Exclusive /\ StillNull /\ WillBeFreed /\ OneRegex

\* A step of a thread that leaves the call sites of vmod_header alone.
LEMMA LockKeeps ==
  ASSUME CallInv, LockInv, NEW t \in Thread, vcl' = vcl,
         \A q \in Thread : q # t => th'[q] = th[q],
         \A s \in Site : s[2] = "header" => priv'[s] = priv[s],
         \A b \in heap' : b.site[2] = "header" => b \in heap,
         heap' \subseteq Regex,
         th[t].pc # "free",
         th'[t].pc = "re_init" => Priv(t)' = NULL,
         Exclusive'
  PROVE  LockInv'
<1>1. StillNull'
  <2> SUFFICES ASSUME NEW q \in Thread, q # t, th'[q].pc = "re_init"
               PROVE  priv'[th'[q].site].priv = NULL
    BY DEF StillNull, At, Priv
  <2>1. th'[q] = th[q] /\ InCall(q)
    BY DEF CallInv, Sound
  <2>2. th[q].site \in Site /\ th[q].site[2] = "header"
    BY <2>1 DEF InCall, HeaderPc, Critical
  <2> QED
    BY <2>1, <2>2 DEF LockInv, StillNull, At, Priv
<1>2. WillBeFreed'
  <2> SUFFICES ASSUME NEW s \in Site, s[2] = "header", priv'[s].priv # NULL
               PROVE  priv'[s].free \/ \E q \in Thread : At(q, "free")' /\ th'[q].site = s
    BY DEF WillBeFreed, At
  <2>1. CASE priv[s].free
    BY <2>1
  <2>2. CASE \E q \in Thread : At(q, "free") /\ th[q].site = s
    BY <2>2 DEF At
  <2> QED
    BY <2>1, <2>2 DEF LockInv, WillBeFreed
<1>3. OneRegex'
  <2> SUFFICES ASSUME NEW b \in heap', b.site[2] = "header"
               PROVE  priv'[b.site].priv = b /\ vcl'[b.site[1]].loaded
    BY DEF OneRegex
  <2>1. b \in heap /\ b.site \in Site
    BY DEF Regex
  <2> QED
    BY <2>1 DEF LockInv, OneRegex
<1> QED
  BY <1>1, <1>2, <1>3 DEF LockInv

LEMMA LoadLock ==
  ASSUME CallInv, LockInv, \A v, w \in Vcl : v = w, NEW v \in Vcl, event_function(v)
  PROVE  LockInv'
<1>1. ~vcl[v].loaded /\ priv' = priv /\ heap' = heap /\ th' = th
  BY DEF event_function
<1>2. \A s \in Site : ~vcl[s[1]].loaded
  BY <1>1 DEF Site
<1>3. \A t \in Thread : th[t].pc = "idle"
  BY <1>2 DEF CallInv, Sound, InCall
<1>4. \A b \in heap : b.site[2] # "header"
  BY <1>2 DEF CallInv, TypeOK, Regex, LockInv, OneRegex
<1>5. \A s \in Site : priv[s].priv = NULL
  BY <1>2 DEF CallInv, Held
<1> QED
  BY <1>1, <1>3, <1>4, <1>5
     DEF LockInv, Exclusive, StillNull, WillBeFreed, OneRegex, At, Critical

\* The discard of the VCL frees all that vmod_header has.
LEMMA DiscardLock ==
  ASSUME CallInv, LockInv, NEW v \in Vcl, Discard(v)
  PROVE  LockInv'
<1>0. /\ vcl \in [Vcl -> VclType] /\ heap \subseteq Regex
      /\ \A t \in Thread : InCall(t)
  BY DEF CallInv, TypeOK, Sound
<1>1. /\ \A t \in Thread : th[t].pc # "idle" => th[t].site[1] # v
      /\ vcl' = [vcl EXCEPT ![v].loaded = FALSE]
      /\ heap' = heap \ {priv[<<v, k>>].priv : k \in {i \in Kind : priv[<<v, i>>].free}}
      /\ priv' = [s \in Site |-> IF s[1] = v THEN NoPriv ELSE priv[s]]
      /\ mutex' = mutex /\ th' = th
  BY DEF Discard
<1>2. Exclusive'
  BY <1>1 DEF LockInv, Exclusive
<1>3. StillNull'
  <2> SUFFICES ASSUME NEW t \in Thread, th[t].pc = "re_init"
               PROVE  priv'[th[t].site].priv = NULL
    BY <1>1 DEF StillNull, At, Priv
  <2>1. th[t].site \in Site
    BY <1>0 DEF InCall
  <2>2. priv'[th[t].site] = priv[th[t].site]
    BY <1>1, <2>1
  <2> QED
    BY <2>2 DEF LockInv, StillNull, At, Priv
<1>4. WillBeFreed'
  <2> SUFFICES ASSUME NEW s \in Site, s[2] = "header", priv'[s].priv # NULL
               PROVE  priv'[s].free \/ \E t \in Thread : th[t].pc = "free" /\ th[t].site = s
    BY <1>1 DEF WillBeFreed, At
  <2>1. priv'[s] = priv[s]
    BY <1>1 DEF NoPriv
  <2> QED
    BY <2>1 DEF LockInv, WillBeFreed, At
<1>5. OneRegex'
  <2> SUFFICES ASSUME NEW b \in heap, b \in heap', b.site[2] = "header"
               PROVE  priv'[b.site].priv = b /\ vcl'[b.site[1]].loaded
    BY <1>1 DEF OneRegex
  <2>1. b \in Regex /\ b.site \in Site /\ b.site[1] \in Vcl
    BY <1>0 DEF Regex, Site
  <2>2. priv[b.site].priv = b /\ vcl[b.site[1]].loaded
    BY DEF LockInv, OneRegex
  <2>3. b.site[1] # v
    <3> SUFFICES ASSUME b.site[1] = v
                 PROVE  FALSE
      OBVIOUS
    <3>1. b.site = <<v, "header">>
      BY <2>1 DEF Site
    <3>2. b # NULL
      BY <2>1, NullAssumption
    <3>3. \A t \in Thread : ~(At(t, "free") /\ th[t].site = b.site)
      BY <1>1 DEF At
    <3>4. priv[b.site].free
      BY <2>1, <2>2, <3>2, <3>3 DEF LockInv, WillBeFreed
    <3> QED
      BY <1>1, <2>2, <3>1, <3>4 DEF Kind
  <2> QED
    BY <1>0, <1>1, <2>1, <2>2, <2>3
<1> QED
  BY <1>2, <1>3, <1>4, <1>5 DEF LockInv

LEMMA GoLock ==
  ASSUME CallInv, LockInv, NEW t \in Thread,
         header_test(t) \/ header_lock(t) \/ header_recheck(t) \/ header_unlock(t) \/ body_test(t)
  PROVE  LockInv'
<1>0. th \in [Thread -> ThType] /\ heap \subseteq Regex /\ mutex \in Thread \cup {NULL}
  BY DEF CallInv, TypeOK
<1>1. vcl' = vcl /\ priv' = priv /\ heap' = heap
  BY DEF header_test, header_lock, header_recheck, header_unlock, body_test
<1>2. PICK l \in {"lock", "use", "recheck", "re_init", "unlock", "compile"} :
        /\ Goto(t, l)
        /\ \/ th[t].pc \in {"test", "btest"} /\ l \in {"lock", "use", "compile"} /\ mutex' = mutex
           \/ th[t].pc = "lock" /\ l = "recheck" /\ mutex = NULL /\ mutex' = t
           \/ /\ th[t].pc = "recheck" /\ mutex' = mutex
              /\ l = IF Priv(t) = NULL THEN "re_init" ELSE "unlock"
           \/ th[t].pc = "unlock" /\ l = "use" /\ mutex' = NULL
  BY DEF header_test, header_lock, header_recheck, header_unlock, body_test, At
<1>3. /\ \A q \in Thread : q # t => th'[q] = th[q]
      /\ th'[t].pc = l /\ th'[t].site = th[t].site
  <2>1. l \in {"idle", "use", "match"} \cup HeaderPc \cup BodyPc
    BY DEF HeaderPc, BodyPc, Critical
  <2> QED
    BY <1>0, <1>2, <2>1, GotoIs
<1>4. Exclusive'
  <2>1. \A q \in Thread : th[q].pc \in Critical => mutex = q
    BY DEF LockInv, Exclusive
  <2> SUFFICES ASSUME NEW q \in Thread, th'[q].pc \in Critical
               PROVE  mutex' = q
    BY DEF Exclusive
  <2>2. CASE q = t
    BY <1>2, <1>3, <2>1, <2>2 DEF Critical
  <2>3. CASE q # t
    <3>1. mutex = q
      BY <1>3, <2>1, <2>3
    <3> QED
      BY <1>2, <2>1, <2>3, <3>1, CallSiteAssumption DEF Critical
  <2> QED
    BY <2>2, <2>3
<1>5. th'[t].pc = "re_init" => Priv(t)' = NULL
  BY <1>1, <1>2, <1>3 DEF Priv
<1>6. th[t].pc # "free"
  BY <1>2
<1> QED
  BY <1>0, <1>1, <1>3, <1>4, <1>5, <1>6, LockKeeps

LEMMA ReInitLock ==
  ASSUME CallInv, LockInv, NEW t \in Thread, header_re_init(t)
  PROVE  LockInv'
<1>0. /\ th \in [Thread -> ThType] /\ priv \in [Site -> PrivType] /\ heap \subseteq Regex
      /\ \A q \in Thread : InCall(q)
      /\ \A q \in Thread : th[q].pc \in Critical => mutex = q
  BY DEF CallInv, TypeOK, Sound, LockInv, Exclusive
<1> DEFINE s == th[t].site
           n == New(s)
<1>1. /\ th[t].pc = "re_init" /\ s \in Site /\ vcl[s[1]].loaded /\ priv[s].priv = NULL
  BY <1>0 DEF header_re_init, At, InCall, LockInv, StillNull, Priv
<1>2. n \in Regex /\ n # NULL /\ n.site = s
  BY <1>1, NewRegex
<1>3. /\ vcl' = vcl /\ mutex' = mutex /\ heap' = heap \cup {n} /\ Goto(t, "free")
      /\ priv' = [priv EXCEPT ![s] = [priv[s] EXCEPT !.priv = n]]
  BY <1>0, <1>1 DEF header_re_init
<1> HIDE DEF n
<1>4. /\ \A q \in Thread : q # t => th'[q] = th[q]
      /\ th'[t].pc = "free" /\ th'[t].site = s
  BY <1>0, <1>3, GotoIs DEF HeaderPc, Critical
<1>5. priv'[s].priv = n /\ \A q \in Site : q # s => priv'[q] = priv[q]
  BY <1>0, <1>1, <1>3 DEF PrivType
<1>6. \A q \in Thread : q # t => th[q].pc \notin Critical
  BY <1>0, <1>1 DEF Critical
<1>7. Exclusive'
  BY <1>0, <1>1, <1>3, <1>4, <1>6 DEF Exclusive, Critical
<1>8. StillNull'
  BY <1>4, <1>6 DEF StillNull, At, Critical
<1>9. WillBeFreed'
  <2> SUFFICES ASSUME NEW q \in Site, q[2] = "header", priv'[q].priv # NULL
               PROVE  priv'[q].free \/ \E p \in Thread : th'[p].pc = "free" /\ th'[p].site = q
    BY DEF WillBeFreed, At
  <2>1. CASE q = s
    BY <1>4, <2>1
  <2>2. CASE q # s
    <3>1. priv'[q] = priv[q]
      BY <1>5, <2>2
    <3>2. \A p \in Thread : ~(th[p].pc = "free" /\ th[p].site = q)
      BY <1>1, <1>6 DEF Critical
    <3> QED
      BY <3>1, <3>2 DEF LockInv, WillBeFreed, At
  <2> QED
    BY <2>1, <2>2
<1>10. OneRegex'
  <2> SUFFICES ASSUME NEW b \in heap', b.site[2] = "header"
               PROVE  priv'[b.site].priv = b /\ vcl'[b.site[1]].loaded
    BY DEF OneRegex
  <2>1. CASE b = n
    BY <1>1, <1>2, <1>3, <1>5, <2>1
  <2>2. CASE b # n
    <3>1. b \in heap /\ b.site \in Site /\ b # NULL
      BY <1>0, <1>3, <2>2, NullAssumption DEF Regex
    <3>2. priv[b.site].priv = b /\ vcl[b.site[1]].loaded
      BY <3>1 DEF LockInv, OneRegex
    <3>3. b.site # s
      BY <1>1, <3>1, <3>2
    <3> QED
      BY <1>3, <1>5, <3>1, <3>2, <3>3
  <2> QED
    BY <2>1, <2>2
<1> QED
  BY <1>7, <1>8, <1>9, <1>10 DEF LockInv

LEMMA FreeLock ==
  ASSUME CallInv, LockInv, NEW t \in Thread, header_free(t)
  PROVE  LockInv'
<1>0. /\ th \in [Thread -> ThType] /\ priv \in [Site -> PrivType] /\ heap \subseteq Regex
      /\ \A q \in Thread : InCall(q)
      /\ \A q \in Thread : th[q].pc \in Critical => mutex = q
  BY DEF CallInv, TypeOK, Sound, LockInv, Exclusive
<1> DEFINE s == th[t].site
<1>1. th[t].pc = "free" /\ s \in Site
  BY <1>0 DEF header_free, At, InCall
<1>2. /\ vcl' = vcl /\ mutex' = mutex /\ heap' = heap /\ Goto(t, "unlock")
      /\ priv' = [priv EXCEPT ![s] = [priv[s] EXCEPT !.free = TRUE]]
  BY <1>0, <1>1 DEF header_free
<1>3. /\ \A q \in Thread : q # t => th'[q] = th[q]
      /\ th'[t].pc = "unlock" /\ th'[t].site = s
  BY <1>0, <1>2, GotoIs DEF HeaderPc, Critical
<1>4. /\ priv'[s].free /\ \A q \in Site : priv'[q].priv = priv[q].priv
      /\ \A q \in Site : q # s => priv'[q] = priv[q]
  BY <1>0, <1>1, <1>2 DEF PrivType
<1>5. \A q \in Thread : q # t => th[q].pc \notin Critical
  BY <1>0, <1>1 DEF Critical
<1>6. Exclusive'
  BY <1>0, <1>1, <1>2, <1>3, <1>5 DEF Exclusive, Critical
<1>7. StillNull'
  BY <1>3, <1>5 DEF StillNull, At, Critical
<1>8. WillBeFreed'
  <2> SUFFICES ASSUME NEW q \in Site, q # s, q[2] = "header", priv[q].priv # NULL
               PROVE  priv'[q].free
    BY <1>4 DEF WillBeFreed, At
  <2>1. \A p \in Thread : ~(th[p].pc = "free" /\ th[p].site = q)
    BY <1>1, <1>5 DEF Critical
  <2> QED
    BY <1>4, <2>1 DEF LockInv, WillBeFreed, At
<1>9. OneRegex'
  <2>1. \A b \in heap : b.site \in Site
    BY <1>0 DEF Regex
  <2> QED
    BY <1>2, <1>4, <2>1 DEF LockInv, OneRegex
<1> QED
  BY <1>6, <1>7, <1>8, <1>9 DEF LockInv

LEMMA RestLock ==
  ASSUME CallInv, LockInv, NEW t \in Thread,
         \/ body_compile(t) \/ body_store(t) \/ use(t) \/ match(t)
         \/ \E s \in Site : Call(t, s)
  PROVE  LockInv'
<1>0. /\ th \in [Thread -> ThType] /\ priv \in [Site -> PrivType] /\ heap \subseteq Regex
      /\ InCall(t) /\ Exclusive
  BY DEF CallInv, TypeOK, Sound, LockInv
<1>1. vcl' = vcl /\ mutex' = mutex /\ th[t].pc \notin Critical
  BY DEF body_compile, body_store, use, match, Call, At, Critical
<1>2. th'[t].pc \in {"idle", "store", "use", "match", "test", "btest"}
      /\ \A q \in Thread : q # t => th'[q] = th[q]
  <2>1. CASE body_compile(t)
    BY <1>0, <2>1 DEF body_compile, ThType, Idle
  <2>2. CASE body_store(t)
    BY <1>0, <2>2 DEF body_store, ThType
  <2>3. CASE use(t)
    BY <1>0, <2>3 DEF use, ThType
  <2>4. CASE match(t)
    BY <1>0, <2>4 DEF match, Idle
  <2>5. CASE \E s \in Site : Call(t, s)
    <3>1. PICK s \in Site : Call(t, s)
      BY <2>5
    <3>2. th' = [th EXCEPT ![t] = [th[t] EXCEPT
                   !.pc = IF s[2] = "header" THEN "test" ELSE "btest", !.site = s]]
      BY <1>0, <3>1 DEF Call
    <3> QED
      BY <1>0, <3>2 DEF ThType
  <2> QED
    BY <2>1, <2>2, <2>3, <2>4, <2>5
<1>3. Exclusive'
  BY <1>0, <1>1, <1>2 DEF Exclusive, Critical
<1>4. \A s \in Site : s[2] = "header" => priv'[s] = priv[s]
  <2>1. CASE body_store(t)
    <3>1. th[t].site[2] = "body"
      BY <1>0, <2>1 DEF body_store, At, InCall, BodyPc
    <3> QED
      BY <1>0, <2>1, <3>1 DEF body_store
  <2> QED
    BY <2>1 DEF body_compile, use, match, Call
<1>5. heap' \subseteq Regex /\ \A b \in heap' : b.site[2] = "header" => b \in heap
  <2>1. CASE body_compile(t)
    <3>1. th[t].site \in Site /\ th[t].site[2] = "body"
      BY <1>0, <2>1 DEF body_compile, At, InCall, BodyPc
    <3>2. New(th[t].site) \in Regex /\ New(th[t].site).site = th[t].site
      BY <3>1, NewRegex
    <3>3. heap' \subseteq heap \cup {New(th[t].site)}
      BY <2>1 DEF body_compile
    <3> QED
      BY <1>0, <3>1, <3>2, <3>3
  <2> QED
    BY <1>0, <2>1 DEF body_store, use, match, Call
<1>6. th[t].pc # "free" /\ th'[t].pc # "re_init"
  BY <1>1, <1>2 DEF Critical
<1> QED
  BY <1>1, <1>2, <1>3, <1>4, <1>5, <1>6, LockKeeps

LEMMA LockNext ==
  ASSUME \A v, w \in Vcl : v = w
  PROVE  CallInv /\ LockInv /\ [Next]_vars => LockInv'
<1> SUFFICES ASSUME CallInv, LockInv, [Next]_vars
             PROVE  LockInv'
  OBVIOUS
<1>1. CASE \E v \in Vcl : event_function(v)
  BY <1>1, LoadLock
<1>2. CASE \E v \in Vcl : Discard(v)
  BY <1>2, DiscardLock
<1>3. CASE \E t \in Thread, s \in Site : Call(t, s)
  BY <1>3, RestLock
<1>4. CASE \E t \in Thread : ThreadStep(t)
  <2>1. PICK t \in Thread : ThreadStep(t)
    BY <1>4
  <2> QED
    BY <2>1, GoLock, ReInitLock, FreeLock, RestLock DEF ThreadStep
<1>5. CASE UNCHANGED vars
  BY <1>5 DEF vars, LockInv, Exclusive, StillNull, WillBeFreed, OneRegex, At, Priv
<1> QED
  BY <1>1, <1>2, <1>3, <1>4, <1>5 DEF Next

LEMMA LockInit == Init => LockInv
<1> SUFFICES ASSUME Init
             PROVE  LockInv
  OBVIOUS
<1>1. /\ heap = {} /\ \A t \in Thread : th[t].pc = "idle"
      /\ \A s \in Site : priv[s].priv = NULL
  BY DEF Init, Idle, NoPriv
<1> QED
  BY <1>1 DEF LockInv, Exclusive, StillNull, WillBeFreed, OneRegex, At, Critical

(***************************************************************************)
(* With one VCL, the double-checked initialisation of header_init_re       *)
(* compiles one regex per call site and life of the VCL, and the discard   *)
(* of the VCL frees it.  With two it does not: the load of the second      *)
(* initialises header_mutex while the first may be using it.               *)
(***************************************************************************)
THEOREM CallSiteOneRegex ==
  ASSUME \A v, w \in Vcl : v = w
  PROVE  Spec => []OneRegex
<1>1. CallInv /\ LockInv /\ [Next]_vars => LockInv'
  BY LockNext
<1>2. LockInv => OneRegex
  BY DEF LockInv
<1> QED
  BY <1>1, <1>2, CallInvariant, LockInit, PTL DEF Spec
=============================================================================

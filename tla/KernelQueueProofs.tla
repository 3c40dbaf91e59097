-------------------------- MODULE KernelQueueProofs --------------------------
(***************************************************************************)
(* Where the processes are, for every value of the constants: each one in  *)
(* the queue of its state, once; one unit of the degree per loaded one;    *)
(* and the interfaces, each with the orders that are on their way.         *)
(***************************************************************************)
EXTENDS KernelProofs, FiniteSetTheorems

USE ConstantesBienFormadas, NombresDistintos

-----------------------------------------------------------------------------
(* Queues *)

\* mqueue_push of a process that is not in the queue.
LEMMA AgregarSec ==
  ASSUME NEW s \in Seq(Pids), NEW p \in Pids, IsInjective(s), ~Contains(s, p)
  PROVE  /\ Append(s, p) \in Seq(Pids) /\ IsInjective(Append(s, p))
         /\ \A q : Contains(Append(s, p), q) <=> Contains(s, q) \/ q = p
<1> DEFINE t == Append(s, p)
           n == Len(s)
<1>1. /\ t \in Seq(Pids) /\ Len(t) = n + 1 /\ n \in Nat /\ t[n + 1] = p
      /\ DOMAIN t = 1 .. n + 1 /\ DOMAIN s = 1 .. n
      /\ \A k \in 1 .. n : t[k] = s[k]
  OBVIOUS
<1> HIDE DEF t, n
<1>2. ASSUME NEW j \in DOMAIN t, NEW k \in DOMAIN t, t[j] = t[k] PROVE j = k
  <2>1. j \in 1 .. n \/ j = n + 1 BY <1>1
  <2>2. k \in 1 .. n \/ k = n + 1 BY <1>1
  <2>3. \A i \in 1 .. n : s[i] # p BY DEF Contains, n
  <2>4. \A a, b \in 1 .. n : s[a] = s[b] => a = b BY <1>1 DEF IsInjective
  <2>5. QED BY <1>1, <1>2, <2>1, <2>2, <2>3, <2>4
<1>3. \A q : Contains(t, q) <=> Contains(s, q) \/ q = p
  <2>1. 1 .. n + 1 = 1 .. n \cup {n + 1} BY <1>1
  <2>2. QED BY <1>1, <2>1 DEF Contains, n
<1>4. IsInjective(t) BY <1>2 DEF IsInjective
<1>5. QED BY <1>1, <1>3, <1>4 DEF t

\* mqueue_pop of the first of a queue.
LEMMA SacarSec ==
  ASSUME NEW s \in Seq(Pids), s # <<>>, IsInjective(s)
  PROVE  /\ Tail(s) \in Seq(Pids) /\ IsInjective(Tail(s))
         /\ \A q : Contains(Tail(s), q) <=> Contains(s, q) /\ q # Head(s)
<1> DEFINE t == Tail(s)
           n == Len(s)
<1>1. /\ t \in Seq(Pids) /\ Len(t) = n - 1 /\ n \in Nat \ {0} /\ Head(s) = s[1]
      /\ DOMAIN t = 1 .. n - 1 /\ DOMAIN s = 1 .. n
      /\ \A k \in 1 .. n - 1 : t[k] = s[k + 1]
  OBVIOUS
<1> HIDE DEF t, n
<1>2. \A a, b \in 1 .. n : s[a] = s[b] => a = b BY <1>1 DEF IsInjective
<1>3. ASSUME NEW j \in DOMAIN t, NEW k \in DOMAIN t, t[j] = t[k] PROVE j = k
  <2>1. s[j + 1] = s[k + 1] /\ j + 1 \in 1 .. n /\ k + 1 \in 1 .. n BY <1>1, <1>3
  <2>2. j + 1 = k + 1 BY <1>2, <2>1
  <2>3. QED BY <1>1, <2>2
<1>4. ASSUME NEW q PROVE Contains(t, q) <=> Contains(s, q) /\ q # Head(s)
  <2>1. ASSUME NEW k \in 1 .. n - 1, t[k] = q PROVE Contains(s, q) /\ q # Head(s)
    <3>1. s[k + 1] = q /\ k + 1 \in 1 .. n /\ k + 1 # 1 /\ 1 \in 1 .. n BY <1>1, <2>1
    <3>2. QED BY <1>1, <1>2, <3>1 DEF Contains, n
  <2>2. ASSUME NEW k \in 1 .. n, s[k] = q, q # Head(s) PROVE Contains(t, q)
    <3>1. k # 1 BY <1>1, <2>2
    <3>2. k - 1 \in 1 .. n - 1 /\ (k - 1) + 1 = k BY <1>1, <3>1
    <3>3. t[k - 1] = q BY <1>1, <2>2, <3>2
    <3>4. QED BY <1>1, <3>2, <3>3 DEF Contains
  <2>3. QED BY <1>1, <2>1, <2>2 DEF Contains, n
<1>5. IsInjective(t) BY <1>3 DEF IsInjective
<1>6. QED BY <1>1, <1>4, <1>5 DEF t

\* list_remove_by_condition closes the gap: what follows moves one place.
LEMMA ExtraerPosiciones ==
  ASSUME NEW s \in Seq(Pids), NEW p, Contains(s, p)
  PROVE  \E k \in 1 .. Len(s) :
           /\ s[k] = p
           /\ Extraer(s, p) \in Seq(Pids) /\ Len(Extraer(s, p)) = Len(s) - 1
           /\ \A i \in 1 .. Len(s) - 1 : Extraer(s, p)[i] = IF i < k THEN s[i] ELSE s[i + 1]
<1> DEFINE k == CHOOSE n \in 1 .. Len(s) : s[n] = p
           n == Len(s)
           t == Extraer(s, p)
           a == SubSeq(s, 1, k - 1)
           b == SubSeq(s, k + 1, Len(s))
<1>1. k \in 1 .. n /\ s[k] = p BY DEF Contains
<1>2. t = a \o b BY DEF Extraer, RemoveAt
<1>3. n \in Nat /\ DOMAIN s = 1 .. n OBVIOUS
<1>4. t \in Seq(Pids) /\ Len(t) = n - 1 BY ExtraerTipo
<1> HIDE DEF k
<1>5. /\ a \in Seq(Pids) /\ Len(a) = k - 1
      /\ \A i \in 1 .. k - 1 : a[i] = s[i]
  BY <1>1
<1>6. /\ b \in Seq(Pids) /\ Len(b) = n - k
      /\ \A i \in 1 .. n - k : b[i] = s[k + i]
  BY <1>1
<1> HIDE DEF a, b, n, t
<1>7. \A i \in 1 .. n - 1 : t[i] = IF i < k THEN s[i] ELSE s[i + 1]
  <2> TAKE i \in 1 .. n - 1
  <2>1. t[i] = IF i <= Len(a) THEN a[i] ELSE b[i - Len(a)]
    <3>1. i \in 1 .. Len(a) + Len(b) BY <1>1, <1>3, <1>5, <1>6
    <3>2. QED BY <1>2, <1>5, <1>6, <3>1
  <2>2. CASE i < k
    <3>1. i \in 1 .. k - 1 /\ i <= Len(a) BY <1>1, <1>3, <1>5, <2>2
    <3>2. QED BY <1>5, <2>1, <2>2, <3>1
  <2>3. CASE ~(i < k)
    <3>1. ~(i <= Len(a)) /\ i - Len(a) \in 1 .. n - k /\ k + (i - Len(a)) = i + 1
      BY <1>1, <1>3, <1>5, <2>3
    <3>2. b[i - Len(a)] = s[i + 1] BY <1>6, <3>1
    <3>3. QED BY <2>1, <2>3, <3>1, <3>2
  <2>4. QED BY <2>2, <2>3
<1>8. QED BY <1>1, <1>4, <1>7 DEF t, n

\* It takes the process it looks for and no other.
LEMMA ExtraerSec ==
  ASSUME NEW s \in Seq(Pids), NEW p, Contains(s, p), IsInjective(s)
  PROVE  /\ Extraer(s, p) \in Seq(Pids) /\ IsInjective(Extraer(s, p))
         /\ \A q : Contains(Extraer(s, p), q) <=> Contains(s, q) /\ q # p
<1> DEFINE n == Len(s)
           t == Extraer(s, p)
<1>1. PICK k \in 1 .. n :
        /\ s[k] = p /\ t \in Seq(Pids) /\ Len(t) = n - 1
        /\ \A i \in 1 .. n - 1 : t[i] = IF i < k THEN s[i] ELSE s[i + 1]
  BY ExtraerPosiciones
<1>3. n \in Nat /\ DOMAIN s = 1 .. n OBVIOUS
<1>4. t \in Seq(Pids) /\ Len(t) = n - 1 BY <1>1
<1> HIDE DEF n, t
<1>7. \A i \in 1 .. n - 1 : t[i] = IF i < k THEN s[i] ELSE s[i + 1] BY <1>1
<1>8. \A x, y \in 1 .. n : s[x] = s[y] => x = y BY <1>3 DEF IsInjective
<1>9. DOMAIN t = 1 .. n - 1 BY <1>4
<1>10. ASSUME NEW x \in DOMAIN t, NEW y \in DOMAIN t, t[x] = t[y] PROVE x = y
  <2> DEFINE fx == IF x < k THEN x ELSE x + 1
             fy == IF y < k THEN y ELSE y + 1
  <2>1. fx \in 1 .. n /\ fy \in 1 .. n /\ t[x] = s[fx] /\ t[y] = s[fy]
    BY <1>1, <1>3, <1>7, <1>9
  <2>2. fx = fy BY <1>8, <1>10, <2>1
  <2>3. QED BY <1>1, <1>3, <1>9, <2>2
<1>11. ASSUME NEW q PROVE Contains(t, q) <=> Contains(s, q) /\ q # p
  <2>1. ASSUME NEW i \in 1 .. n - 1, t[i] = q PROVE Contains(s, q) /\ q # p
    <3> DEFINE f == IF i < k THEN i ELSE i + 1
    <3>1. f \in 1 .. n /\ f # k /\ s[f] = q BY <1>1, <1>3, <1>7, <2>1
    <3>2. q # p BY <1>1, <1>8, <3>1
    <3>3. QED BY <3>1, <3>2 DEF Contains, n
  <2>2. ASSUME NEW i \in 1 .. n, s[i] = q, q # p PROVE Contains(t, q)
    <3>1. i # k BY <1>1, <2>2
    <3> DEFINE g == IF i < k THEN i ELSE i - 1
    <3>2. g \in 1 .. n - 1 /\ (IF g < k THEN g ELSE g + 1) = i BY <1>1, <1>3, <3>1
    <3>3. t[g] = q BY <1>7, <2>2, <3>2
    <3>4. QED BY <1>4, <3>2, <3>3 DEF Contains
  <2>3. QED BY <1>4, <2>1, <2>2 DEF Contains, n
<1>12. IsInjective(t) BY <1>10 DEF IsInjective
<1>13. QED BY <1>4, <1>11, <1>12 DEF t

\* The queues a process is in, before and after a step.
LEMMA DondeFormula ==
  ASSUME NEW p
  PROVE  /\ \A c \in Colas : c \in Donde(p) <=> Contains(cola[c], p)
         /\ \A c \in Colas : c \in Donde(p)' <=> Contains(cola'[c], p)
         /\ Donde(p) \subseteq Colas /\ Donde(p)' \subseteq Colas
BY DEF Donde, Colas, Contains

\* What the queues look like: of processes, none twice in the same.
EnColas == cola \in [Colas -> Seq(Pids)] /\ \A c \in Colas : IsInjective(cola[c])

\* The others are where they were.
Aparte(h) == \A q : q # h => Donde(q)' = Donde(q)

\* The other queues are as they were.
Fuera(a, b) == \A c \in Colas \ {a, b} : cola'[c] = cola[c]

\* A process that is nowhere comes into a queue.
LEMMA DondeEntra ==
  ASSUME EnColas, NEW p \in Pids, NEW b \in Colas, Donde(p) = {},
         cola' = [cola EXCEPT ![b] = Append(@, p)]
  PROVE  /\ EnColas' /\ Donde(p)' = {b}
         /\ Aparte(p)
<1>1. cola[b] \in Seq(Pids) /\ IsInjective(cola[b]) /\ ~Contains(cola[b], p)
  BY DondeFormula DEF EnColas
<1>2. /\ cola'[b] = Append(cola[b], p) /\ \A c \in Colas : c # b => cola'[c] = cola[c]
      /\ DOMAIN cola' = Colas /\ cola' = [c \in Colas |-> cola'[c]] /\ Colas' = Colas
  BY DEF EnColas, Colas
<1>3. /\ cola'[b] \in Seq(Pids) /\ IsInjective(cola'[b])
      /\ \A q : Contains(cola'[b], q) <=> Contains(cola[b], q) \/ q = p
  BY <1>1, <1>2, AgregarSec
<1>4. \A c \in Colas : cola'[c] \in Seq(Pids) /\ IsInjective(cola'[c])
  BY <1>2, <1>3 DEF EnColas
<1>5. Donde(p)' = {b}
  <2>1. \A c \in Colas : c # b => ~Contains(cola'[c], p) BY <1>2, DondeFormula
  <2>2. QED BY <1>3, <2>1, DondeFormula
<1>6. ASSUME NEW q, q # p PROVE Donde(q)' = Donde(q)
  <2>1. \A c \in Colas : Contains(cola'[c], q) <=> Contains(cola[c], q) BY <1>2, <1>3, <1>6
  <2>2. \A c \in Colas : c \in Donde(q)' <=> c \in Donde(q) BY <2>1, DondeFormula
  <2>3. QED BY <2>2, DondeFormula
<1>7. EnColas' BY <1>2, <1>4 DEF EnColas, IsInjective
<1>8. QED BY <1>5, <1>6, <1>7 DEF Aparte

\* The first of a queue leaves it.
LEMMA DondeSale ==
  ASSUME EnColas, NEW a \in Colas, cola[a] # <<>>, NEW h, h = Head(cola[a]), Donde(h) = {a},
         cola' = [cola EXCEPT ![a] = Tail(@)]
  PROVE  /\ EnColas' /\ Donde(h)' = {}
         /\ Aparte(h)
<1>1. cola[a] \in Seq(Pids) /\ IsInjective(cola[a]) BY DEF EnColas
<1>2. /\ cola'[a] = Tail(cola[a]) /\ \A c \in Colas : c # a => cola'[c] = cola[c]
      /\ DOMAIN cola' = Colas /\ cola' = [c \in Colas |-> cola'[c]] /\ Colas' = Colas
  BY DEF EnColas, Colas
<1>3. /\ cola'[a] \in Seq(Pids) /\ IsInjective(cola'[a])
      /\ \A q : Contains(cola'[a], q) <=> Contains(cola[a], q) /\ q # h
  BY <1>1, <1>2, SacarSec
<1>4. \A c \in Colas : cola'[c] \in Seq(Pids) /\ IsInjective(cola'[c])
  BY <1>2, <1>3 DEF EnColas
<1>5. Donde(h)' = {}
  <2>1. \A c \in Colas : c # a => ~Contains(cola'[c], h) BY <1>2, DondeFormula
  <2>2. QED BY <1>3, <2>1, DondeFormula
<1>6. ASSUME NEW q, q # h PROVE Donde(q)' = Donde(q)
  <2>1. \A c \in Colas : Contains(cola'[c], q) <=> Contains(cola[c], q) BY <1>2, <1>3, <1>6
  <2>2. \A c \in Colas : c \in Donde(q)' <=> c \in Donde(q) BY <2>1, DondeFormula
  <2>3. QED BY <2>2, DondeFormula
<1>7. EnColas' BY <1>2, <1>4 DEF EnColas, IsInjective
<1>8. QED BY <1>5, <1>6, <1>7 DEF Aparte

\* A process goes from a queue, out of the first place or any, to the end of
\* another.
LEMMA DondeCambia ==
  ASSUME EnColas, NEW a \in Colas, NEW b \in Colas, a # b, NEW h \in Pids, Donde(h) = {a},
         NEW s, s \in Seq(Pids), IsInjective(s),
         \A q : Contains(s, q) <=> Contains(cola[a], q) /\ q # h,
         cola' = [cola EXCEPT ![a] = s, ![b] = Append(@, h)]
  PROVE  /\ EnColas' /\ Donde(h)' = {b}
         /\ Aparte(h)
         /\ cola'[b] = Append(cola[b], h)
         /\ Fuera(a, b)
<1>1. cola[b] \in Seq(Pids) /\ IsInjective(cola[b]) /\ ~Contains(cola[b], h)
  BY DondeFormula DEF EnColas
<1>2. /\ cola'[a] = s /\ cola'[b] = Append(cola[b], h)
      /\ \A c \in Colas : c # a /\ c # b => cola'[c] = cola[c]
      /\ DOMAIN cola' = Colas /\ cola' = [c \in Colas |-> cola'[c]] /\ Colas' = Colas
  BY DEF EnColas, Colas
<1>3. /\ cola'[b] \in Seq(Pids) /\ IsInjective(cola'[b])
      /\ \A q : Contains(cola'[b], q) <=> Contains(cola[b], q) \/ q = h
  BY <1>1, <1>2, AgregarSec
<1>4. \A c \in Colas : cola'[c] \in Seq(Pids) /\ IsInjective(cola'[c])
  BY <1>2, <1>3 DEF EnColas
<1>5. Donde(h)' = {b}
  <2>1. \A c \in Colas : c # b => ~Contains(cola'[c], h) BY <1>2, DondeFormula
  <2>2. QED BY <1>3, <2>1, DondeFormula
<1>6. ASSUME NEW q, q # h PROVE Donde(q)' = Donde(q)
  <2>1. \A c \in Colas : Contains(cola'[c], q) <=> Contains(cola[c], q) BY <1>2, <1>3, <1>6
  <2>2. \A c \in Colas : c \in Donde(q)' <=> c \in Donde(q) BY <2>1, DondeFormula
  <2>3. QED BY <2>2, DondeFormula
<1>7. EnColas' BY <1>2, <1>4 DEF EnColas, IsInjective
<1>8. QED BY <1>2, <1>5, <1>6, <1>7 DEF Aparte, Fuera

\* mqueue_push(b, mqueue_pop(a)).
LEMMA DondePasa ==
  ASSUME EnColas, NEW a \in Colas, NEW b \in Colas, a # b, cola[a] # <<>>,
         NEW p, p = Head(cola[a]), Donde(p) = {a}, Pasa(p, a, b)
  PROVE  /\ EnColas' /\ Donde(p)' = {b}
         /\ Aparte(p)
         /\ cola'[a] = Tail(cola[a]) /\ cola'[b] = Append(cola[b], p)
         /\ Fuera(a, b)
<1>1. cola[a] \in Seq(Pids) /\ IsInjective(cola[a]) /\ p \in Pids BY DEF EnColas
<1>2. ASSUME NEW h \in Pids, h = p, NEW s, s = Tail(cola[a])
      PROVE  /\ s \in Seq(Pids) /\ IsInjective(s) /\ Donde(h) = {a}
             /\ \A q : Contains(s, q) <=> Contains(cola[a], q) /\ q # h
             /\ cola' = [cola EXCEPT ![a] = s, ![b] = Append(@, h)]
  BY <1>1, <1>2, SacarSec DEF Pasa, SinPrimero
<1>3. ASSUME NEW h \in Pids, NEW s, s \in Seq(Pids), IsInjective(s), Donde(h) = {a},
             \A q : Contains(s, q) <=> Contains(cola[a], q) /\ q # h,
             cola' = [cola EXCEPT ![a] = s, ![b] = Append(@, h)]
      PROVE  /\ EnColas' /\ Donde(h)' = {b}
             /\ Aparte(h)
             /\ cola'[b] = Append(cola[b], h)
             /\ Fuera(a, b)
  BY <1>3, DondeCambia
<1>4. cola'[a] = Tail(cola[a]) BY DEF Pasa, SinPrimero, EnColas
<1>5. QED BY <1>1, <1>2, <1>3, <1>4

\* extraer_proceso and the push to EXIT.
LEMMA DondeExtrae ==
  ASSUME EnColas, NEW a \in Colas, NEW b \in Colas, a # b, NEW h \in Pids, Donde(h) = {a},
         NEW s, s = Extraer(cola[a], h), cola' = [cola EXCEPT ![a] = s, ![b] = Append(@, h)]
  PROVE  /\ EnColas' /\ Donde(h)' = {b}
         /\ Aparte(h)
         /\ cola'[b] = Append(cola[b], h)
         /\ Fuera(a, b)
<1>1. cola[a] \in Seq(Pids) /\ IsInjective(cola[a]) /\ Contains(cola[a], h)
  BY DondeFormula DEF EnColas
<1>2. s \in Seq(Pids) /\ IsInjective(s) /\ \A q : Contains(s, q) <=> Contains(cola[a], q) /\ q # h
  BY <1>1, ExtraerSec
<1>3. QED BY <1>2, DondeCambia

-----------------------------------------------------------------------------
(* Where each process is *)

\* Only processes that have been created are in a queue.
PidsCreados == \A p \in Pids : Donde(p) # {} => p \in Creados

\* proceso_exit, from the moment the EXIT thread reads it until it removes it,
\* is the first of EXIT and has not ended before the thread says so.
SalienteEnOrden ==
  IF pc["exit"] \in {"orden", "pausa"} THEN largo.saliente = 0
  ELSE /\ largo.saliente \in Creados
       /\ cola["EXIT"] # <<>> /\ Head(cola["EXIT"]) = largo.saliente
       /\ IF pc["exit"] = "saca" THEN pcb[largo.saliente].estado = "EXIT"
          ELSE pcb[largo.saliente].estado \in {"READY", "EXEC", "BLOCKED"}

\* primer_elemento, while memory creates it, is in no queue.
EntranteEnOrden ==
  IF pc["largo"] = "creando"
  THEN largo.entrante \in Creados /\ Donde(largo.entrante) = {} /\ pcb[largo.entrante].estado = "NEW"
  ELSE largo.entrante = 0

\* A blocked process names the queue it waits in.
BloqueadoEn ==
  \A p \in Pids : pcb[p].estado = "BLOCKED" => pcb[p].cola_bloqueado \in Recursos \cup Interfaces

EnLugar == UnSoloLugar /\ PidsCreados /\ SalienteEnOrden /\ EntranteEnOrden /\ BloqueadoEn

\* The place of a process, case by case.
LEMMA LugarFormula ==
  ASSUME NEW p
  PROVE  EnSuLugar(p) <=>
           /\ pcb[p].estado = "EXIT" => Donde(p) = IF largo.saliente = p THEN {"EXIT"} ELSE {}
           /\ pcb[p].estado # "EXIT" /\ largo.entrante = p => Donde(p) = {} /\ pcb[p].estado = "NEW"
           /\ pcb[p].estado # "EXIT" /\ largo.entrante # p =>
                \E c \in LugaresDe(p) \cup {"EXIT"} : Donde(p) = {c}
BY DEF EnSuLugar

\* The same after the step.
LEMMA LugarFormulaDespues ==
  ASSUME NEW p
  PROVE  EnSuLugar(p)' <=>
           /\ pcb'[p].estado = "EXIT" => Donde(p)' = IF largo'.saliente = p THEN {"EXIT"} ELSE {}
           /\ pcb'[p].estado # "EXIT" /\ largo'.entrante = p => Donde(p)' = {} /\ pcb'[p].estado = "NEW"
           /\ pcb'[p].estado # "EXIT" /\ largo'.entrante # p =>
                \E c \in LugaresDe(p)' \cup {"EXIT"} : Donde(p)' = {c}
BY DEF EnSuLugar

\* A process found in a queue other than EXIT is nowhere else, and its state
\* names that queue.
LEMMA EnCola ==
  ASSUME TypeOK, EnLugar, NEW c \in Colas \ {"EXIT"}, NEW p \in Pids, Contains(cola[c], p)
  PROVE  /\ p \in Creados /\ Donde(p) = {c} /\ largo.entrante # p /\ pcb[p].estado # "EXIT"
         /\ c \in LugaresDe(p)
<1>1. c \in Donde(p) /\ Donde(p) # {} /\ Donde(p) # {"EXIT"}
  BY DondeFormula
<1>2. p \in Creados /\ EnSuLugar(p)
  BY <1>1 DEF EnLugar, PidsCreados, UnSoloLugar
<1>3. pcb[p].estado # "EXIT" /\ largo.entrante # p
  BY <1>1, <1>2, LugarFormula
<1>4. PICK d \in LugaresDe(p) \cup {"EXIT"} : Donde(p) = {d}
  BY <1>2, <1>3, LugarFormula
<1>5. d = c
  BY <1>1, <1>4
<1>6. QED BY <1>1, <1>2, <1>3, <1>4, <1>5

\* The state a queue stands for.
LEMMA EstadoDeCola ==
  ASSUME TypeOK, NEW p \in Pids, NEW c \in Colas, c \in LugaresDe(p)
  PROVE  /\ c = "NEW" => pcb[p].estado = "NEW"
         /\ c \in {"READY", "READY_VRR"} => pcb[p].estado = "READY"
         /\ c = "RUNNING" => pcb[p].estado = "EXEC"
         /\ c \in Recursos \cup Interfaces => pcb[p].estado = "BLOCKED" /\ pcb[p].cola_bloqueado = c
<1>1. pcb[p].cola_bloqueado \in Recursos \cup Interfaces \cup {Nulo}
  BY DEF TypeOK, PCBs
<1>2. \/ pcb[p].estado = "NEW" /\ c = "NEW"
      \/ pcb[p].estado = "READY" /\ c \in {"READY", "READY_VRR"}
      \/ pcb[p].estado = "EXEC" /\ c = "RUNNING"
      \/ pcb[p].estado = "BLOCKED" /\ c = pcb[p].cola_bloqueado
  BY DEF LugaresDe
<1>3. QED BY <1>1, <1>2 DEF Colas, ColasFijas

\* A step that leaves the long-term threads at the same stage.
Etapas ==
  /\ UNCHANGED <<pid, largo.saliente, largo.entrante>>
  /\ (pc'["exit"] \in {"orden", "pausa"}) <=> (pc["exit"] \in {"orden", "pausa"})
  /\ (pc'["exit"] = "saca") <=> (pc["exit"] = "saca")
  /\ (pc'["largo"] = "creando") <=> (pc["largo"] = "creando")

\* A step in which nobody moves.
LEMMA LugarQuieto ==
  ASSUME TypeOK, EnLugar, Etapas, UNCHANGED cola,
         \A q \in Pids : pcb'[q].estado = pcb[q].estado /\ pcb'[q].cola_bloqueado = pcb[q].cola_bloqueado
  PROVE  EnLugar'
<1>1. Creados' = Creados /\ Creados \subseteq Pids
  BY DEF Etapas, Creados, TypeOK, Pids
<1>2. \A q : Donde(q)' = Donde(q)
  BY DEF Donde, Colas
<1>3. ASSUME NEW q \in Pids, EnSuLugar(q) PROVE EnSuLugar(q)'
  <2>1. LugaresDe(q)' = LugaresDe(q)
    BY <1>3 DEF LugaresDe
  <2>2. QED BY <1>2, <1>3, <2>1, LugarFormula, LugarFormulaDespues DEF Etapas
<1>4. UnSoloLugar'
  BY <1>1, <1>3 DEF EnLugar, UnSoloLugar, Colas
<1>5. PidsCreados'
  BY <1>1, <1>2 DEF EnLugar, PidsCreados
<1>6. SalienteEnOrden'
  BY <1>1 DEF EnLugar, SalienteEnOrden, Etapas
<1>7. EntranteEnOrden'
  <2>1. ASSUME NEW e, e = largo.entrante, pc["largo"] = "creando"
        PROVE  e \in Creados /\ Donde(e) = {} /\ pcb[e].estado = "NEW"
    BY <2>1 DEF EnLugar, EntranteEnOrden
  <2>2. ASSUME NEW e, e = largo.entrante, pc["largo"] = "creando"
        PROVE  largo'.entrante = e /\ e \in Creados' /\ Donde(e)' = {} /\ pcb'[e].estado = "NEW"
    BY <1>1, <1>2, <2>1, <2>2 DEF Etapas
  <2>3. QED BY <2>2 DEF EnLugar, EntranteEnOrden, Etapas, Donde
<1>8. BloqueadoEn'
  BY DEF EnLugar, BloqueadoEn
<1>9. QED BY <1>4, <1>5, <1>6, <1>7, <1>8 DEF EnLugar

\* Process h goes from queue a to queue b, where its new state belongs.
Traslado(h, a, b) ==
  /\ h \in Pids /\ a \in Colas \ {"EXIT"} /\ Donde(h) = {a} /\ Donde(h)' = {b}
  /\ Aparte(h)
  /\ \A q \in Pids : q # h => /\ pcb'[q].estado = pcb[q].estado
                              /\ pcb'[q].cola_bloqueado = pcb[q].cola_bloqueado
  /\ pcb'[h].estado # "EXIT" /\ b \in LugaresDe(h)' \cup {"EXIT"}
  /\ pcb'[h].estado = "BLOCKED" => pcb'[h].cola_bloqueado \in Recursos \cup Interfaces
  /\ cola'["EXIT"] = IF b = "EXIT" THEN Append(cola["EXIT"], h) ELSE cola["EXIT"]

\* The first of a queue is in it.
LEMMA PrimeroDeCola ==
  ASSUME NEW s \in Seq(Pids), s # <<>>
  PROVE  Head(s) \in Pids /\ Contains(s, Head(s))
<1>1. Head(s) = s[1] /\ 1 \in 1 .. Len(s) /\ DOMAIN s = 1 .. Len(s) /\ s[1] \in Pids
  OBVIOUS
<1>2. QED BY <1>1 DEF Contains

\* The first of a queue is still the first when another one comes in.
LEMMA PrimeroQueda ==
  ASSUME NEW s \in Seq(Pids), NEW h \in Pids, s # <<>>
  PROVE  Append(s, h) # <<>> /\ Head(Append(s, h)) = Head(s)
OBVIOUS

\* A step that moves one process keeps everybody in place, the one that is
\* leaving included.
LEMMA LugarTraslado ==
  ASSUME TypeOK, EnLugar, Etapas, EnColas', NEW h, NEW a, NEW b, Traslado(h, a, b)
  PROVE  EnLugar'
<1>1. Creados' = Creados /\ Creados \subseteq Pids
  BY DEF Etapas, Creados, TypeOK, Pids
<1>2. h \in Pids /\ a \in Colas /\ a # "EXIT" /\ Donde(h) = {a} /\ Donde(h)' = {b}
  BY DEF Traslado
<1>3. Contains(cola[a], h)
  BY <1>2, DondeFormula
<1>4. h \in Creados /\ largo.entrante # h /\ pcb[h].estado # "EXIT"
  BY <1>2, <1>3, EnCola
<1>5. ASSUME NEW q \in Pids, q # h
      PROVE  Donde(q)' = Donde(q) /\ pcb'[q].estado = pcb[q].estado /\ LugaresDe(q)' = LugaresDe(q)
  BY <1>5 DEF Traslado, Aparte, LugaresDe
<1>6. ASSUME NEW q \in Creados PROVE EnSuLugar(q)'
  <2>1. q \in Pids /\ EnSuLugar(q)
    BY <1>1 DEF EnLugar, UnSoloLugar
  <2>2. CASE q # h
    <3>1. Donde(q)' = Donde(q) /\ pcb'[q].estado = pcb[q].estado /\ LugaresDe(q)' = LugaresDe(q)
      BY <1>5, <2>1, <2>2
    <3>2. largo'.saliente = largo.saliente /\ largo'.entrante = largo.entrante
      BY DEF Etapas
    <3>3. QED BY <2>1, <3>1, <3>2, LugarFormula, LugarFormulaDespues
  <2>3. CASE q = h
    <3>1. largo'.entrante # h /\ pcb'[h].estado # "EXIT" /\ b \in LugaresDe(h)' \cup {"EXIT"}
      BY <1>4 DEF Etapas, Traslado
    <3>2. EnSuLugar(h)'
      BY <1>2, <3>1, LugarFormulaDespues
    <3>3. QED BY <2>3, <3>2
  <2>4. QED BY <2>2, <2>3
<1>7. UnSoloLugar'
  BY <1>1, <1>6 DEF UnSoloLugar, EnColas
<1>8. PidsCreados'
  BY <1>1, <1>4, <1>5 DEF EnLugar, PidsCreados
<1>9. SalienteEnOrden'
  <2>1. CASE pc["exit"] \in {"orden", "pausa"}
    BY <2>1 DEF EnLugar, SalienteEnOrden, Etapas
  <2>2. ASSUME NEW s, s = largo.saliente, pc["exit"] \notin {"orden", "pausa"}
        PROVE  SalienteEnOrden'
    <3>1. s \in Creados /\ cola["EXIT"] # <<>> /\ Head(cola["EXIT"]) = s
      BY <2>2 DEF EnLugar, SalienteEnOrden
    <3>2. cola["EXIT"] \in Seq(Pids)
      BY DEF TypeOK, Colas, ColasFijas
    <3>3. Contains(cola["EXIT"], s)
      BY <3>1, <3>2 DEF Contains
    <3>4. "EXIT" \in Donde(s)
      BY <3>3, DondeFormula DEF Colas, ColasFijas
    <3>5. s # h
      BY <1>2, <3>4
    <3>6. pcb'[s].estado = pcb[s].estado
      BY <1>1, <1>5, <3>1, <3>5
    <3>7. cola'["EXIT"] # <<>> /\ Head(cola'["EXIT"]) = s
      BY <1>2, <3>1, <3>2, PrimeroQueda DEF Traslado
    <3>8. largo'.saliente = s /\ s \in Creados'
      BY <1>1, <2>2, <3>1 DEF Etapas
    <3>9. /\ (pc'["exit"] = "saca") <=> (pc["exit"] = "saca")
          /\ ~(pc'["exit"] \in {"orden", "pausa"})
      BY <2>2 DEF Etapas
    <3>10. IF pc["exit"] = "saca" THEN pcb[s].estado = "EXIT"
           ELSE pcb[s].estado \in {"READY", "EXEC", "BLOCKED"}
      BY <2>2 DEF EnLugar, SalienteEnOrden
    <3>11. QED BY <3>6, <3>7, <3>8, <3>9, <3>10 DEF SalienteEnOrden
  <2>3. QED BY <2>1, <2>2
<1>10. EntranteEnOrden'
  <2>1. CASE pc["largo"] # "creando"
    BY <2>1 DEF EnLugar, EntranteEnOrden, Etapas
  <2>2. ASSUME NEW e, e = largo.entrante, pc["largo"] = "creando"
        PROVE  largo'.entrante = e /\ e \in Creados' /\ Donde(e)' = {} /\ pcb'[e].estado = "NEW"
    <3>1. e \in Creados /\ Donde(e) = {} /\ pcb[e].estado = "NEW"
      BY <2>2 DEF EnLugar, EntranteEnOrden
    <3>2. e # h
      BY <1>2, <3>1
    <3>3. QED BY <1>1, <1>5, <2>2, <3>1, <3>2 DEF Etapas
  <2>3. QED BY <2>1, <2>2 DEF EntranteEnOrden, Etapas, Donde
<1>11. BloqueadoEn'
  BY DEF EnLugar, BloqueadoEn, Traslado
<1>12. QED BY <1>7, <1>8, <1>9, <1>10, <1>11 DEF EnLugar

-----------------------------------------------------------------------------
(* What the threads know of the processes *)

\* One process is in RUNNING from the moment it is chosen until its burst
\* ends, and from the eviction on it is the one the thread treats.
RunningEnOrden ==
  IF pc["corto"] \in {"envia", "recibe"} THEN Len(cola["RUNNING"]) = 1
  ELSE IF \/ pc["corto"] \in {"trata", "wait", "signal", "signal_mediano", "io"}
          \/ pc["corto"] \in {"responde", "limpia"} /\ corto.respuesta = "CONTINUAR"
  THEN cola["RUNNING"] = <<corto.proceso>>
  ELSE cola["RUNNING"] = <<>>

\* FINALIZAR_PROCESO names a process that exists.
ObjetivoCreado == consola.comando = "FINALIZAR_PROCESO" => consola.objetivo \in Creados

\* A queue of one process.
LEMMA UnoSolo ==
  /\ \A p \in Pids : Len(Append(<<>>, p)) = 1
  /\ \A s \in Seq(Pids) : Len(s) = 1 => s = <<Head(s)>> /\ Head(s) \in Pids
  /\ \A p \in Pids : <<p>> # <<>> /\ Head(<<p>>) = p /\ Tail(<<p>>) = <<>>
OBVIOUS

\* The short-term scheduler keeps RUNNING in order.
LEMMA RunningPaso ==
  ASSUME TypeOK, Control, RunningEnOrden, [Next]_vars
  PROVE  RunningEnOrden'
<1> USE DEF En
<1>1. /\ CortoEnOrden
      /\ pc \in [Hilos -> Etiquetas] /\ "corto" \in Hilos
      /\ corto \in TCorto
      /\ cola \in [Colas -> Seq(Pids)] /\ {"RUNNING", "EXIT", "READY", "READY_VRR"} \subseteq Colas
      /\ Recursos \subseteq Colas /\ Interfaces \subseteq Colas
      /\ "RUNNING" \notin Recursos \cup Interfaces
  BY DEF TypeOK, Control, Hilos, HilosFijos, Colas, ColasFijas
<1>2. cola["RUNNING"] \in Seq(Pids)
  BY <1>1
<1>3. CASE EsperaOrdenCorto \/ NoHayListos
  BY <1>1, <1>3 DEF EsperaOrdenCorto, NoHayListos, Va, procesos, locales, RunningEnOrden
<1>4. CASE EligeProceso
  <2> DEFINE o == ColaDeListos
  <2>1. o \in {"READY", "READY_VRR"}
    BY DEF ColaDeListos
  <2>2. cola[o] # <<>> /\ Pasa(Head(cola[o]), o, "RUNNING")
    BY <1>4 DEF EligeProceso
  <2> HIDE DEF o
  <2>3. PICK p \in Pids : p = Head(cola[o])
    BY <1>1, <2>1, <2>2
  <2>4. cola'["RUNNING"] = Append(<<>>, p)
    BY <1>1, <1>4, <2>1, <2>2, <2>3 DEF Pasa, RunningEnOrden, EligeProceso
  <2>5. pc'["corto"] = "envia"
    BY <1>1, <1>4 DEF EligeProceso, Va
  <2>6. QED BY <2>4, <2>5, UnoSolo DEF RunningEnOrden
<1>5. CASE EnviaProcesoACpu
  BY <1>1, <1>5 DEF EnviaProcesoACpu, Va, procesos, RunningEnOrden
<1>6. CASE RecibeDesalojo
  <2>1. Len(cola["RUNNING"]) = 1 /\ cola'["RUNNING"] = cola["RUNNING"]
    BY <1>1, <1>6 DEF RecibeDesalojo, RunningEnOrden
  <2>2. cola["RUNNING"] = <<Head(cola["RUNNING"])>>
    BY <1>2, <2>1, UnoSolo
  <2>3. pc'["corto"] = "trata" /\ corto'.proceso = Head(cola["RUNNING"])
    BY <1>1, <1>6 DEF RecibeDesalojo, Va
  <2>4. QED BY <2>1, <2>2, <2>3 DEF RunningEnOrden
\* The process in RUNNING leaves it for another queue.
<1>7. ASSUME NEW p, p = corto.proceso, NEW b \in Colas \ {"RUNNING"}, Pasa(p, "RUNNING", b),
             p \in Pids, cola["RUNNING"] = <<p>>
      PROVE  cola'["RUNNING"] = <<>>
  BY <1>1, <1>7, UnoSolo DEF Pasa, SinPrimero
<1>8. CASE TrataFin \/ TrataRecursoInvalido \/ TrataIOInvalida
  <2>1. /\ Pasa(corto.proceso, "RUNNING", "EXIT")
        /\ pc["corto"] = "trata" /\ pc'["corto"] = "avisa_exit"
    BY <1>1, <1>8 DEF TrataFin, TrataRecursoInvalido, TrataIOInvalida, Trata, MandaAExit, Va
  <2>2. corto.proceso \in Pids /\ cola["RUNNING"] = <<corto.proceso>>
    BY <1>1, <2>1 DEF CortoEnOrden, RunningEnOrden
  <2>3. QED BY <1>1, <1>7, <2>1, <2>2 DEF RunningEnOrden
<1>9. CASE AvisaExit
  BY <1>1, <1>9 DEF AvisaExit, Va, locales, RunningEnOrden, CortoEnOrden
<1>10. CASE TrataWait \/ TrataSignal
  BY <1>1, <1>10 DEF TrataWait, TrataSignal, Trata, Va, procesos, locales, RunningEnOrden
<1>11. CASE WaitBloquea
  <2>1. /\ Pasa(corto.proceso, "RUNNING", corto.arg)
        /\ pc["corto"] = "wait" /\ pc'["corto"] = "responde" /\ corto'.respuesta = "DESALOJAR"
    BY <1>1, <1>11 DEF WaitBloquea, Va, TCorto
  <2>2. corto.proceso \in Pids /\ cola["RUNNING"] = <<corto.proceso>> /\ corto.arg \in Recursos
    BY <1>1, <2>1 DEF CortoEnOrden, RunningEnOrden
  <2>3. cola'["RUNNING"] = <<>>
    <3>1. corto.arg \in Colas \ {"RUNNING"}
      BY <1>1, <2>2
    <3>2. QED BY <1>7, <2>1, <2>2, <3>1
  <2>4. QED BY <2>1, <2>3 DEF RunningEnOrden
<1>12. CASE WaitConcede
  BY <1>1, <1>12 DEF WaitConcede, Va, TCorto, RunningEnOrden
<1>13. CASE SignalDevuelve
  BY <1>1, <1>13 DEF SignalDevuelve, Va, locales, RunningEnOrden
<1>14. CASE SignalEntrega
  <2>1. cola'["RUNNING"] = cola["RUNNING"]
    BY <1>1, <1>14 DEF SignalEntrega, EntregaInstancia, Pasa, CortoEnOrden
  <2>2. pc["corto"] = "signal_mediano" /\ pc'["corto"] = "responde" /\ corto'.respuesta = "CONTINUAR"
        /\ corto'.proceso = corto.proceso
    BY <1>1, <1>14 DEF SignalEntrega, Va, TCorto
  <2>3. QED BY <2>1, <2>2 DEF RunningEnOrden
<1>15. CASE TrataFinQuantum
  <2>1. /\ Pasa(corto.proceso, "RUNNING", "READY") /\ corto' = corto
        /\ pc["corto"] = "trata" /\ pc'["corto"] = "limpia"
    BY <1>1, <1>15 DEF TrataFinQuantum, Trata, Va
  <2>2. corto.proceso \in Pids /\ cola["RUNNING"] = <<corto.proceso>> /\ corto.respuesta = "NINGUNA"
    BY <1>1, <2>1 DEF CortoEnOrden, RunningEnOrden
  <2>3. cola'["RUNNING"] = <<>>
    <3>1. "READY" \in Colas \ {"RUNNING"}
      BY <1>1
    <3>2. QED BY <1>7, <2>1, <2>2, <3>1
  <2>4. QED BY <2>1, <2>2, <2>3 DEF RunningEnOrden
<1>16. CASE TrataIO
  BY <1>1, <1>16 DEF TrataIO, Trata, Va, RunningEnOrden
<1>17. CASE IOBloquea
  <2>1. /\ Pasa(corto.proceso, "RUNNING", corto.arg) /\ corto' = corto
        /\ pc["corto"] = "io" /\ pc'["corto"] = "io_envia"
    BY <1>1, <1>17 DEF IOBloquea, Va, locales
  <2>2. corto.proceso \in Pids /\ cola["RUNNING"] = <<corto.proceso>> /\ corto.arg \in Interfaces
    BY <1>1, <2>1 DEF CortoEnOrden, RunningEnOrden
  <2>3. cola'["RUNNING"] = <<>>
    BY <1>1, <1>7, <2>1, <2>2
  <2>4. QED BY <2>1, <2>3 DEF RunningEnOrden
<1>18. CASE IOEnvia
  BY <1>1, <1>18 DEF IOEnvia, Va, locales, procesos, RunningEnOrden, CortoEnOrden
<1>19. CASE RespondeCpu
  BY <1>1, <1>19 DEF RespondeCpu, Va, locales, procesos, RunningEnOrden
<1>20. CASE LimpiaDesalojo
  <2>1. /\ pc["corto"] = "limpia" /\ cola' = cola
        /\ pc'["corto"] = IF corto.respuesta = "CONTINUAR" THEN "recibe" ELSE "orden"
    BY <1>1, <1>20 DEF LimpiaDesalojo, Va
  <2>2. Len(<<corto.proceso>>) = 1
    OBVIOUS
  <2>3. QED BY <2>1, <2>2 DEF RunningEnOrden
<1>21. CASE Corto
  BY <1>3, <1>4, <1>5, <1>6, <1>8, <1>9, <1>10, <1>11, <1>12, <1>13, <1>14, <1>15, <1>16, <1>17,
     <1>18, <1>19, <1>20, <1>21 DEF Corto
<1>22. UNCHANGED <<pc["corto"], corto, cola["RUNNING"]>> => RunningEnOrden'
  BY DEF RunningEnOrden
<1>23. CASE Usuario \/ Consola \/ Largo \/ Exit \/ \E i \in Interfaces : Manejador(i)
  <2>1. UNCHANGED cola["RUNNING"]
    BY <1>23, AjenoRunning
  <2>2. UNCHANGED <<pc["corto"], corto>>
    BY <1>1, <1>23, AjenoConsola, AjenoLargo, AjenoExit, AjenoManejador
       DEF locales, Hilos, HilosFijos
  <2>3. QED BY <1>22, <2>1, <2>2
<1>24. CASE Entorno \/ UNCHANGED vars
  BY <1>22, <1>24, AjenoEntorno DEF vars, procesos
<1>25. QED BY <1>21, <1>23, <1>24, PasosDelKernel

\* FINALIZAR_PROCESO is typed for a process that exists, and none is deleted.
LEMMA ObjetivoPaso ==
  ASSUME TypeOK, Control, ObjetivoCreado, [Next]_vars
  PROVE  ObjetivoCreado'
<1>1. consola \in TConsola /\ pc \in [Hilos -> Etiquetas] /\ pid \in 1 .. (MaxPid + 1)
  BY DEF TypeOK
<1>2. CASE UNCHANGED <<pid, consola>>
  BY <1>2 DEF ObjetivoCreado, Creados
<1>3. CASE IniciarProceso
  BY <1>1, <1>3 DEF IniciarProceso, locales, ObjetivoCreado, Creados
<1>4. ASSUME NEW p \in Creados, PideFinalizar(p) PROVE ObjetivoCreado'
  BY <1>1, <1>4 DEF PideFinalizar, PideComando, procesos, ObjetivoCreado, Creados, TConsola
<1>5. CASE PideComandoGlobal
  BY <1>1, <1>5 DEF PideComandoGlobal, PideComando, ObjetivoCreado, TConsola
<1>6. CASE IniciarPlanificacion
  BY <1>1, <1>6 DEF IniciarPlanificacion, procesos, ObjetivoCreado, Creados, TConsola
<1>7. ASSUME NEW g \in Grados, SubeMultiprogramacion(g) \/ PideBajarMultiprogramacion(g)
      PROVE  ObjetivoCreado'
  BY <1>1, <1>7 DEF SubeMultiprogramacion, PideBajarMultiprogramacion, procesos, ObjetivoCreado,
    Creados, TConsola, Control, ConsolaEnOrden, En
<1>8. CASE Usuario
  BY <1>3, <1>4, <1>5, <1>6, <1>7, <1>8 DEF Usuario
<1>9. CASE TomaPausada
  BY <1>1, <1>9 DEF TomaPausada, procesos, ObjetivoCreado, Creados, TConsola
<1>10. ASSUME NEW avisos, FinComando(avisos) PROVE ObjetivoCreado'
  BY <1>1, <1>10 DEF FinComando, ObjetivoCreado, TConsola
<1>11. CASE DetenerPlanificacion
  BY <1>1, <1>11 DEF DetenerPlanificacion, ObjetivoCreado, TConsola
<1>12. CASE FinalizarEnEjecucion \/ FinalizarCuelga \/ FinalizarNulo
  BY <1>2, <1>12 DEF FinalizarEnEjecucion, FinalizarCuelga, FinalizarNulo, procesos, locales
<1>13. CASE BajaMultiprogramacion
  BY <1>1, <1>13 DEF BajaMultiprogramacion, procesos, ObjetivoCreado, Creados, TConsola, Control,
    ConsolaEnOrden, En
<1>14. CASE Consola
  BY <1>9, <1>10, <1>11, <1>12, <1>13, <1>14
    DEF Consola, ProcesoEstado, FinalizarSinEfecto, MarcaPedidoFinalizacion, FinalizarExtrae
<1>15. CASE Corto
  BY <1>2, <1>15 DEF Corto, EsperaOrdenCorto, EligeProceso, NoHayListos, EnviaProcesoACpu,
    RecibeDesalojo, TrataFin, TrataRecursoInvalido, AvisaExit, TrataWait, WaitBloquea, WaitConcede,
    TrataSignal, SignalDevuelve, SignalEntrega, TrataFinQuantum, TrataIOInvalida, TrataIO,
    IOBloquea, IOEnvia, RespondeCpu, LimpiaDesalojo, MandaAExit, procesos, locales
<1>16. CASE Largo
  BY <1>2, <1>16 DEF Largo, EsperaOrdenLargo, TomaGrado, SacaDeNew, NewVacia, PasaAReady,
    procesos, locales
<1>17. CASE Exit
  BY <1>2, <1>17 DEF Exit, EsperaOrdenExit, ExitDesdeNew, ExitDesdeOtro, LiberaTomaInst,
    LiberaInstancia, LiberaMemoria, MemoriaLiberada, MarcaExit, SacaDeExit, procesos, locales
<1>18. ASSUME NEW i \in Interfaces, Manejador(i) PROVE ObjetivoCreado'
  BY <1>2, <1>18 DEF Manejador, RecibeIOLiberar, TomaMediano, DesbloqueaIO, NadieQueDesbloquear,
    AtiendeSiguiente, LiberaInterfaz, procesos, locales
<1>19. CASE Entorno \/ UNCHANGED vars
  BY <1>2, <1>19, AjenoEntorno DEF vars, procesos
<1>20. QED BY <1>8, <1>14, <1>15, <1>16, <1>17, <1>18, <1>19, PasosDelKernel

-----------------------------------------------------------------------------
(* The steps that move a process *)

\* Only the PCB of h changes its state, to the one queue b stands for.
Corresponde(h, b) ==
  /\ \A q \in Pids : q # h => /\ pcb'[q].estado = pcb[q].estado
                              /\ pcb'[q].cola_bloqueado = pcb[q].cola_bloqueado
  /\ \/ b = "EXIT" /\ pcb'[h].estado \in {"READY", "EXEC"}
     \/ b \in {"READY", "READY_VRR"} /\ pcb'[h].estado = "READY"
     \/ b = "RUNNING" /\ pcb'[h].estado = "EXEC"
     \/ /\ b \in Recursos \cup Interfaces
        /\ pcb'[h].estado = "BLOCKED" /\ pcb'[h].cola_bloqueado = b

\* Where the process belongs after the step.
LEMMA LugarNuevo ==
  ASSUME NEW h, NEW b, Corresponde(h, b)
  PROVE  /\ pcb'[h].estado # "EXIT" /\ b \in LugaresDe(h)' \cup {"EXIT"}
         /\ pcb'[h].estado = "BLOCKED" => pcb'[h].cola_bloqueado \in Recursos \cup Interfaces
<1>1. /\ pcb'[h].estado # "EXIT"
      /\ pcb'[h].estado = "BLOCKED" => pcb'[h].cola_bloqueado \in Recursos \cup Interfaces
  BY DEF Corresponde
<1>2. \/ b = "EXIT"
      \/ pcb'[h].estado = "READY" /\ b \in {"READY", "READY_VRR"}
      \/ pcb'[h].estado = "EXEC" /\ b = "RUNNING"
      \/ pcb'[h].estado = "BLOCKED" /\ b = pcb'[h].cola_bloqueado
  BY DEF Corresponde
<1>3. QED BY <1>1, <1>2 DEF LugaresDe

\* The first of a queue goes to another one.
LEMMA LugarPasa ==
  ASSUME TypeOK, EnLugar, Etapas, NEW a \in Colas \ {"EXIT"}, NEW b \in Colas, a # b,
         NEW h, h = Head(cola[a]), cola[a] # <<>>, Pasa(h, a, b), Corresponde(h, b)
  PROVE  EnLugar' /\ Donde(h) = {a} /\ Donde(h)' = {b}
<1>1. EnColas
  BY DEF EnColas, TypeOK, EnLugar, UnSoloLugar
<1>2. cola[a] \in Seq(Pids) /\ h \in Pids /\ Contains(cola[a], h)
  BY <1>1 DEF EnColas, Contains
<1>3. Donde(h) = {a}
  BY <1>2, EnCola
<1>4. /\ EnColas' /\ Donde(h)' = {b}
      /\ Aparte(h)
      /\ cola'[a] = Tail(cola[a]) /\ cola'[b] = Append(cola[b], h)
      /\ Fuera(a, b)
  <2>1. a \in Colas
    OBVIOUS
  <2>2. QED BY <1>1, <1>3, <2>1, DondePasa
<1>5. cola'["EXIT"] = IF b = "EXIT" THEN Append(cola["EXIT"], h) ELSE cola["EXIT"]
  BY <1>4 DEF Fuera, Colas, ColasFijas
<1>6. /\ pcb'[h].estado # "EXIT" /\ b \in LugaresDe(h)' \cup {"EXIT"}
      /\ pcb'[h].estado = "BLOCKED" => pcb'[h].cola_bloqueado \in Recursos \cup Interfaces
  BY LugarNuevo
<1>7. Traslado(h, a, b)
  BY <1>2, <1>3, <1>4, <1>5, <1>6 DEF Traslado, Corresponde
<1>8. QED BY <1>3, <1>4, <1>7, LugarTraslado

\* FINALIZAR_PROCESO takes a process out of its queue.
LEMMA LugarFinalizarExtrae ==
  ASSUME TypeOK, Control, EnLugar, ObjetivoCreado, FinalizarExtrae
  PROVE  EnLugar'
<1>1. PICK p : p = consola.objetivo
  OBVIOUS
<1>2. p \in Pids /\ p \in Creados
  BY <1>1 DEF FinalizarExtrae, ObjetivoEn, Control, ConsolaEnOrden, ObjetivoCreado
<1>3. PICK c : c = ColaDe(p)
  OBVIOUS
<1>4. /\ Contains(cola[c], p)
      /\ cola' = [cola EXCEPT ![c] = Extraer(@, p), !["EXIT"] = Append(@, p)]
      /\ pcb' = [pcb EXCEPT ![p].pedido_exit = TRUE]
      /\ pcb[p].estado \in {"NEW", "READY", "BLOCKED"}
      /\ UNCHANGED <<pid, largo>> /\ Va("consola", "libre")
  BY <1>1, <1>3 DEF FinalizarExtrae, ObjetivoEn, Detenibles, FinComando
<1>5. c \in {"NEW", "READY", "READY_VRR"} \/ (c = pcb[p].cola_bloqueado /\ pcb[p].estado = "BLOCKED")
  BY <1>3, <1>4 DEF ColaDe
<1>6. c \in Colas \ {"EXIT"}
  <2>1. pcb[p].estado = "BLOCKED" => pcb[p].cola_bloqueado \in Recursos \cup Interfaces
    BY <1>2 DEF EnLugar, BloqueadoEn
  <2>2. QED BY <1>5, <2>1 DEF Colas, ColasFijas
<1>7. Donde(p) = {c}
  BY <1>2, <1>4, <1>6, EnCola
<1>8. EnColas
  BY DEF EnColas, TypeOK, EnLugar, UnSoloLugar
<1>9. /\ EnColas' /\ Donde(p)' = {"EXIT"}
      /\ Aparte(p)
      /\ cola'["EXIT"] = Append(cola["EXIT"], p)
  <2>1. PICK b : b = "EXIT"
    OBVIOUS
  <2>2. c \in Colas /\ b \in Colas /\ c # b
    BY <1>6, <2>1 DEF Colas, ColasFijas
  <2>3. PICK s : s = Extraer(cola[c], p)
    OBVIOUS
  <2>4. cola' = [cola EXCEPT ![c] = s, ![b] = Append(@, p)]
    BY <1>4, <2>1, <2>3
  <2>5. EnColas' /\ Donde(p)' = {b} /\ Aparte(p) /\ cola'[b] = Append(cola[b], p)
    BY <1>2, <1>7, <1>8, <2>2, <2>3, <2>4, DondeExtrae
  <2>6. QED BY <2>1, <2>5
<1>10. \A q \in Pids : pcb'[q].estado = pcb[q].estado /\ pcb'[q].cola_bloqueado = pcb[q].cola_bloqueado
  BY <1>4 DEF TypeOK, PCBs
<1>11. Etapas
  BY <1>4 DEF Etapas, Va, TypeOK, Hilos, HilosFijos
<1>12. Traslado(p, c, "EXIT")
  <2>1. pcb'[p].estado # "EXIT"
    BY <1>2, <1>4, <1>10
  <2>2. pcb'[p].estado = "BLOCKED" => pcb'[p].cola_bloqueado \in Recursos \cup Interfaces
    BY <1>2, <1>10 DEF EnLugar, BloqueadoEn
  <2>3. QED BY <1>2, <1>6, <1>7, <1>9, <1>10, <2>1, <2>2 DEF Traslado
<1>13. QED BY <1>9, <1>11, <1>12, LugarTraslado

\* Only INICIAR_PROCESO and the long-term threads change their stage.
LEMMA EtapasAjenas ==
  ASSUME TypeOK,
         \/ Usuario /\ ~IniciarProceso
         \/ Consola \/ Corto \/ Entorno \/ UNCHANGED vars
         \/ \E i \in Interfaces : Manejador(i)
  PROVE  Etapas
<1>1. pc \in [Hilos -> Etiquetas] /\ {"exit", "largo"} \subseteq Hilos
      /\ {"exit", "largo"} \cap Interfaces = {}
  BY DEF TypeOK, Hilos, HilosFijos
<1>2. UNCHANGED <<pid, largo, pc["exit"], pc["largo"]>> => Etapas
  BY DEF Etapas
<1>3. CASE Usuario /\ ~IniciarProceso
  <2>1. UNCHANGED pid
    BY <1>3 DEF Usuario, PideFinalizar, PideComando, PideComandoGlobal, IniciarPlanificacion,
      SubeMultiprogramacion, PideBajarMultiprogramacion, procesos
  <2>2. QED BY <1>1, <1>2, <1>3, <2>1, AjenoConsola
<1>4. CASE Consola
  <2>1. UNCHANGED pid
    BY <1>4 DEF Consola, TomaPausada, DetenerPlanificacion, ProcesoEstado, FinalizarSinEfecto,
      FinalizarEnEjecucion, MarcaPedidoFinalizacion, FinalizarCuelga, FinalizarExtrae, FinalizarNulo,
      BajaMultiprogramacion, procesos
  <2>2. QED BY <1>1, <1>2, <1>4, <2>1, AjenoConsola
<1>5. CASE Corto
  <2>1. UNCHANGED pid
    BY <1>5 DEF Corto, EsperaOrdenCorto, EligeProceso, NoHayListos, EnviaProcesoACpu,
      RecibeDesalojo, TrataFin, TrataRecursoInvalido, AvisaExit, TrataWait, WaitBloquea, WaitConcede,
      TrataSignal, SignalDevuelve, SignalEntrega, TrataFinQuantum, TrataIOInvalida, TrataIO,
      IOBloquea, IOEnvia, RespondeCpu, LimpiaDesalojo, MandaAExit, procesos
  <2>2. QED BY <1>1, <1>2, <1>5, <2>1, AjenoCorto
<1>6. CASE Entorno \/ UNCHANGED vars
  BY <1>2, <1>6, AjenoEntorno DEF vars, procesos
<1>7. ASSUME NEW i \in Interfaces, Manejador(i) PROVE Etapas
  <2>1. UNCHANGED pid
    BY <1>7 DEF Manejador, RecibeIOLiberar, TomaMediano, DesbloqueaIO, NadieQueDesbloquear,
      AtiendeSiguiente, LiberaInterfaz, procesos
  <2>2. QED BY <1>1, <1>2, <1>7, <2>1, AjenoManejador DEF locales
<1>8. QED BY <1>3, <1>4, <1>5, <1>6, <1>7

\* The short-term scheduler chooses the first of READY+ or READY.
LEMMA LugarElige ==
  ASSUME TypeOK, EnLugar, Etapas, EligeProceso
  PROVE  EnLugar'
<1>1. PICK o \in {"READY", "READY_VRR"} : o = ColaDeListos
  BY DEF ColaDeListos
<1>2. PICK p : p = Head(cola[o])
  OBVIOUS
<1>3. /\ cola[o] # <<>> /\ Pasa(p, o, "RUNNING")
      /\ pcb' = [pcb EXCEPT ![p].estado = "EXEC",
                            ![p].parcial = IF o = "READY_VRR" THEN @ ELSE FALSE]
  BY <1>1, <1>2 DEF EligeProceso
<1>4. o \in Colas \ {"EXIT"} /\ "RUNNING" \in Colas /\ o # "RUNNING"
  BY DEF Colas, ColasFijas
<1>5. p \in Pids
  BY <1>2, <1>3, <1>4 DEF TypeOK
<1>6. Corresponde(p, "RUNNING")
  BY <1>3, <1>5 DEF Corresponde, TypeOK, PCBs
<1>7. QED BY <1>2, <1>3, <1>4, <1>6, LugarPasa

\* What the process being treated is: the one in RUNNING.
LEMMA Tratado ==
  ASSUME TypeOK, Control, EnLugar, RunningEnOrden,
         pc["corto"] \in {"trata", "wait", "signal", "signal_mediano", "io"}
  PROVE  /\ corto.proceso \in Pids
         /\ cola["RUNNING"] # <<>> /\ corto.proceso = Head(cola["RUNNING"])
         /\ pcb[corto.proceso].estado = "EXEC"
         /\ {"RUNNING", "EXIT", "READY"} \subseteq Colas /\ Recursos \cup Interfaces \subseteq Colas
         /\ {"RUNNING", "EXIT"} \cap (Recursos \cup Interfaces) = {}
<1>1. {"RUNNING", "EXIT", "READY"} \subseteq Colas /\ Recursos \cup Interfaces \subseteq Colas
      /\ {"RUNNING", "EXIT"} \cap (Recursos \cup Interfaces) = {}
  BY DEF Colas, ColasFijas
<1>2. PICK p \in Pids : p = corto.proceso
  BY DEF Control, CortoEnOrden
<1>3. cola["RUNNING"] = <<p>>
  BY <1>2 DEF RunningEnOrden
<1>4. cola["RUNNING"] # <<>> /\ p = Head(cola["RUNNING"]) /\ Contains(cola["RUNNING"], p)
  BY <1>3, UnoSolo DEF Contains
<1>5. "RUNNING" \in LugaresDe(p)
  BY <1>1, <1>4, EnCola
<1>6. pcb[p].estado = "EXEC"
  BY <1>1, <1>5, EstadoDeCola
<1>7. QED BY <1>1, <1>2, <1>4, <1>6

\* The process being treated goes to the queue its new state names.
LEMMA LugarTrata ==
  ASSUME TypeOK, Control, EnLugar, RunningEnOrden, Etapas,
         pc["corto"] \in {"trata", "wait", "signal", "signal_mediano", "io"},
         NEW b \in Colas \ {"RUNNING"}, Pasa(corto.proceso, "RUNNING", b),
         Corresponde(corto.proceso, b)
  PROVE  EnLugar'
<1>1. PICK p : p = corto.proceso
  OBVIOUS
<1>2. p = Head(cola["RUNNING"]) /\ cola["RUNNING"] # <<>> /\ "RUNNING" \in Colas \ {"EXIT"}
  BY <1>1, Tratado
<1>3. Pasa(p, "RUNNING", b) /\ Corresponde(p, b)
  BY <1>1
<1>4. QED BY <1>2, <1>3, LugarPasa

\* A burst that ends: in EXIT, in READY or blocked.
LEMMA LugarFinDeRafaga ==
  ASSUME TypeOK, Control, EnLugar, RunningEnOrden, Etapas,
         \/ TrataFin \/ TrataRecursoInvalido \/ TrataIOInvalida
         \/ TrataFinQuantum \/ WaitBloquea \/ IOBloquea
  PROVE  EnLugar'
<1>1. PICK p : p = corto.proceso
  OBVIOUS
<1>2. pcb \in [Pids -> PCBs]
  BY DEF TypeOK
<1>3. pc["corto"] \in {"trata", "wait", "io"}
  BY DEF TrataFin, TrataRecursoInvalido, TrataIOInvalida, TrataFinQuantum, WaitBloquea, IOBloquea,
    Trata, En
<1>4. /\ p \in Pids /\ pcb[p].estado = "EXEC"
      /\ {"RUNNING", "EXIT", "READY"} \subseteq Colas /\ Recursos \cup Interfaces \subseteq Colas
      /\ {"RUNNING", "EXIT"} \cap (Recursos \cup Interfaces) = {}
  BY <1>1, <1>3, Tratado
<1>5. ASSUME TrataFin \/ TrataRecursoInvalido \/ TrataIOInvalida
      PROVE  Pasa(p, "RUNNING", "EXIT") /\ Corresponde(p, "EXIT")
  <2>1. Pasa(p, "RUNNING", "EXIT") /\ \/ pcb' = pcb
                                      \/ \E resto : pcb' = [pcb EXCEPT ![p].parcial = resto]
    BY <1>1, <1>5 DEF TrataFin, TrataRecursoInvalido, TrataIOInvalida, MandaAExit
  <2>2. \A q \in Pids : pcb'[q].estado = pcb[q].estado /\ pcb'[q].cola_bloqueado = pcb[q].cola_bloqueado
    <3>1. ASSUME NEW resto, pcb' = [pcb EXCEPT ![p].parcial = resto], NEW q \in Pids
          PROVE  pcb'[q].estado = pcb[q].estado /\ pcb'[q].cola_bloqueado = pcb[q].cola_bloqueado
      BY <1>2, <3>1 DEF PCBs
    <3>2. QED BY <2>1, <3>1
  <2>3. QED BY <1>4, <2>1, <2>2 DEF Corresponde
<1>6. ASSUME TrataFinQuantum
      PROVE  Pasa(p, "RUNNING", "READY") /\ Corresponde(p, "READY")
  BY <1>1, <1>2, <1>4, <1>6 DEF TrataFinQuantum, Corresponde, PCBs
<1>7. ASSUME WaitBloquea \/ IOBloquea
      PROVE  \E b \in Recursos \cup Interfaces : Pasa(p, "RUNNING", b) /\ Corresponde(p, b)
  <2>1. PICK b : b = corto.arg
    OBVIOUS
  <2>2. b \in Recursos \cup Interfaces
    BY <1>7, <2>1 DEF WaitBloquea, IOBloquea, Control, CortoEnOrden, En
  <2>3. Pasa(p, "RUNNING", b) /\ pcb' = [pcb EXCEPT ![p].estado = "BLOCKED", ![p].cola_bloqueado = b]
    BY <1>1, <1>7, <2>1 DEF WaitBloquea, IOBloquea
  <2>4. Corresponde(p, b)
    BY <1>2, <1>4, <2>2, <2>3 DEF Corresponde, PCBs
  <2>5. QED BY <2>2, <2>3, <2>4
<1>8. \E b \in Colas \ {"RUNNING"} : Pasa(p, "RUNNING", b) /\ Corresponde(p, b)
  BY <1>4, <1>5, <1>6, <1>7
<1>9. QED BY <1>1, <1>3, <1>8, LugarTrata

\* An instance is handed to the first process blocked for it.  The PCBs the
\* caller leaves are those before, up to what it holds.
LEMMA LugarEntrega ==
  ASSUME TypeOK, EnLugar, Etapas, NEW r \in Recursos, NEW pcbs \in [Pids -> PCBs],
         \A q \in Pids : pcbs[q].estado = pcb[q].estado /\ pcbs[q].cola_bloqueado = pcb[q].cola_bloqueado,
         EntregaInstancia(r, pcbs)
  PROVE  EnLugar'
<1>1. CASE HayBloqueado(r)
  <2>1. PICK q : q = Head(cola[r])
    OBVIOUS
  <2>2. /\ pcb' = [pcbs EXCEPT ![q].recursos[r] = @ + 1, ![q].estado = "READY",
                               ![q].cola_bloqueado = Nulo]
        /\ Pasa(q, r, "READY") /\ cola[r] # <<>>
    BY <1>1, <2>1 DEF EntregaInstancia, HayBloqueado
  <2>3. r \in Colas \ {"EXIT"} /\ "READY" \in Colas /\ r # "READY"
    BY DEF Colas, ColasFijas
  <2>4. q \in Pids
    BY <2>1, <2>2, <2>3 DEF TypeOK
  <2>5. Corresponde(q, "READY")
    BY <2>2, <2>4 DEF Corresponde, PCBs
  <2>6. QED BY <2>1, <2>2, <2>3, <2>5, LugarPasa
<1>2. CASE ~HayBloqueado(r)
  <2>1. pcb' = pcbs /\ cola' = cola
    BY <1>2 DEF EntregaInstancia
  <2>2. QED BY <2>1, LugarQuieto
<1>3. QED BY <1>1, <1>2

\* The handler of an interface unblocks the first of its queue.
LEMMA LugarDesbloquea ==
  ASSUME TypeOK, EnLugar, Etapas, NEW i \in Interfaces, DesbloqueaIO(i)
  PROVE  EnLugar'
<1>1. PICK p : p = Head(cola[i])
  OBVIOUS
<1>2. PICK d \in {"READY", "READY_VRR"} : Pasa(p, i, d)
  BY <1>1 DEF DesbloqueaIO
<1>3. cola[i] # <<>> /\ pcb' = [pcb EXCEPT ![p].estado = "READY"]
  BY <1>1 DEF DesbloqueaIO, Atendido
<1>4. i \in Colas \ {"EXIT"} /\ d \in Colas /\ i # d
  BY DEF Colas, ColasFijas
<1>5. p \in Pids
  BY <1>1, <1>3, <1>4 DEF TypeOK
<1>6. Corresponde(p, d)
  BY <1>3, <1>5 DEF Corresponde, TypeOK, PCBs
<1>7. QED BY <1>1, <1>2, <1>3, <1>4, <1>6, LugarPasa

-----------------------------------------------------------------------------
(* The steps at the two ends of the life of a process *)

\* The step is about process h: the others keep their state, and whether they
\* are coming in or leaving.
SoloDe(h) ==
  \A q \in Pids : q # h =>
    /\ pcb'[q].estado = pcb[q].estado /\ pcb'[q].cola_bloqueado = pcb[q].cola_bloqueado
    /\ (largo'.saliente = q) <=> (largo.saliente = q)
    /\ (largo'.entrante = q) <=> (largo.entrante = q)

\* It is enough that this one is in its place.
LEMMA LugarDeUno ==
  ASSUME TypeOK, EnLugar, EnColas', NEW h \in Pids, Aparte(h), SoloDe(h),
         Creados' = Creados \cup {h}, EnSuLugar(h)',
         pcb'[h].estado = "BLOCKED" => pcb'[h].cola_bloqueado \in Recursos \cup Interfaces
  PROVE  UnSoloLugar' /\ PidsCreados' /\ BloqueadoEn'
<1>1. Creados \subseteq Pids
  BY DEF Creados, TypeOK, Pids
<1>2. ASSUME NEW q \in Pids, q # h, EnSuLugar(q) PROVE EnSuLugar(q)'
  <2>1. Donde(q)' = Donde(q) /\ pcb'[q].estado = pcb[q].estado /\ LugaresDe(q)' = LugaresDe(q)
    BY <1>2 DEF SoloDe, Aparte, LugaresDe
  <2>2. /\ (largo'.saliente = q) <=> (largo.saliente = q)
        /\ (largo'.entrante = q) <=> (largo.entrante = q)
    BY <1>2 DEF SoloDe
  <2>3. QED BY <1>2, <2>1, <2>2, LugarFormula, LugarFormulaDespues
<1>3. UnSoloLugar'
  BY <1>1, <1>2 DEF EnLugar, UnSoloLugar, EnColas
<1>4. PidsCreados'
  BY DEF EnLugar, PidsCreados, Aparte
<1>5. BloqueadoEn'
  BY DEF EnLugar, BloqueadoEn, SoloDe
<1>6. QED BY <1>3, <1>4, <1>5

\* What EnLugar says of the two long-term threads, by name.
LEMMA DeLargo ==
  ASSUME TypeOK, EnLugar
  PROVE  /\ EnColas /\ {"NEW", "READY", "EXIT"} \subseteq Colas /\ Creados \subseteq Pids /\ 0 \notin Pids
         /\ pc["exit"] \in {"orden", "pausa"} => largo.saliente = 0
         /\ pc["exit"] \notin {"orden", "pausa"} =>
              /\ largo.saliente \in Creados
              /\ cola["EXIT"] # <<>> /\ Head(cola["EXIT"]) = largo.saliente
              /\ pc["exit"] = "saca" => pcb[largo.saliente].estado = "EXIT"
              /\ pc["exit"] # "saca" => pcb[largo.saliente].estado \in {"READY", "EXEC", "BLOCKED"}
         /\ pc["largo"] # "creando" => largo.entrante = 0
         /\ pc["largo"] = "creando" =>
              /\ largo.entrante \in Creados /\ Donde(largo.entrante) = {}
              /\ pcb[largo.entrante].estado = "NEW"
         /\ pc \in [Hilos -> Etiquetas] /\ {"exit", "largo"} \subseteq Hilos
         /\ largo \in TLargo
BY DEF EnLugar, SalienteEnOrden, EntranteEnOrden, EnColas, UnSoloLugar, TypeOK, Colas, ColasFijas,
  Creados, Pids, Hilos, HilosFijos

\* The first of EXIT is nowhere else, nor in the hands of the NEW -> READY
\* thread, and has not ended before.
LEMMA PrimeroDeExit ==
  ASSUME TypeOK, EnLugar, cola["EXIT"] # <<>>, NEW h, h = Head(cola["EXIT"])
  PROVE  /\ h \in Creados /\ h \in Pids /\ Donde(h) = {"EXIT"} /\ largo.entrante # h
         /\ pcb[h].estado = "EXIT" => largo.saliente = h
<1>1. cola["EXIT"] \in Seq(Pids) /\ "EXIT" \in Colas
  BY DEF TypeOK, Colas, ColasFijas
<1>2. h \in Pids /\ Contains(cola["EXIT"], h)
  BY <1>1 DEF Contains
<1>3. "EXIT" \in Donde(h)
  BY <1>1, <1>2, DondeFormula
<1>4. h \in Creados
  BY <1>2, <1>3 DEF EnLugar, PidsCreados
<1>5. EnSuLugar(h)
  BY <1>4 DEF EnLugar, UnSoloLugar
<1>6. CASE pcb[h].estado = "EXIT"
  <2>1. Donde(h) = {"EXIT"} /\ largo.saliente = h
    BY <1>3, <1>5, <1>6, LugarFormula
  <2>2. largo.entrante # h
    <3>1. pc["largo"] # "creando" => largo.entrante = 0
      BY DeLargo
    <3>2. pc["largo"] = "creando" => pcb[largo.entrante].estado = "NEW"
      BY DeLargo
    <3>3. h # 0
      BY <1>2, DeLargo
    <3>4. QED BY <1>6, <3>1, <3>2, <3>3
  <2>3. QED BY <1>2, <1>4, <2>1, <2>2
<1>7. CASE pcb[h].estado # "EXIT"
  <2>1. largo.entrante # h
    BY <1>3, <1>5, <1>7, LugarFormula
  <2>2. Donde(h) = {"EXIT"}
    BY <1>3, <1>5, <1>7, <2>1, LugarFormula
  <2>3. QED BY <1>2, <1>4, <1>7, <2>1, <2>2
<1>8. QED BY <1>6, <1>7

\* INICIAR_PROCESO: the process it creates was in no queue.
LEMMA LugarIniciar ==
  ASSUME TypeOK, EnLugar, IniciarProceso
  PROVE  EnLugar'
<1>1. PICK h : h = pid
  OBVIOUS
<1>2. /\ h \in Pids /\ h \notin Creados /\ Creados' = Creados \cup {h} /\ Creados \subseteq Pids
      /\ 0 \notin Creados /\ h # 0
  BY <1>1 DEF IniciarProceso, TypeOK, Creados, Pids
<1>3. /\ cola' = [cola EXCEPT !["NEW"] = Append(@, h)]
      /\ pcb' = [pcb EXCEPT ![h] = PCBNuevo] /\ UNCHANGED <<pc, largo>>
  BY <1>1 DEF IniciarProceso, locales
<1>4. Donde(h) = {}
  BY <1>2 DEF EnLugar, PidsCreados
<1>5. EnColas' /\ Donde(h)' = {"NEW"} /\ Aparte(h)
  <2>1. PICK b \in Colas : b = "NEW"
    BY DEF Colas, ColasFijas
  <2>2. cola' = [cola EXCEPT ![b] = Append(@, h)]
    BY <1>3, <2>1
  <2>3. EnColas' /\ Donde(h)' = {b} /\ Aparte(h)
    BY <1>2, <1>4, <2>2, DondeEntra, DeLargo
  <2>4. QED BY <2>1, <2>3
<1>6. pcb'[h].estado = "NEW" /\ \A q \in Pids : q # h => pcb'[q] = pcb[q]
  BY <1>2, <1>3 DEF TypeOK, PCBNuevo
<1>7. largo'.saliente = largo.saliente /\ largo'.entrante = largo.entrante
      /\ largo.entrante # h
  BY <1>2, <1>3, DeLargo
<1>8. EnSuLugar(h)'
  <2>1. "NEW" \in LugaresDe(h)'
    BY <1>6 DEF LugaresDe
  <2>2. QED BY <1>5, <1>6, <1>7, <2>1, LugarFormulaDespues
<1>9. UnSoloLugar' /\ PidsCreados' /\ BloqueadoEn'
  BY <1>2, <1>5, <1>6, <1>7, <1>8, LugarDeUno DEF SoloDe
<1>10. SalienteEnOrden'
  <2>1. cola'["EXIT"] = cola["EXIT"]
    BY <1>3, DeLargo DEF TypeOK
  <2>2. QED BY <1>2, <1>3, <1>6, <2>1 DEF EnLugar, SalienteEnOrden
<1>11. EntranteEnOrden'
  <2>1. CASE pc["largo"] # "creando"
    BY <1>3, <2>1, DeLargo DEF EntranteEnOrden
  <2>2. ASSUME NEW e, e = largo.entrante, pc["largo"] = "creando"
        PROVE  largo'.entrante = e /\ e \in Creados' /\ Donde(e)' = {} /\ pcb'[e].estado = "NEW"
    <3>1. e \in Creados /\ Donde(e) = {} /\ pcb[e].estado = "NEW"
      BY <2>2 DEF EnLugar, EntranteEnOrden
    <3>2. e # h
      BY <1>2, <3>1
    <3>3. QED BY <1>2, <1>3, <1>5, <1>6, <2>2, <3>1, <3>2 DEF Aparte
  <2>3. QED BY <1>3, <2>1, <2>2 DEF EntranteEnOrden, Donde
<1>12. QED BY <1>9, <1>10, <1>11 DEF EnLugar

\* The NEW -> READY thread takes the first of NEW ...
LEMMA LugarSacaDeNew ==
  ASSUME TypeOK, EnLugar, SacaDeNew
  PROVE  EnLugar'
<1>1. PICK h : h = Head(cola["NEW"])
  OBVIOUS
<1>2. /\ cola["NEW"] # <<>> /\ cola' = [cola EXCEPT !["NEW"] = Tail(@)]
      /\ largo' = [largo EXCEPT !.entrante = h] /\ UNCHANGED <<pid, pcb>>
      /\ pc["largo"] = "pausa" /\ pc' = [pc EXCEPT !["largo"] = "creando"]
  BY <1>1 DEF SacaDeNew, Va, En
<1>3. h \in Pids /\ Contains(cola["NEW"], h)
  <2>1. cola["NEW"] \in Seq(Pids)
    BY DEF TypeOK, Colas, ColasFijas
  <2>2. Head(cola["NEW"]) \in Pids /\ Contains(cola["NEW"], Head(cola["NEW"]))
    BY <1>2, <2>1, PrimeroDeCola
  <2>3. QED BY <1>1, <2>2
<1>4. /\ h \in Creados /\ Donde(h) = {"NEW"} /\ pcb[h].estado # "EXIT" /\ pcb[h].estado = "NEW"
  <2>1. PICK c \in Colas \ {"EXIT"} : c = "NEW"
    BY DEF Colas, ColasFijas
  <2>2. h \in Creados /\ Donde(h) = {c} /\ pcb[h].estado # "EXIT" /\ c \in LugaresDe(h)
    BY <1>3, <2>1, EnCola
  <2>3. QED BY <1>3, <2>1, <2>2, EstadoDeCola
<1>5. EnColas' /\ Donde(h)' = {} /\ Aparte(h)
  <2>1. PICK a \in Colas : a = "NEW"
    BY DEF Colas, ColasFijas
  <2>2. /\ cola[a] # <<>> /\ h = Head(cola[a]) /\ Donde(h) = {a}
        /\ cola' = [cola EXCEPT ![a] = Tail(@)]
    BY <1>1, <1>2, <1>4, <2>1
  <2>3. QED BY <2>2, DondeSale, DeLargo
<1>6. largo'.entrante = h /\ largo'.saliente = largo.saliente /\ largo.entrante = 0
  BY <1>2, DeLargo DEF TLargo
<1>7. EnSuLugar(h)'
  BY <1>2, <1>4, <1>5, <1>6, LugarFormulaDespues
<1>8. Creados' = Creados \cup {h} /\ SoloDe(h)
  BY <1>2, <1>4, <1>6, DeLargo DEF Creados, SoloDe
<1>9. UnSoloLugar' /\ PidsCreados' /\ BloqueadoEn'
  BY <1>2, <1>3, <1>4, <1>5, <1>7, <1>8, LugarDeUno
<1>10. SalienteEnOrden'
  <2>1. cola'["EXIT"] = cola["EXIT"] /\ pc'["exit"] = pc["exit"] /\ Creados' = Creados
    BY <1>2, DeLargo DEF TypeOK, Creados
  <2>2. QED BY <1>2, <1>6, <2>1 DEF EnLugar, SalienteEnOrden
<1>11. EntranteEnOrden'
  <2>1. pc'["largo"] = "creando" /\ h \in Creados' /\ pcb'[h].estado = "NEW"
    BY <1>2, <1>4, <1>8, DeLargo
  <2>2. QED BY <1>5, <1>6, <2>1 DEF EntranteEnOrden, Donde
<1>12. QED BY <1>9, <1>10, <1>11 DEF EnLugar

\* ... and puts it in READY once memory has answered.
LEMMA LugarPasaAReady ==
  ASSUME TypeOK, EnLugar, PasaAReady
  PROVE  EnLugar'
<1>1. PICK h : h = largo.entrante
  OBVIOUS
<1>2. /\ cola' = [cola EXCEPT !["READY"] = Append(@, h)]
      /\ pcb' = [pcb EXCEPT ![h].estado = "READY"]
      /\ largo' = [largo EXCEPT !.entrante = 0] /\ UNCHANGED pid
      /\ pc["largo"] = "creando" /\ pc' = [pc EXCEPT !["largo"] = "orden"]
  BY <1>1 DEF PasaAReady, Va, En
<1>3. h \in Creados /\ h \in Pids /\ Donde(h) = {} /\ pcb[h].estado = "NEW"
  BY <1>1, <1>2, DeLargo DEF EnLugar, EntranteEnOrden
<1>4. EnColas' /\ Donde(h)' = {"READY"} /\ Aparte(h)
  <2>1. PICK b \in Colas : b = "READY"
    BY DEF Colas, ColasFijas
  <2>2. cola' = [cola EXCEPT ![b] = Append(@, h)]
    BY <1>2, <2>1
  <2>3. EnColas' /\ Donde(h)' = {b} /\ Aparte(h)
    BY <1>3, <2>2, DondeEntra, DeLargo
  <2>4. QED BY <2>1, <2>3
<1>5. largo'.entrante = 0 /\ largo'.saliente = largo.saliente
  BY <1>2, DeLargo DEF TLargo
<1>6. /\ pcb'[h].estado = "READY"
      /\ \A q \in Pids : q # h => pcb'[q] = pcb[q]
  BY <1>2, <1>3 DEF TypeOK, PCBs
<1>7. EnSuLugar(h)'
  <2>1. "READY" \in LugaresDe(h)'
    BY <1>6 DEF LugaresDe
  <2>2. largo'.entrante # h
    BY <1>3, <1>5, DeLargo
  <2>3. QED BY <1>4, <1>6, <2>1, <2>2, LugarFormulaDespues
<1>8. Creados' = Creados \cup {h} /\ SoloDe(h)
  BY <1>1, <1>2, <1>3, <1>5, <1>6, DeLargo DEF Creados, SoloDe
<1>9. UnSoloLugar' /\ PidsCreados' /\ BloqueadoEn'
  BY <1>3, <1>4, <1>6, <1>7, <1>8, LugarDeUno
<1>10. SalienteEnOrden'
  <2>1. cola'["EXIT"] = cola["EXIT"] /\ pc'["exit"] = pc["exit"] /\ Creados' = Creados
    BY <1>2, DeLargo DEF TypeOK, Creados
  <2>2. CASE pc["exit"] \in {"orden", "pausa"}
    BY <1>5, <2>1, <2>2 DEF EnLugar, SalienteEnOrden
  <2>3. CASE pc["exit"] \notin {"orden", "pausa"}
    <3>1. PICK s : s = largo.saliente
      OBVIOUS
    <3>2. s \in Pids /\ s # h
      BY <1>3, <2>3, <3>1, DeLargo
    <3>3. pcb'[s] = pcb[s]
      BY <1>6, <3>2
    <3>4. QED BY <1>5, <2>1, <2>3, <3>1, <3>3 DEF EnLugar, SalienteEnOrden
  <2>4. QED BY <2>2, <2>3
<1>11. EntranteEnOrden'
  BY <1>2, <1>5, DeLargo DEF EntranteEnOrden
<1>12. QED BY <1>9, <1>10, <1>11 DEF EnLugar

\* The EXIT thread reads the first of EXIT: one that never left NEW ends
\* there ...
LEMMA LugarExitDesdeNew ==
  ASSUME TypeOK, EnLugar, cola["EXIT"] # <<>>, ExitDesdeNew
  PROVE  EnLugar'
<1>1. PICK h : h = Head(cola["EXIT"])
  OBVIOUS
<1>2. /\ pcb[h].estado = "NEW" /\ pcb' = [pcb EXCEPT ![h].estado = "EXIT"]
      /\ largo' = [largo EXCEPT !.saliente = h] /\ UNCHANGED <<pid, cola>>
      /\ pc["exit"] = "pausa" /\ pc' = [pc EXCEPT !["exit"] = "saca"]
  BY <1>1 DEF ExitDesdeNew, Va, En
<1>3. h \in Creados /\ h \in Pids /\ Donde(h) = {"EXIT"} /\ largo.entrante # h
  BY <1>1, PrimeroDeExit
<1>4. EnColas' /\ Donde(h)' = {"EXIT"} /\ Aparte(h)
  BY <1>2, <1>3, DeLargo DEF Donde, EnColas, Aparte, Colas
<1>5. largo'.saliente = h /\ largo.saliente = 0 /\ largo'.entrante = largo.entrante
  BY <1>2, DeLargo DEF TLargo
<1>6. /\ pcb'[h].estado = "EXIT"
      /\ \A q \in Pids : q # h => pcb'[q] = pcb[q]
  BY <1>2, <1>3 DEF TypeOK, PCBs
<1>7. EnSuLugar(h)'
  BY <1>4, <1>5, <1>6, LugarFormulaDespues
<1>8. Creados' = Creados \cup {h} /\ SoloDe(h)
  BY <1>2, <1>3, <1>5, <1>6, DeLargo DEF Creados, SoloDe
<1>9. UnSoloLugar' /\ PidsCreados' /\ BloqueadoEn'
  BY <1>3, <1>4, <1>6, <1>7, <1>8, LugarDeUno
<1>10. SalienteEnOrden'
  <2>1. pc'["exit"] = "saca" /\ h \in Creados' /\ cola' = cola
    BY <1>2, <1>3, <1>8, DeLargo
  <2>2. QED BY <1>1, <1>5, <1>6, <2>1, DeLargo, PrimeroDeExit DEF SalienteEnOrden
<1>11. EntranteEnOrden'
  <2>1. pc'["largo"] = pc["largo"] /\ Creados' = Creados
    BY <1>2, DeLargo DEF Creados
  <2>2. CASE pc["largo"] # "creando"
    BY <1>5, <2>1, <2>2, DeLargo DEF EntranteEnOrden
  <2>3. ASSUME NEW e, e = largo.entrante, pc["largo"] = "creando"
        PROVE  largo'.entrante = e /\ e \in Creados' /\ Donde(e)' = {} /\ pcb'[e].estado = "NEW"
    <3>1. e \in Creados /\ Donde(e) = {} /\ pcb[e].estado = "NEW"
      BY <2>3 DEF EnLugar, EntranteEnOrden
    <3>2. QED BY <1>3, <1>4, <1>5, <1>6, <2>1, <2>3, <3>1, DeLargo DEF Aparte
  <2>4. QED BY <2>1, <2>2, <2>3 DEF EntranteEnOrden, Donde
<1>12. QED BY <1>9, <1>10, <1>11 DEF EnLugar

\* ... any other one is marked once its resources and its memory are back.
LEMMA LugarMarcaExit ==
  ASSUME TypeOK, EnLugar, MarcaExit
  PROVE  EnLugar'
<1>1. PICK h : h = largo.saliente
  OBVIOUS
<1>2. /\ pcb' = [pcb EXCEPT ![h].estado = "EXIT"] /\ UNCHANGED <<pid, cola, largo>>
      /\ pc["exit"] = "marca" /\ pc' = [pc EXCEPT !["exit"] = "saca"]
  BY <1>1 DEF MarcaExit, Va, En, locales
<1>3. cola["EXIT"] # <<>> /\ h = Head(cola["EXIT"])
  BY <1>1, <1>2, DeLargo
<1>4. h \in Creados /\ h \in Pids /\ Donde(h) = {"EXIT"} /\ largo.entrante # h
  BY <1>3, PrimeroDeExit
<1>5. EnColas' /\ Donde(h)' = {"EXIT"} /\ Aparte(h)
  BY <1>2, <1>4, DeLargo DEF Donde, EnColas, Aparte, Colas
<1>6. /\ pcb'[h].estado = "EXIT"
      /\ \A q \in Pids : q # h => pcb'[q] = pcb[q]
  BY <1>2, <1>4 DEF TypeOK, PCBs
<1>7. EnSuLugar(h)'
  BY <1>1, <1>2, <1>5, <1>6, LugarFormulaDespues
<1>8. Creados' = Creados \cup {h} /\ SoloDe(h)
  BY <1>2, <1>4, <1>6, DeLargo DEF Creados, SoloDe
<1>9. UnSoloLugar' /\ PidsCreados' /\ BloqueadoEn'
  BY <1>4, <1>5, <1>6, <1>7, <1>8, LugarDeUno
<1>10. SalienteEnOrden'
  <2>1. pc'["exit"] = "saca" /\ Creados' = Creados
    BY <1>2, DeLargo DEF Creados
  <2>2. QED BY <1>1, <1>2, <1>3, <1>4, <1>6, <2>1 DEF SalienteEnOrden
<1>11. EntranteEnOrden'
  <2>1. pc'["largo"] = pc["largo"] /\ Creados' = Creados
    BY <1>2, DeLargo DEF Creados
  <2>2. CASE pc["largo"] # "creando"
    BY <1>2, <2>1, <2>2, DeLargo DEF EntranteEnOrden
  <2>3. ASSUME NEW e, e = largo.entrante, pc["largo"] = "creando"
        PROVE  largo'.entrante = e /\ e \in Creados' /\ Donde(e)' = {} /\ pcb'[e].estado = "NEW"
    <3>1. e \in Creados /\ Donde(e) = {} /\ pcb[e].estado = "NEW"
      BY <2>3 DEF EnLugar, EntranteEnOrden
    <3>2. QED BY <1>2, <1>4, <1>5, <1>6, <2>1, <2>3, <3>1, DeLargo DEF Aparte
  <2>4. QED BY <2>1, <2>2, <2>3 DEF EntranteEnOrden, Donde
<1>12. QED BY <1>9, <1>10, <1>11 DEF EnLugar

\* The EXIT thread starts on a process that had left NEW ...
LEMMA LugarExitDesdeOtro ==
  ASSUME TypeOK, EnLugar, cola["EXIT"] # <<>>, ExitDesdeOtro
  PROVE  EnLugar'
<1>1. PICK h : h = Head(cola["EXIT"])
  OBVIOUS
<1>2. /\ pcb[h].estado \in {"READY", "EXEC", "BLOCKED"} /\ UNCHANGED <<pid, cola, pcb>>
      /\ largo' = [largo EXCEPT !.saliente = h]
      /\ pc["exit"] = "pausa" /\ pc' = [pc EXCEPT !["exit"] = "libera"]
  BY <1>1 DEF ExitDesdeOtro, Va, En, procesos
<1>3. h \in Creados /\ h \in Pids /\ Donde(h) = {"EXIT"} /\ largo.entrante # h
  BY <1>1, PrimeroDeExit
<1>4. EnColas' /\ Donde(h)' = {"EXIT"} /\ Aparte(h)
  BY <1>2, <1>3, DeLargo DEF Donde, EnColas, Aparte, Colas
<1>5. largo'.saliente = h /\ largo.saliente = 0 /\ largo'.entrante = largo.entrante
  BY <1>2, DeLargo DEF TLargo
<1>6. EnSuLugar(h)'
  BY <1>2, <1>3, <1>4, <1>5, LugarFormulaDespues
<1>7. Creados' = Creados \cup {h} /\ SoloDe(h)
  BY <1>2, <1>3, <1>5, DeLargo DEF Creados, SoloDe
<1>8. UnSoloLugar' /\ PidsCreados' /\ BloqueadoEn'
  BY <1>2, <1>3, <1>4, <1>6, <1>7, LugarDeUno DEF EnLugar, BloqueadoEn
<1>9. SalienteEnOrden'
  <2>1. pc'["exit"] = "libera" /\ h \in Creados' /\ cola' = cola
    BY <1>2, <1>3, <1>7, DeLargo
  <2>2. QED BY <1>1, <1>2, <1>5, <2>1 DEF SalienteEnOrden
<1>10. EntranteEnOrden'
  BY <1>2, <1>5, DeLargo DEF EnLugar, EntranteEnOrden, Creados, Donde, Colas
<1>11. QED BY <1>8, <1>9, <1>10 DEF EnLugar

\* ... and removes it in the end.
LEMMA LugarSacaDeExit ==
  ASSUME TypeOK, EnLugar, SacaDeExit
  PROVE  EnLugar'
<1>1. PICK h : h = largo.saliente
  OBVIOUS
<1>2. /\ cola' = [cola EXCEPT !["EXIT"] = SinPrimero(@)]
      /\ pcb' = [pcb EXCEPT ![h].instruccion_io = FALSE]
      /\ largo' = [largo EXCEPT !.saliente = 0] /\ UNCHANGED pid
      /\ pc["exit"] = "saca" /\ pc' = [pc EXCEPT !["exit"] = "orden"]
  BY <1>1 DEF SacaDeExit, Va, En
<1>3. cola["EXIT"] # <<>> /\ h = Head(cola["EXIT"]) /\ pcb[h].estado = "EXIT"
  BY <1>1, <1>2, DeLargo
<1>4. h \in Creados /\ h \in Pids /\ Donde(h) = {"EXIT"} /\ largo.entrante # h
  BY <1>3, PrimeroDeExit
<1>5. EnColas' /\ Donde(h)' = {} /\ Aparte(h)
  <2>1. PICK a \in Colas : a = "EXIT"
    BY DEF Colas, ColasFijas
  <2>2. /\ cola[a] # <<>> /\ h = Head(cola[a]) /\ Donde(h) = {a}
        /\ cola' = [cola EXCEPT ![a] = Tail(@)]
    BY <1>2, <1>3, <1>4, <2>1 DEF SinPrimero
  <2>3. QED BY <2>2, DondeSale, DeLargo
<1>6. largo'.saliente = 0 /\ largo'.entrante = largo.entrante
  BY <1>2, DeLargo DEF TLargo
<1>7. \A q \in Pids : pcb'[q].estado = pcb[q].estado /\ pcb'[q].cola_bloqueado = pcb[q].cola_bloqueado
  BY <1>2, <1>4 DEF TypeOK, PCBs
<1>8. EnSuLugar(h)'
  <2>1. pcb'[h].estado = "EXIT" /\ largo'.saliente # h
    BY <1>3, <1>4, <1>6, <1>7, DeLargo
  <2>2. QED BY <1>5, <2>1, LugarFormulaDespues
<1>9. Creados' = Creados \cup {h} /\ SoloDe(h)
  BY <1>1, <1>2, <1>4, <1>6, <1>7, DeLargo DEF Creados, SoloDe
<1>10. UnSoloLugar' /\ PidsCreados' /\ BloqueadoEn'
  <2>1. pcb'[h].estado # "BLOCKED"
    BY <1>3, <1>4, <1>7
  <2>2. QED BY <1>4, <1>5, <1>8, <1>9, <2>1, LugarDeUno
<1>11. SalienteEnOrden'
  BY <1>2, <1>6, DeLargo DEF SalienteEnOrden
<1>12. EntranteEnOrden'
  <2>1. pc'["largo"] = pc["largo"] /\ Creados' = Creados
    BY <1>2, DeLargo DEF Creados
  <2>2. CASE pc["largo"] # "creando"
    BY <1>6, <2>1, <2>2, DeLargo DEF EntranteEnOrden
  <2>3. ASSUME NEW e, e = largo.entrante, pc["largo"] = "creando"
        PROVE  largo'.entrante = e /\ e \in Creados' /\ Donde(e)' = {} /\ pcb'[e].estado = "NEW"
    <3>1. e \in Creados /\ Donde(e) = {} /\ pcb[e].estado = "NEW"
      BY <2>3 DEF EnLugar, EntranteEnOrden
    <3>2. QED BY <1>4, <1>5, <1>6, <1>7, <2>1, <2>3, <3>1, DeLargo DEF Aparte
  <2>4. QED BY <2>1, <2>2, <2>3 DEF EntranteEnOrden, Donde
<1>13. QED BY <1>10, <1>11, <1>12 DEF EnLugar

-----------------------------------------------------------------------------
(* Everybody in place, in every step *)

\* The steps in which nobody moves: FINALIZAR_PROCESO only asks or finds
\* nothing to do, a thread waits, a semaphore is taken.
NadieSeVa ==
  \/ Usuario /\ ~IniciarProceso
  \/ Consola /\ ~FinalizarExtrae
  \/ EsperaOrdenCorto \/ NoHayListos \/ EnviaProcesoACpu \/ RecibeDesalojo \/ AvisaExit
  \/ TrataWait \/ WaitConcede \/ TrataSignal \/ SignalDevuelve \/ TrataIO \/ IOEnvia
  \/ RespondeCpu \/ LimpiaDesalojo
  \/ \E i \in Interfaces : Manejador(i) /\ ~DesbloqueaIO(i)
  \/ Entorno \/ UNCHANGED vars

\* They change neither the queues nor the states.
LEMMA Quietos ==
  ASSUME TypeOK, Control, NadieSeVa
  PROVE  /\ UNCHANGED cola /\ Etapas
         /\ \A q \in Pids : /\ pcb'[q].estado = pcb[q].estado
                            /\ pcb'[q].cola_bloqueado = pcb[q].cola_bloqueado
<1> USE DEF NadieSeVa
<1>1. Etapas
  BY EtapasAjenas DEF Corto
<1>2. pcb \in [Pids -> PCBs]
  BY DEF TypeOK
<1>3. UNCHANGED cola
  <2>1. CASE (Usuario /\ ~IniciarProceso) \/ (Consola /\ ~FinalizarExtrae)
    BY <2>1, NeutrosConsola
  <2>2. ASSUME NEW i \in Interfaces, Manejador(i), ~DesbloqueaIO(i) PROVE UNCHANGED cola
    BY <2>2, NeutrosManejador
  <2>3. CASE Entorno \/ UNCHANGED vars
    BY <2>3, AjenoEntorno DEF vars, procesos
  <2>4. QED BY <2>1, <2>2, <2>3
    DEF EsperaOrdenCorto, NoHayListos, EnviaProcesoACpu, RecibeDesalojo, AvisaExit, TrataWait,
      WaitConcede, TrataSignal, SignalDevuelve, TrataIO, IOEnvia, RespondeCpu, LimpiaDesalojo, procesos
<1> DEFINE Igual == \A q \in Pids : /\ pcb'[q].estado = pcb[q].estado
                                    /\ pcb'[q].cola_bloqueado = pcb[q].cola_bloqueado
\* One field of one PCB, other than the two that count.
<1>4. ASSUME NEW p, NEW v,
             \/ pcb' = [pcb EXCEPT ![p].parcial = v]
             \/ pcb' = [pcb EXCEPT ![p].desalojo = v]
             \/ pcb' = [pcb EXCEPT ![p].pedido_exit = v]
             \/ pcb' = [pcb EXCEPT ![p].instruccion_io = v]
             \/ \E r : pcb' = [pcb EXCEPT ![p].recursos[r] = v]
      PROVE  Igual
  <2> SUFFICES ASSUME NEW q \in Pids
               PROVE  pcb'[q].estado = pcb[q].estado /\ pcb'[q].cola_bloqueado = pcb[q].cola_bloqueado
    OBVIOUS
  <2>1. CASE pcb' = [pcb EXCEPT ![p].parcial = v] BY <1>2, <2>1 DEF PCBs
  <2>2. CASE pcb' = [pcb EXCEPT ![p].desalojo = v] BY <1>2, <2>2 DEF PCBs
  <2>3. CASE pcb' = [pcb EXCEPT ![p].pedido_exit = v] BY <1>2, <2>3 DEF PCBs
  <2>4. CASE pcb' = [pcb EXCEPT ![p].instruccion_io = v] BY <1>2, <2>4 DEF PCBs
  <2>5. ASSUME NEW r, pcb' = [pcb EXCEPT ![p].recursos[r] = v]
        PROVE  pcb'[q].estado = pcb[q].estado /\ pcb'[q].cola_bloqueado = pcb[q].cola_bloqueado
    BY <1>2, <2>5 DEF PCBs
  <2>6. QED BY <1>4, <2>1, <2>2, <2>3, <2>4, <2>5
<1>5. Igual \/ UNCHANGED pcb
  <2>1. CASE (Usuario /\ ~IniciarProceso) \/ (Consola /\ ~FinalizarExtrae /\ ~MarcaPedidoFinalizacion)
    BY <2>1 DEF Usuario, Consola, PideFinalizar, PideComando, PideComandoGlobal, IniciarPlanificacion,
      SubeMultiprogramacion, PideBajarMultiprogramacion, TomaPausada, DetenerPlanificacion,
      ProcesoEstado, FinalizarSinEfecto, FinalizarEnEjecucion, FinalizarCuelga, FinalizarNulo,
      BajaMultiprogramacion, procesos
  <2>2. CASE MarcaPedidoFinalizacion
    BY <1>4, <2>2 DEF MarcaPedidoFinalizacion
  <2>3. CASE EsperaOrdenCorto \/ NoHayListos \/ EnviaProcesoACpu \/ TrataWait \/ TrataSignal \/ RespondeCpu
    BY <2>3 DEF EsperaOrdenCorto, NoHayListos, EnviaProcesoACpu, TrataWait, TrataSignal, RespondeCpu,
      procesos
  <2>4. CASE AvisaExit \/ TrataIO \/ IOEnvia \/ LimpiaDesalojo
    BY <1>4, <2>4 DEF AvisaExit, TrataIO, IOEnvia, LimpiaDesalojo
  <2>5. CASE RecibeDesalojo
    <3>1. PICK p : p = Head(cola["RUNNING"])
      OBVIOUS
    <3>2. PICK v : v = IF pcb[p].desalojo = "SIN_DESALOJAR" THEN "DESALOJADO" ELSE pcb[p].desalojo
      OBVIOUS
    <3>3. pcb' = [pcb EXCEPT ![p].desalojo = v]
      BY <2>5, <3>1, <3>2 DEF RecibeDesalojo
    <3>4. QED BY <1>4, <3>3
  <2>6. CASE WaitConcede \/ SignalDevuelve
    <3>1. PICK p : p = corto.proceso
      OBVIOUS
    <3>2. PICK r : r = corto.arg
      OBVIOUS
    <3>3. \/ pcb' = [pcb EXCEPT ![p].recursos[r] = pcb[p].recursos[r] + 1]
          \/ pcb' = [pcb EXCEPT ![p].recursos[r] = Devuelto(pcb[p].recursos[r])]
      BY <2>6, <3>1, <3>2 DEF WaitConcede, SignalDevuelve
    <3>4. PICK v : pcb' = [pcb EXCEPT ![p].recursos[r] = v]
      BY <3>3
    <3>5. QED BY <1>4, <3>4
  <2>7. ASSUME NEW i \in Interfaces, Manejador(i), ~DesbloqueaIO(i) PROVE Igual \/ UNCHANGED pcb
    <3>1. PICK p : p = Head(cola[i])
      OBVIOUS
    <3>2. UNCHANGED pcb \/ pcb' = [pcb EXCEPT ![p].instruccion_io = FALSE]
      BY <2>7, <3>1 DEF Manejador, RecibeIOLiberar, TomaMediano, NadieQueDesbloquear, AtiendeSiguiente,
        LiberaInterfaz, procesos
    <3>3. QED BY <1>4, <3>2
  <2>8. CASE Entorno \/ UNCHANGED vars
    BY <2>8, AjenoEntorno DEF vars, procesos
  <2>9. QED BY <2>1, <2>2, <2>3, <2>4, <2>5, <2>6, <2>7, <2>8
<1>6. QED BY <1>1, <1>3, <1>5

\* They leave everybody in place.
LEMMA LugarNadie ==
  ASSUME TypeOK, Control, EnLugar, NadieSeVa
  PROVE  EnLugar'
BY Quietos, LugarQuieto

\* The EXIT thread, from its order to the removal.
LEMMA LugarExit ==
  ASSUME TypeOK, Control, SinDespertarPerdido, EnLugar, Exit
  PROVE  EnLugar'
<1>1. pc \in [Hilos -> Etiquetas] /\ {"exit", "largo"} \subseteq Hilos /\ pcb \in [Pids -> PCBs]
      /\ largo \in TLargo
  BY DeLargo DEF TypeOK
<1>2. CASE EsperaOrdenExit \/ LiberaTomaInst \/ LiberaMemoria \/ MemoriaLiberada
  <2>1. Etapas
    BY <1>1, <1>2 DEF EsperaOrdenExit, LiberaTomaInst, LiberaMemoria, MemoriaLiberada, Etapas, En, Va,
      procesos, locales, TLargo
  <2>2. UNCHANGED <<cola, pcb>>
    BY <1>2 DEF EsperaOrdenExit, LiberaTomaInst, LiberaMemoria, MemoriaLiberada, procesos
  <2>3. QED BY <2>1, <2>2, LugarQuieto
<1>3. CASE LiberaInstancia
  <2>1. Etapas
    BY <1>1, <1>3 DEF LiberaInstancia, Etapas, En, Va, locales
  <2>2. PICK s : s = largo.saliente
    OBVIOUS
  <2>3. PICK r : r = largo.recurso
    OBVIOUS
  <2>4. PICK pcbs : pcbs = [pcb EXCEPT ![s].recursos[r] = Devuelto(@)]
    OBVIOUS
  <2>5. r \in Recursos /\ s \in Pids /\ EntregaInstancia(r, pcbs)
    BY <1>1, <1>3, <2>2, <2>3, <2>4, DeLargo DEF LiberaInstancia, Control, LargoEnOrden, En
  <2>6. pcbs \in [Pids -> PCBs]
    <3>1. PICK n : n = Devuelto(pcb[s].recursos[r])
      OBVIOUS
    <3>2. pcb[s].recursos[r] \in Nat
      BY <1>1, <2>5, ValorPCB
    <3>3. n \in Nat
      BY <3>1, <3>2 DEF Devuelto
    <3>4. [pcb[s] EXCEPT !.recursos[r] = n] \in PCBs
      BY <1>1, <2>5, <3>3, CampoPCB
    <3>5. pcbs = [pcb EXCEPT ![s] = [pcb[s] EXCEPT !.recursos[r] = n]]
      BY <2>4, <3>1
    <3>6. QED BY <1>1, <2>5, <3>4, <3>5
  <2>7. \A q \in Pids : pcbs[q].estado = pcb[q].estado /\ pcbs[q].cola_bloqueado = pcb[q].cola_bloqueado
    BY <1>1, <2>4 DEF PCBs
  <2>8. QED BY <2>1, <2>5, <2>6, <2>7, LugarEntrega
<1>4. CASE ExitDesdeNew \/ ExitDesdeOtro
  <2>1. pc["exit"] = "pausa"
    BY <1>4 DEF ExitDesdeNew, ExitDesdeOtro, En
  <2>2. /\ sem["exit"] \in Nat /\ cola["EXIT"] \in Seq(Pids)
        /\ Len(cola["EXIT"]) = sem["exit"] + 1 + Uno(En("corto", "avisa_exit"))
    BY <2>1 DEF TypeOK, Semaforos, SemaforosFijos, Colas, ColasFijas, SinDespertarPerdido,
      ExitContado, Uno
  <2>3. cola["EXIT"] # <<>>
    BY <2>2 DEF Uno
  <2>4. QED BY <1>4, <2>3, LugarExitDesdeNew, LugarExitDesdeOtro
<1>5. QED BY <1>2, <1>3, <1>4, LugarMarcaExit, LugarSacaDeExit DEF Exit

\* Every step keeps every process in its place.
LEMMA LugarPaso ==
  ASSUME TypeOK, Control, SinDespertarPerdido, EnLugar, RunningEnOrden, ObjetivoCreado, [Next]_vars
  PROVE  EnLugar'
<1>1. CASE Usuario
  BY <1>1, LugarIniciar, LugarNadie DEF NadieSeVa
<1>2. CASE Consola
  BY <1>2, LugarFinalizarExtrae, LugarNadie DEF NadieSeVa
<1>3. CASE SignalEntrega
  <2>1. PICK r : r = corto.arg
    OBVIOUS
  <2>2. r \in Recursos /\ EntregaInstancia(r, pcb)
    BY <1>3, <2>1 DEF SignalEntrega, Control, CortoEnOrden, En
  <2>3. pcb \in [Pids -> PCBs]
    BY DEF TypeOK
  <2>4. Etapas
    BY <1>3, EtapasAjenas DEF Corto
  <2>5. QED BY <2>2, <2>3, <2>4, LugarEntrega
<1>4. CASE Corto /\ ~SignalEntrega
  <2>1. Etapas
    BY <1>4, EtapasAjenas
  <2>2. QED BY <1>4, <2>1, LugarElige, LugarFinDeRafaga, LugarNadie DEF Corto, NadieSeVa
<1>5. CASE Largo
  <2>1. CASE EsperaOrdenLargo \/ TomaGrado \/ NewVacia
    <3>1. Etapas
      BY <2>1, DeLargo DEF EsperaOrdenLargo, TomaGrado, NewVacia, Etapas, En, Va, procesos, locales
    <3>2. UNCHANGED <<cola, pcb>>
      BY <2>1 DEF EsperaOrdenLargo, TomaGrado, NewVacia, procesos
    <3>3. QED BY <3>1, <3>2, LugarQuieto
  <2>2. QED BY <1>5, <2>1, LugarSacaDeNew, LugarPasaAReady DEF Largo
<1>6. CASE Exit
  BY <1>6, LugarExit
<1>7. ASSUME NEW i \in Interfaces, Manejador(i) PROVE EnLugar'
  <2>1. Etapas
    BY <1>7, EtapasAjenas
  <2>2. CASE DesbloqueaIO(i)
    BY <1>7, <2>1, <2>2, LugarDesbloquea
  <2>3. CASE ~DesbloqueaIO(i)
    BY <1>7, <2>3, LugarNadie DEF NadieSeVa
  <2>4. QED BY <2>2, <2>3
<1>8. CASE Entorno \/ UNCHANGED vars
  BY <1>8, LugarNadie DEF NadieSeVa
<1>9. QED BY <1>1, <1>2, <1>3, <1>4, <1>5, <1>6, <1>7, <1>8, PasosDelKernel

-----------------------------------------------------------------------------
(* Resources *)

\* No instance is available while somebody waits for it, inside the critical
\* section or out of it: the two are looked at and changed in one go.
SinEsperaInutil == \A r \in Recursos : instancias[r] > 0 => cola[r] = <<>>

\* A process waits only for a resource without instances, and an instance
\* becomes available only when nobody waits.
LEMMA RecursosPaso ==
  ASSUME TypeOK, Control, SinEsperaInutil, [Next]_vars
  PROVE  SinEsperaInutil'
<1>1. /\ cola \in [Colas -> Seq(Pids)] /\ instancias \in [Recursos -> Nat]
      /\ Recursos \subseteq Colas /\ Interfaces \subseteq Colas
      /\ {"NEW", "READY", "READY_VRR", "RUNNING", "EXIT"} \subseteq Colas
      /\ Recursos \cap ({"NEW", "READY", "READY_VRR", "RUNNING", "EXIT"} \cup Interfaces) = {}
  BY DEF TypeOK, Colas, ColasFijas
<1>2. CASE UNCHANGED instancias /\ \A r \in Recursos : cola'[r] = cola[r]
  BY <1>2 DEF SinEsperaInutil
<1>3. CASE Usuario \/ (Consola /\ ~FinalizarExtrae)
  <2>1. UNCHANGED instancias
    BY <1>3 DEF Usuario, Consola, IniciarProceso, PideFinalizar, PideComando, PideComandoGlobal,
      IniciarPlanificacion, SubeMultiprogramacion, PideBajarMultiprogramacion, TomaPausada,
      DetenerPlanificacion, ProcesoEstado, FinalizarSinEfecto, FinalizarEnEjecucion,
      MarcaPedidoFinalizacion, FinalizarCuelga, FinalizarNulo, BajaMultiprogramacion, bloqueos
  <2>2. \A r \in Recursos : cola'[r] = cola[r]
    <3>1. CASE IniciarProceso
      BY <1>1, <3>1 DEF IniciarProceso
    <3>2. CASE ~IniciarProceso
      BY <1>3, <3>2, NeutrosConsola
    <3>3. QED BY <3>1, <3>2
  <2>3. QED BY <1>2, <2>1, <2>2
<1>4. CASE FinalizarExtrae
  <2>1. PICK p : p = consola.objetivo
    OBVIOUS
  <2>2. PICK c : c = ColaDe(p)
    OBVIOUS
  <2>3. PICK s : s = Extraer(cola[c], p)
    OBVIOUS
  <2>4. /\ cola' = [cola EXCEPT ![c] = s, !["EXIT"] = Append(@, p)]
        /\ UNCHANGED instancias /\ Contains(cola[c], p)
    BY <1>4, <2>1, <2>2, <2>3 DEF FinalizarExtrae, bloqueos
  <2>5. ASSUME NEW r \in Recursos, cola[r] = <<>> PROVE cola'[r] = <<>>
    <3>1. r # c
      BY <2>4, <2>5 DEF Contains
    <3>2. QED BY <1>1, <2>4, <2>5, <3>1
  <2>6. QED BY <2>4, <2>5 DEF SinEsperaInutil
\* A step of the scheduler that moves a process between queues of no resource.
<1>5. ASSUME NEW p, NEW a \in Colas \ Recursos, NEW b \in Colas \ Recursos, Pasa(p, a, b),
             UNCHANGED instancias
      PROVE  SinEsperaInutil'
  BY <1>1, <1>2, <1>5 DEF Pasa
<1>6. CASE EligeProceso
  <2>1. PICK o \in {"READY", "READY_VRR"} : o = ColaDeListos
    BY DEF ColaDeListos
  <2>2. PICK p : p = Head(cola[o])
    OBVIOUS
  <2>3. Pasa(p, o, "RUNNING") /\ UNCHANGED instancias
    BY <1>6, <2>1, <2>2 DEF EligeProceso, bloqueos
  <2>4. o \in Colas \ Recursos /\ "RUNNING" \in Colas \ Recursos
    BY <1>1
  <2>5. QED BY <1>5, <2>3, <2>4
<1>7. CASE TrataFin \/ TrataRecursoInvalido \/ TrataIOInvalida \/ TrataFinQuantum \/ IOBloquea
  <2>1. PICK p : p = corto.proceso
    OBVIOUS
  <2>2. PICK b : b \in Colas \ Recursos /\ Pasa(p, "RUNNING", b)
    <3>1. \/ Pasa(p, "RUNNING", "EXIT") \/ Pasa(p, "RUNNING", "READY")
          \/ corto.arg \in Interfaces /\ Pasa(p, "RUNNING", corto.arg)
      BY <1>7, <2>1 DEF TrataFin, TrataRecursoInvalido, TrataIOInvalida, TrataFinQuantum, IOBloquea,
        MandaAExit, Control, CortoEnOrden, En
    <3>2. QED BY <1>1, <3>1
  <2>3. UNCHANGED instancias
    BY <1>7 DEF TrataFin, TrataRecursoInvalido, TrataIOInvalida, TrataFinQuantum, IOBloquea, MandaAExit,
      bloqueos
  <2>4. "RUNNING" \in Colas \ Recursos
    BY <1>1
  <2>5. QED BY <1>5, <2>2, <2>3, <2>4
<1>8. CASE WaitBloquea
  <2>1. PICK r : r = corto.arg
    OBVIOUS
  <2>2. r \in Recursos /\ instancias[r] = 0 /\ UNCHANGED instancias
    BY <1>8, <2>1 DEF WaitBloquea, Control, CortoEnOrden, En, bloqueos
  <2>3. Pasa(corto.proceso, "RUNNING", r)
    BY <1>8, <2>1 DEF WaitBloquea
  <2>4. \A x \in Recursos : x # r => cola'[x] = cola[x]
    BY <1>1, <2>3 DEF Pasa
  <2>5. QED BY <2>2, <2>4 DEF SinEsperaInutil
<1>9. CASE WaitConcede
  <2>1. PICK r : r = corto.arg
    OBVIOUS
  <2>2. /\ r \in Recursos /\ instancias[r] > 0 /\ UNCHANGED cola
        /\ instancias' = [instancias EXCEPT ![r] = @ - 1]
    BY <1>9, <2>1 DEF WaitConcede, Control, CortoEnOrden, En
  <2>3. QED BY <1>1, <2>2 DEF SinEsperaInutil
<1>10. ASSUME NEW r \in Recursos, NEW pcbs, EntregaInstancia(r, pcbs)
       PROVE  SinEsperaInutil'
  <2>1. CASE HayBloqueado(r)
    <3>1. PICK q : q = Head(cola[r])
      OBVIOUS
    <3>2. Pasa(q, r, "READY") /\ UNCHANGED instancias /\ cola[r] # <<>>
      BY <1>10, <2>1, <3>1 DEF EntregaInstancia, HayBloqueado
    <3>3. \A x \in Recursos : x # r => cola'[x] = cola[x]
      BY <1>1, <3>2 DEF Pasa
    <3>4. QED BY <3>2, <3>3 DEF SinEsperaInutil
  <2>2. CASE ~HayBloqueado(r)
    <3>1. UNCHANGED cola /\ cola[r] = <<>> /\ instancias' = [instancias EXCEPT ![r] = @ + 1]
      BY <1>10, <2>2 DEF EntregaInstancia, HayBloqueado
    <3>2. QED BY <1>1, <3>1 DEF SinEsperaInutil
  <2>3. QED BY <2>1, <2>2
<1>11. CASE SignalEntrega
  BY <1>10, <1>11 DEF SignalEntrega, Control, CortoEnOrden, En
<1>12. CASE LiberaInstancia
  <2>1. PICK pcbs : largo.recurso \in Recursos /\ EntregaInstancia(largo.recurso, pcbs)
    BY <1>12 DEF LiberaInstancia, Control, LargoEnOrden, En
  <2>2. QED BY <1>10, <2>1
<1>13. CASE \/ EsperaOrdenCorto \/ NoHayListos \/ EnviaProcesoACpu \/ RecibeDesalojo \/ AvisaExit
            \/ TrataWait \/ TrataSignal \/ SignalDevuelve \/ TrataIO \/ IOEnvia \/ RespondeCpu
            \/ LimpiaDesalojo
  BY <1>2, <1>13
    DEF EsperaOrdenCorto, NoHayListos, EnviaProcesoACpu, RecibeDesalojo, AvisaExit, TrataWait,
      TrataSignal, SignalDevuelve, TrataIO, IOEnvia, RespondeCpu, LimpiaDesalojo, procesos, bloqueos
<1>14. CASE Largo \/ (Exit /\ ~LiberaInstancia)
  <2>1. UNCHANGED instancias
    BY <1>14 DEF Largo, EsperaOrdenLargo, TomaGrado, SacaDeNew, NewVacia, PasaAReady, Exit,
      EsperaOrdenExit, ExitDesdeNew, ExitDesdeOtro, LiberaTomaInst, LiberaMemoria, MemoriaLiberada,
      MarcaExit, SacaDeExit, bloqueos
  <2>2. \A r \in Recursos : cola'[r] = cola[r]
    BY <1>1, <1>14 DEF Largo, EsperaOrdenLargo, TomaGrado, SacaDeNew, NewVacia, PasaAReady, Exit,
      EsperaOrdenExit, ExitDesdeNew, ExitDesdeOtro, LiberaTomaInst, LiberaMemoria, MemoriaLiberada,
      MarcaExit, SacaDeExit, procesos
  <2>3. QED BY <1>2, <2>1, <2>2
<1>15. ASSUME NEW i \in Interfaces, Manejador(i) PROVE SinEsperaInutil'
  <2>1. UNCHANGED instancias
    BY <1>15 DEF Manejador, RecibeIOLiberar, TomaMediano, DesbloqueaIO, NadieQueDesbloquear,
      AtiendeSiguiente, LiberaInterfaz, bloqueos
  <2>2. CASE ~DesbloqueaIO(i)
    BY <1>2, <1>15, <2>1, <2>2, NeutrosManejador
  <2>3. CASE DesbloqueaIO(i)
    <3>1. PICK p : p = Head(cola[i])
      OBVIOUS
    <3>2. PICK d \in {"READY", "READY_VRR"} : Pasa(p, i, d)
      BY <2>3, <3>1 DEF DesbloqueaIO
    <3>3. i \in Colas \ Recursos /\ d \in Colas \ Recursos
      BY <1>1
    <3>4. QED BY <1>5, <2>1, <3>2, <3>3
  <2>4. QED BY <2>2, <2>3
<1>16. CASE Entorno \/ UNCHANGED vars
  BY <1>2, <1>16, AjenoEntorno DEF vars, procesos, bloqueos
<1>17. QED BY <1>3, <1>4, <1>6, <1>7, <1>8, <1>9, <1>11, <1>12, <1>13, <1>14, <1>15, <1>16,
            PasosDelKernel DEF Consola, Corto

-----------------------------------------------------------------------------
(* The theorems *)

\* One place per process is inductive only with what the threads hold in
\* their locals: the process coming in, the one leaving, the one in the CPU
\* and the one the user names.
InvLugar == Inv /\ EnLugar /\ RunningEnOrden /\ ObjetivoCreado /\ SinEsperaInutil

\* In the beginning there is nobody anywhere.
LEMMA LugarInicial == Init => InvLugar
<1> SUFFICES ASSUME Init PROVE InvLugar
  OBVIOUS
<1>1. Inv
  BY InvInicial
<1>2. Creados = {}
  BY DEF Init, Creados
<1>3. \A c \in Colas : cola[c] = <<>>
  BY DEF Init
<1>4. \A p : Donde(p) = {}
  <2>1. \A p : ~Contains(<<>>, p)
    BY DEF Contains
  <2>2. QED BY <1>3, <2>1 DEF Donde
<1>5. UnSoloLugar /\ PidsCreados
  BY <1>2, <1>3, <1>4 DEF UnSoloLugar, PidsCreados, IsInjective
<1>6. SalienteEnOrden /\ EntranteEnOrden
  BY DEF Init, SalienteEnOrden, EntranteEnOrden, Hilos, HilosFijos
<1>7. BloqueadoEn
  BY DEF Init, BloqueadoEn, PCBNuevo
<1>8. RunningEnOrden /\ ObjetivoCreado /\ SinEsperaInutil
  BY <1>3 DEF Init, RunningEnOrden, ObjetivoCreado, SinEsperaInutil, Hilos, HilosFijos, Colas, ColasFijas
<1>9. QED BY <1>1, <1>5, <1>6, <1>7, <1>8 DEF InvLugar, EnLugar

\* The step lemmas together.
LEMMA InvLugarPaso == InvLugar /\ [Next]_vars => InvLugar'
<1> SUFFICES ASSUME InvLugar, [Next]_vars PROVE InvLugar'
  OBVIOUS
<1>1. Inv'
  BY InvPaso DEF InvLugar
<1>2. EnLugar'
  BY LugarPaso DEF InvLugar, Inv
<1>3. RunningEnOrden' /\ ObjetivoCreado' /\ SinEsperaInutil'
  BY RunningPaso, ObjetivoPaso, RecursosPaso DEF InvLugar, Inv
<1>4. QED BY <1>1, <1>2, <1>3 DEF InvLugar

\* The invariant of the places holds in every behaviour of the kernel.
THEOREM InvarianteLugar == Spec => []InvLugar
BY LugarInicial, InvLugarPaso, PTL DEF Spec

\* A process is in one queue, the one its state says or EXIT, whatever the
\* interleaving of the five threads, the handlers and the user.
THEOREM CadaUnoEnSuLugar == Spec => []UnSoloLugar
<1>1. InvLugar => UnSoloLugar
  BY DEF InvLugar, EnLugar
<1>2. QED BY <1>1, InvarianteLugar, PTL

\* The EXIT thread never finds its queue empty, nor in it a process that has
\* ended already.
THEOREM ExitEncuentra == Spec => []ExitSinTratar
<1>1. InvLugar => ExitSinTratar
  <2> SUFFICES ASSUME InvLugar, pc["exit"] = "pausa"
               PROVE  cola["EXIT"] # <<>> /\ pcb[Head(cola["EXIT"])].estado # "EXIT"
    BY DEF ExitSinTratar, En
  <2>1. TypeOK /\ EnLugar /\ ExitContado
    BY DEF InvLugar, Inv, SinDespertarPerdido
  <2>2. /\ sem["exit"] \in Nat /\ cola["EXIT"] \in Seq(Pids)
        /\ Len(cola["EXIT"]) = sem["exit"] + 1 + Uno(En("corto", "avisa_exit"))
    BY <2>1 DEF TypeOK, Semaforos, SemaforosFijos, Colas, ColasFijas, ExitContado, Uno
  <2>3. cola["EXIT"] # <<>>
    BY <2>2 DEF Uno
  <2>4. PICK h : h = Head(cola["EXIT"])
    OBVIOUS
  <2>5. h \in Pids /\ (pcb[h].estado = "EXIT" => largo.saliente = h)
    BY <2>1, <2>3, <2>4, PrimeroDeExit
  <2>6. largo.saliente = 0 /\ 0 \notin Pids
    BY <2>1, DeLargo
  <2>7. QED BY <2>3, <2>4, <2>5, <2>6
<1>2. QED BY <1>1, InvarianteLugar, PTL

\* Nobody waits for a resource that has instances.
THEOREM NadieEsperaDeMas == Spec => []RecursoCoherente
<1>1. InvLugar => RecursoCoherente
  BY DEF InvLugar, SinEsperaInutil, RecursoCoherente
<1>2. QED BY <1>1, InvarianteLugar, PTL

-----------------------------------------------------------------------------
(* A stopped planning *)

\* Who is inside of the four pausada semaphores keeps everybody else out.
LEMMA Detenida ==
  ASSUME TypeOK, MutexCoherente, consola.tomados = 4
  PROVE  /\ \A e, a : Sems(e, a) => e \cap Pausadas = {}
         /\ pc["largo"] # "creando" /\ pc["corto"] \notin {"wait", "io"}
         /\ \A i \in Interfaces : pc[i] # "cola"
<1>1. ASSUME NEW j \in 1 .. 4
      PROVE  Pausada[j] \in Mutexes /\ "consola" \in Duenos(Pausada[j])
  <2>1. Pausada[j] \in Mutexes
    BY NombresDeMutexes
  <2>2. consola.tomados >= j
    OBVIOUS
  <2>3. QED BY <2>1, <2>2 DEF Duenos, Hilos, HilosFijos
<1>2. ASSUME NEW s \in Pausadas PROVE sem[s] = 0 /\ \A h \in Duenos(s) : h = "consola"
  <2>1. PICK j \in 1 .. 4 : s = Pausada[j]
    BY NombresDeMutexes
  <2>2. s \in Mutexes /\ "consola" \in Duenos(s)
    BY <1>1, <2>1
  <2>3. QED BY <2>2 DEF MutexCoherente
<1>3. {"pausada0", "pausada1", "pausada2"} \subseteq Pausadas
  BY NombresDeMutexes
<1>4. ASSUME NEW e, NEW a, Sems(e, a) PROVE e \cap Pausadas = {}
  BY <1>2, <1>4 DEF Sems
<1>5. "largo" \notin Duenos("pausada0") /\ "corto" \notin Duenos("pausada1")
  BY <1>2, <1>3
<1>6. \A i \in Interfaces : i \notin Duenos("pausada2")
  BY <1>2, <1>3, NombresDeMutexes
<1>7. pc["largo"] # "creando" /\ pc["corto"] \notin {"wait", "io"}
  BY <1>5 DEF Duenos, Hilos, HilosFijos
<1>8. \A i \in Interfaces : pc[i] # "cola"
  BY <1>6 DEF Duenos, Hilos
<1>9. QED BY <1>4, <1>7, <1>8

\* What a step may do to the queues then.
PasoDetenido ==
  /\ \A c \in Colas \ {"NEW", "EXIT"} : cola'[c] = cola[c]
  /\ cola'["NEW"] # cola["NEW"] => pid' = pid + 1
  /\ cola'["EXIT"] \in {cola["EXIT"], SinPrimero(cola["EXIT"])}

\* The steps of a stopped planning, while the console gives no order.
LEMMA DetenidaPaso ==
  ASSUME TypeOK, Control, MutexCoherente, consola.tomados = 4, consola' = consola, [Next]_vars
  PROVE  PasoDetenido
<1>1. /\ cola \in [Colas -> Seq(Pids)] /\ {"NEW", "EXIT"} \subseteq Colas
      /\ {"pausada0", "pausada1", "pausada2"} \subseteq Pausadas
      /\ "corto" \in Hilos
  BY NombresDeMutexes DEF TypeOK, Colas, ColasFijas, Hilos, HilosFijos
<1>2. CASE UNCHANGED cola
  BY <1>2 DEF PasoDetenido
<1>3. CASE NadieSeVa
  BY <1>2, <1>3, Quietos
\* The steps that must get in are kept out.
<1>4. ASSUME NEW e, NEW a, Sems(e, a), "pausada0" \in e \/ "pausada1" \in e \/ "pausada2" \in e
      PROVE  FALSE
  BY <1>1, <1>4, Detenida
<1>5. CASE IniciarProceso
  BY <1>1, <1>5 DEF IniciarProceso, PasoDetenido
<1>6. ~FinalizarExtrae
  BY DEF FinalizarExtrae, ObjetivoEn, FinComando, TypeOK, TConsola
<1>7. ASSUME NEW r, NEW pcbs PROVE ~EntregaInstancia(r, pcbs)
  <2>1. CASE HayBloqueado(r)
    BY <1>4, <2>1 DEF EntregaInstancia
  <2>2. CASE ~HayBloqueado(r)
    BY <1>4, <2>2 DEF EntregaInstancia
  <2>3. QED BY <2>1, <2>2
<1>8. ~SignalEntrega /\ ~LiberaInstancia
  BY <1>7 DEF SignalEntrega, LiberaInstancia
<1>9. \A a : ~PasoCorto(a)
  BY <1>4 DEF PasoCorto
<1>10. ~EligeProceso /\ ~TrataFin /\ ~TrataRecursoInvalido /\ ~TrataFinQuantum /\ ~TrataIOInvalida
  BY <1>9 DEF EligeProceso, TrataFin, TrataRecursoInvalido, MandaAExit, TrataFinQuantum, TrataIOInvalida
<1>11. ~WaitBloquea /\ ~IOBloquea
  BY Detenida DEF WaitBloquea, IOBloquea, En
<1>12. ASSUME NEW i \in Interfaces PROVE ~DesbloqueaIO(i)
  BY Detenida DEF DesbloqueaIO, En
<1>13. CASE Largo
  <2>1. ~SacaDeNew
    BY <1>4 DEF SacaDeNew
  <2>2. ~PasaAReady
    BY Detenida DEF PasaAReady, En
  <2>3. UNCHANGED cola
    BY <1>13, <2>1, <2>2 DEF Largo, EsperaOrdenLargo, TomaGrado, NewVacia, procesos
  <2>4. QED BY <1>2, <2>3
<1>14. CASE Exit
  <2>1. CASE SacaDeExit
    BY <1>1, <2>1 DEF SacaDeExit, PasoDetenido
  <2>2. CASE ~SacaDeExit
    <3>1. UNCHANGED cola
      BY <1>8, <1>14, <2>2 DEF Exit, EsperaOrdenExit, ExitDesdeNew, ExitDesdeOtro, LiberaTomaInst,
        LiberaMemoria, MemoriaLiberada, MarcaExit, procesos
    <3>2. QED BY <1>2, <3>1
  <2>3. QED BY <2>1, <2>2
<1>15. CASE Usuario \/ Consola
  BY <1>3, <1>5, <1>6, <1>15 DEF NadieSeVa
<1>16. CASE Corto
  BY <1>3, <1>8, <1>10, <1>11, <1>16 DEF Corto, NadieSeVa
<1>17. ASSUME NEW i \in Interfaces, Manejador(i) PROVE PasoDetenido
  BY <1>3, <1>12, <1>17 DEF NadieSeVa
<1>18. CASE Entorno \/ UNCHANGED vars
  BY <1>3, <1>18 DEF NadieSeVa
<1>19. QED BY <1>13, <1>14, <1>15, <1>16, <1>17, <1>18, PasosDelKernel

\* A stopped planning stays stopped: while the console holds the semaphores
\* and gives no order, no process changes queue but the new ones and those
\* that have ended.
THEOREM DetenidaQuieta == Spec => PlanificacionDetenida
<1>1. /\ InvLugar /\ MutexCoherente /\ [Next]_vars
      => [consola.tomados = 4 /\ UNCHANGED consola =>
            /\ \A c \in Colas \ {"NEW", "EXIT"} : cola'[c] = cola[c]
            /\ cola'["NEW"] # cola["NEW"] => pid' = pid + 1
            /\ cola'["EXIT"] \in {cola["EXIT"], SinPrimero(cola["EXIT"])}]_vars
  BY DetenidaPaso DEF InvLugar, Inv, PasoDetenido
<1>2. QED BY <1>1, InvarianteLugar, ExclusionMutua, PTL DEF Spec, PlanificacionDetenida

-----------------------------------------------------------------------------
(* The processes the user has asked to end *)

\* A process in EXIT that did not come from the CPU came from the user, who
\* has marked it.
PedidoMarcado ==
  \A p \in Pids : Contains(cola["EXIT"], p) /\ pcb[p].estado \in Detenibles => pcb[p].pedido_exit

\* The mark is never erased: q is any process but one just created.
PedidoQueda == \A q \in Pids : pcb[q].pedido_exit => pcb'[q].pedido_exit

\* Nobody comes to EXIT, and of those there nobody comes back.
LEMMA PedidoQuieto ==
  ASSUME PedidoMarcado, PedidoQueda, cola'["EXIT"] = cola["EXIT"],
         \A q \in Pids : Contains(cola["EXIT"], q) => pcb'[q].estado \in {pcb[q].estado, "EXEC", "EXIT"}
  PROVE  PedidoMarcado'
<1> SUFFICES ASSUME NEW q \in Pids, Contains(cola'["EXIT"], q), pcb'[q].estado \in Detenibles
             PROVE  pcb'[q].pedido_exit
  BY DEF PedidoMarcado, Detenibles
<1>1. Contains(cola["EXIT"], q)
  OBVIOUS
<1>2. pcb[q].estado \in Detenibles
  BY <1>1 DEF Detenibles
<1>3. QED BY <1>1, <1>2 DEF PedidoMarcado, PedidoQueda

\* One PCB changes, in any of these ways.
LEMMA PedidoUno ==
  ASSUME TypeOK, NEW h, NEW v, NEW w,
         \/ UNCHANGED pcb
         \/ pcb' = [pcb EXCEPT ![h].estado = v]
         \/ pcb' = [pcb EXCEPT ![h].estado = v, ![h].parcial = w]
         \/ pcb' = [pcb EXCEPT ![h].estado = v, ![h].cola_bloqueado = w]
         \/ pcb' = [pcb EXCEPT ![h].parcial = v]
         \/ pcb' = [pcb EXCEPT ![h].desalojo = v]
         \/ pcb' = [pcb EXCEPT ![h].instruccion_io = v]
         \/ pcb' = [pcb EXCEPT ![h].recursos[w] = v]
         \/ pcb' = [pcb EXCEPT ![h].pedido_exit = TRUE]
  PROVE  PedidoQueda
<1>1. pcb \in [Pids -> PCBs]
  BY DEF TypeOK
<1> SUFFICES ASSUME NEW q \in Pids, pcb[q].pedido_exit PROVE pcb'[q].pedido_exit
  BY DEF PedidoQueda
<1>2. CASE UNCHANGED pcb \/ q # h
  BY <1>1, <1>2
<1>3. CASE q = h
  <2>1. CASE pcb' = [pcb EXCEPT ![h].estado = v]
    BY <1>1, <1>3, <2>1 DEF PCBs
  <2>2. CASE pcb' = [pcb EXCEPT ![h].estado = v, ![h].parcial = w]
    BY <1>1, <1>3, <2>2 DEF PCBs
  <2>3. CASE pcb' = [pcb EXCEPT ![h].estado = v, ![h].cola_bloqueado = w]
    BY <1>1, <1>3, <2>3 DEF PCBs
  <2>4. CASE pcb' = [pcb EXCEPT ![h].parcial = v]
    BY <1>1, <1>3, <2>4 DEF PCBs
  <2>5. CASE pcb' = [pcb EXCEPT ![h].desalojo = v]
    BY <1>1, <1>3, <2>5 DEF PCBs
  <2>6. CASE pcb' = [pcb EXCEPT ![h].instruccion_io = v]
    BY <1>1, <1>3, <2>6 DEF PCBs
  <2>7. CASE pcb' = [pcb EXCEPT ![h].recursos[w] = v]
    BY <1>1, <1>3, <2>7 DEF PCBs
  <2>8. CASE pcb' = [pcb EXCEPT ![h].pedido_exit = TRUE]
    BY <1>1, <1>3, <2>8 DEF PCBs
  <2>9. QED BY <1>2, <2>1, <2>2, <2>3, <2>4, <2>5, <2>6, <2>7, <2>8
<1>4. QED BY <1>2, <1>3

\* The mark of a process is not erased in its life.
LEMMA PedidoPermanece ==
  ASSUME TypeOK, Control, [Next]_vars, ~IniciarProceso
  PROVE  PedidoQueda
<1>1. pcb \in [Pids -> PCBs]
  BY DEF TypeOK
<1>2. CASE (Usuario /\ ~IniciarProceso) \/ Consola
  <2>1. PICK p : p = consola.objetivo
    OBVIOUS
  <2>2. \/ UNCHANGED pcb
        \/ pcb' = [pcb EXCEPT ![p].desalojo = "PEDIDO_FINALIZACION"]
        \/ pcb' = [pcb EXCEPT ![p].pedido_exit = TRUE]
    BY <1>2, <2>1 DEF Usuario, Consola, PideFinalizar, PideComando, PideComandoGlobal, IniciarPlanificacion,
      SubeMultiprogramacion, PideBajarMultiprogramacion, TomaPausada, DetenerPlanificacion,
      ProcesoEstado, FinalizarSinEfecto, FinalizarEnEjecucion, MarcaPedidoFinalizacion, FinalizarCuelga,
      FinalizarExtrae, FinalizarNulo, BajaMultiprogramacion, procesos
  <2>3. QED BY <2>2, PedidoUno
<1>3. CASE EligeProceso
  <2>1. PICK p : p = Head(cola[ColaDeListos])
    OBVIOUS
  <2>2. PICK b : b = IF ColaDeListos = "READY_VRR" THEN pcb[p].parcial ELSE FALSE
    OBVIOUS
  <2>3. pcb' = [pcb EXCEPT ![p].estado = "EXEC", ![p].parcial = b]
    BY <1>3, <2>1, <2>2 DEF EligeProceso
  <2>4. QED BY <2>3, PedidoUno
<1>4. CASE RecibeDesalojo
  <2>1. PICK p : p = Head(cola["RUNNING"])
    OBVIOUS
  <2>2. PICK v : v = IF pcb[p].desalojo = "SIN_DESALOJAR" THEN "DESALOJADO" ELSE pcb[p].desalojo
    OBVIOUS
  <2>3. pcb' = [pcb EXCEPT ![p].desalojo = v]
    BY <1>4, <2>1, <2>2 DEF RecibeDesalojo
  <2>4. QED BY <2>3, PedidoUno
<1>5. CASE Corto /\ ~SignalEntrega /\ ~EligeProceso /\ ~RecibeDesalojo
  <2>1. PICK p : p = corto.proceso
    OBVIOUS
  <2>2. PICK r : r = corto.arg
    OBVIOUS
  <2>3. PICK n : n = pcb[p].recursos[r]
    OBVIOUS
  <2>4. PICK b : b = pcb[p].parcial
    OBVIOUS
  <2>5. \/ UNCHANGED pcb
        \/ pcb' = [pcb EXCEPT ![p].pedido_exit = TRUE]
        \/ pcb' = [pcb EXCEPT ![p].recursos[r] = Devuelto(n)]
        \/ pcb' = [pcb EXCEPT ![p].recursos[r] = n + 1]
        \/ pcb' = [pcb EXCEPT ![p].estado = "BLOCKED", ![p].cola_bloqueado = r]
        \/ pcb' = [pcb EXCEPT ![p].estado = "READY", ![p].parcial = ReiniciaQuantum(b)]
        \/ \E v : pcb' = [pcb EXCEPT ![p].parcial = v]
        \/ pcb' = [pcb EXCEPT ![p].instruccion_io = TRUE]
        \/ pcb' = [pcb EXCEPT ![p].desalojo = "SIN_DESALOJAR"]
    BY <1>5, <2>1, <2>2, <2>3, <2>4 DEF Corto, EsperaOrdenCorto, NoHayListos, EnviaProcesoACpu, TrataFin,
      TrataRecursoInvalido, MandaAExit, AvisaExit, TrataWait, WaitBloquea, WaitConcede, TrataSignal,
      SignalDevuelve, TrataFinQuantum, TrataIOInvalida, TrataIO, IOBloquea, IOEnvia, RespondeCpu,
      LimpiaDesalojo, procesos
  <2>6. QED BY <2>5, PedidoUno
\* The one that receives an instance.
<1>6. ASSUME NEW r, NEW pcbs \in [Pids -> PCBs], \A q \in Pids : pcbs[q].pedido_exit = pcb[q].pedido_exit,
             EntregaInstancia(r, pcbs)
      PROVE  PedidoQueda
  <2>1. CASE HayBloqueado(r)
    <3>1. PICK q : q = Head(cola[r])
      OBVIOUS
    <3>2. pcb' = [pcbs EXCEPT ![q].recursos[r] = @ + 1, ![q].estado = "READY", ![q].cola_bloqueado = Nulo]
      BY <1>6, <2>1, <3>1 DEF EntregaInstancia
    <3>3. \A x \in Pids : pcb'[x].pedido_exit = pcbs[x].pedido_exit
      BY <1>6, <3>2 DEF PCBs
    <3>4. QED BY <1>6, <3>3 DEF PedidoQueda
  <2>2. CASE ~HayBloqueado(r)
    BY <1>6, <2>2 DEF EntregaInstancia, PedidoQueda
  <2>3. QED BY <2>1, <2>2
<1>7. CASE SignalEntrega
  BY <1>1, <1>6, <1>7 DEF SignalEntrega
<1>8. CASE Largo
  <2>1. PICK p : p = largo.entrante
    OBVIOUS
  <2>2. UNCHANGED pcb \/ pcb' = [pcb EXCEPT ![p].estado = "READY"]
    BY <1>8, <2>1 DEF Largo, EsperaOrdenLargo, TomaGrado, SacaDeNew, NewVacia, PasaAReady, procesos
  <2>3. QED BY <2>2, PedidoUno
<1>9. CASE Exit /\ ~LiberaInstancia
  <2>1. PICK p : p = largo.saliente
    OBVIOUS
  <2>2. PICK h : h = Head(cola["EXIT"])
    OBVIOUS
  <2>3. \/ UNCHANGED pcb
        \/ pcb' = [pcb EXCEPT ![h].estado = "EXIT"]
        \/ pcb' = [pcb EXCEPT ![p].estado = "EXIT"]
        \/ pcb' = [pcb EXCEPT ![p].instruccion_io = FALSE]
    BY <1>9, <2>1, <2>2 DEF Exit, EsperaOrdenExit, ExitDesdeNew, ExitDesdeOtro, LiberaTomaInst,
      LiberaMemoria, MemoriaLiberada, MarcaExit, SacaDeExit, procesos
  <2>4. QED BY <2>3, PedidoUno
<1>10. CASE LiberaInstancia
  <2>1. PICK s : s = largo.saliente
    OBVIOUS
  <2>2. PICK r : r = largo.recurso
    OBVIOUS
  <2>3. PICK pcbs : pcbs = [pcb EXCEPT ![s].recursos[r] = Devuelto(@)]
    OBVIOUS
  <2>4. EntregaInstancia(r, pcbs) /\ r \in Recursos
    BY <1>10, <2>1, <2>2, <2>3 DEF LiberaInstancia, Control, LargoEnOrden, En
  <2>5. pcbs \in [Pids -> PCBs]
    <3>1. PICK n : n = Devuelto(pcb[s].recursos[r])
      OBVIOUS
    <3>2. ASSUME s \in Pids PROVE n \in Nat /\ [pcb[s] EXCEPT !.recursos[r] = n] \in PCBs
      <4>1. pcb[s].recursos[r] \in Nat
        BY <1>1, <2>4, <3>2, ValorPCB
      <4>2. n \in Nat
        BY <3>1, <4>1 DEF Devuelto
      <4>3. QED BY <1>1, <2>4, <3>2, <4>2, CampoPCB
    <3>3. pcbs = [pcb EXCEPT ![s] = [pcb[s] EXCEPT !.recursos[r] = n]]
      BY <2>3, <3>1
    <3>4. CASE s \in Pids
      BY <1>1, <3>2, <3>3, <3>4
    <3>5. CASE s \notin Pids
      BY <1>1, <3>3, <3>5
    <3>6. QED BY <3>4, <3>5
  <2>6. \A q \in Pids : pcbs[q].pedido_exit = pcb[q].pedido_exit
    BY <1>1, <2>3 DEF PCBs
  <2>7. QED BY <1>6, <2>4, <2>5, <2>6
<1>11. ASSUME NEW i \in Interfaces, Manejador(i) PROVE PedidoQueda
  <2>1. PICK p : p = Head(cola[i])
    OBVIOUS
  <2>2. \/ UNCHANGED pcb
        \/ pcb' = [pcb EXCEPT ![p].estado = "READY"]
        \/ pcb' = [pcb EXCEPT ![p].instruccion_io = FALSE]
    BY <1>11, <2>1 DEF Manejador, RecibeIOLiberar, TomaMediano, DesbloqueaIO, NadieQueDesbloquear,
      AtiendeSiguiente, LiberaInterfaz, procesos
  <2>3. QED BY <2>2, PedidoUno
<1>12. CASE Entorno \/ UNCHANGED vars
  <2>1. UNCHANGED pcb
    BY <1>12, AjenoEntorno DEF vars, procesos
  <2>2. QED BY <2>1, PedidoUno
<1>13. QED BY <1>2, <1>3, <1>4, <1>5, <1>7, <1>8, <1>9, <1>10, <1>11, <1>12, PasosDelKernel

\* The first of another queue is not in EXIT.
LEMMA PrimeroFueraDeExit ==
  ASSUME TypeOK, EnLugar, NEW c \in Colas \ {"EXIT"}, NEW p, p = Head(cola[c]), cola[c] # <<>>
  PROVE  p \in Pids /\ ~Contains(cola["EXIT"], p)
<1>1. cola[c] \in Seq(Pids) /\ "EXIT" \in Colas
  BY DEF TypeOK, Colas, ColasFijas
<1>2. p \in Pids /\ Contains(cola[c], p)
  BY <1>1, PrimeroDeCola
<1>3. Donde(p) = {c}
  BY <1>2, EnCola
<1>4. QED BY <1>1, <1>2, <1>3, DondeFormula

\* Somebody who is not in EXIT changes its state.
LEMMA PedidoAjeno ==
  ASSUME PedidoMarcado, PedidoQueda, cola'["EXIT"] = cola["EXIT"], NEW h, ~Contains(cola["EXIT"], h),
         \A q \in Pids : q # h => pcb'[q].estado = pcb[q].estado
  PROVE  PedidoMarcado'
BY PedidoQuieto

\* A process comes to EXIT from the CPU or marked.
LEMMA PedidoEntra ==
  ASSUME TypeOK, PedidoMarcado, PedidoQueda, NEW p \in Pids, cola'["EXIT"] = Append(cola["EXIT"], p),
         \A q \in Pids : pcb'[q].estado = pcb[q].estado,
         pcb'[p].pedido_exit \/ pcb[p].estado = "EXEC"
  PROVE  PedidoMarcado'
<1> SUFFICES ASSUME NEW q \in Pids, Contains(cola'["EXIT"], q), pcb'[q].estado \in Detenibles
             PROVE  pcb'[q].pedido_exit
  BY DEF PedidoMarcado, Detenibles
<1>1. PICK s \in Seq(Pids) : s = cola["EXIT"]
  BY DEF TypeOK, Colas, ColasFijas
<1>2. PICK t : t = Append(s, p)
  OBVIOUS
<1>3. /\ Len(s) \in Nat /\ DOMAIN t = 1 .. Len(s) + 1 /\ t[Len(s) + 1] = p /\ Len(t) = Len(s) + 1
      /\ \A k \in 1 .. Len(s) : t[k] = s[k]
  BY <1>2
<1>4. PICK k \in 1 .. Len(t) : t[k] = q
  BY <1>1, <1>2 DEF Contains
<1>5. CASE k = Len(s) + 1
  <2>1. q = p
    BY <1>3, <1>4, <1>5
  <2>2. QED BY <2>1 DEF Detenibles
<1>6. CASE k # Len(s) + 1
  <2>1. k \in 1 .. Len(s)
    BY <1>3, <1>4, <1>6
  <2>2. Contains(s, q)
    BY <1>3, <1>4, <2>1 DEF Contains
  <2>3. QED BY <1>1, <2>2 DEF PedidoMarcado, PedidoQueda
<1>7. QED BY <1>5, <1>6

\* Every step keeps the marks.
LEMMA PedidoPaso ==
  ASSUME TypeOK, Control, SinDespertarPerdido, EnLugar, RunningEnOrden, ObjetivoCreado, PedidoMarcado,
         [Next]_vars
  PROVE  PedidoMarcado'
<1>1. /\ pcb \in [Pids -> PCBs] /\ cola \in [Colas -> Seq(Pids)]
      /\ {"EXIT", "NEW", "READY", "READY_VRR", "RUNNING"} \subseteq Colas
      /\ Recursos \cup Interfaces \subseteq Colas \ {"EXIT", "READY", "READY_VRR", "RUNNING", "NEW"}
  BY DEF TypeOK, Colas, ColasFijas
<1>2. CASE IniciarProceso
  <2>1. PICK h : h = pid
    OBVIOUS
  <2>2. h \in Pids /\ pcb' = [pcb EXCEPT ![h] = PCBNuevo] /\ cola'["EXIT"] = cola["EXIT"]
    BY <1>1, <1>2, <2>1 DEF IniciarProceso
  <2>3. h \notin Creados
    BY <2>1, <2>2 DEF Creados, Pids
  <2>4. ~Contains(cola["EXIT"], h)
    BY <1>1, <2>2, <2>3, DondeFormula DEF EnLugar, PidsCreados
  <2>5. QED BY <1>1, <2>2, <2>4 DEF PedidoMarcado
<1> SUFFICES ASSUME ~IniciarProceso PROVE PedidoMarcado'
  BY <1>2
<1>3. PedidoQueda
  BY PedidoPermanece
<1>4. CASE NadieSeVa
  BY <1>3, <1>4, Quietos, PedidoQuieto
<1>5. CASE FinalizarExtrae
  <2>1. PICK p : p = consola.objetivo
    OBVIOUS
  <2>2. PICK c : c = ColaDe(p)
    OBVIOUS
  <2>3. /\ p \in Pids /\ pcb' = [pcb EXCEPT ![p].pedido_exit = TRUE]
        /\ cola' = [cola EXCEPT ![c] = Extraer(@, p), !["EXIT"] = Append(@, p)]
    BY <1>5, <2>1, <2>2 DEF FinalizarExtrae, ObjetivoEn, Control, ConsolaEnOrden
  <2>4. cola'["EXIT"] = Append(cola["EXIT"], p) \/ c = "EXIT"
    BY <1>1, <2>3
  <2>5. c # "EXIT"
    <3>1. pcb[p].estado \in {"NEW", "READY", "BLOCKED"}
      BY <1>5, <2>1 DEF FinalizarExtrae, ObjetivoEn, Detenibles
    <3>2. pcb[p].estado = "BLOCKED" => pcb[p].cola_bloqueado \in Recursos \cup Interfaces
      BY <2>3 DEF EnLugar, BloqueadoEn
    <3>3. QED BY <1>1, <2>2, <3>1, <3>2 DEF ColaDe
  <2>6. pcb'[p].pedido_exit /\ \A q \in Pids : pcb'[q].estado = pcb[q].estado
    BY <1>1, <2>3 DEF PCBs
  <2>7. QED BY <1>3, <2>3, <2>4, <2>5, <2>6, PedidoEntra
<1>6. CASE TrataFin \/ TrataRecursoInvalido \/ TrataIOInvalida
  <2>1. PICK p : p = corto.proceso
    OBVIOUS
  <2>2. p \in Pids /\ pcb[p].estado = "EXEC"
    <3>1. pc["corto"] = "trata"
      BY <1>6 DEF TrataFin, TrataRecursoInvalido, TrataIOInvalida, Trata, En
    <3>2. QED BY <2>1, <3>1, Tratado
  <2>3. Pasa(p, "RUNNING", "EXIT")
    BY <1>6, <2>1 DEF TrataFin, TrataRecursoInvalido, TrataIOInvalida, MandaAExit
  <2>4. cola'["EXIT"] = Append(cola["EXIT"], p)
    BY <1>1, <2>3 DEF Pasa
  <2>5. UNCHANGED pcb \/ \E v : pcb' = [pcb EXCEPT ![p].parcial = v]
    BY <1>6, <2>1 DEF TrataFin, TrataRecursoInvalido, TrataIOInvalida, MandaAExit
  <2>6. ASSUME NEW v, pcb' = [pcb EXCEPT ![p].parcial = v]
        PROVE  \A q \in Pids : pcb'[q].estado = pcb[q].estado
    BY <1>1, <2>6 DEF PCBs
  <2>7. \A q \in Pids : pcb'[q].estado = pcb[q].estado
    BY <2>5, <2>6
  <2>8. QED BY <1>3, <2>2, <2>4, <2>7, PedidoEntra
<1>7. CASE SacaDeExit
  <2>1. PICK s \in Seq(Pids) : s = cola["EXIT"] /\ IsInjective(s)
    BY <1>1 DEF EnLugar, UnSoloLugar
  <2>2. cola'["EXIT"] = SinPrimero(s)
    BY <1>1, <1>7, <2>1 DEF SacaDeExit
  <2>3. \A q \in Pids : Contains(cola'["EXIT"], q) => Contains(s, q)
    BY <2>1, <2>2, SacarSec DEF SinPrimero
  <2>4. PICK h : h = largo.saliente
    OBVIOUS
  <2>5. pcb' = [pcb EXCEPT ![h].instruccion_io = FALSE]
    BY <1>7, <2>4 DEF SacaDeExit
  <2>6. \A q \in Pids : pcb'[q].estado = pcb[q].estado
    BY <1>1, <2>5 DEF PCBs
  <2>7. QED BY <1>3, <2>1, <2>3, <2>6 DEF PedidoMarcado, PedidoQueda, Detenibles
<1>8. CASE EligeProceso
  <2>1. PICK o \in {"READY", "READY_VRR"} : o = ColaDeListos
    BY DEF ColaDeListos
  <2>2. PICK p : p = Head(cola[o])
    OBVIOUS
  <2>3. Pasa(p, o, "RUNNING") /\ cola[o] # <<>>
    BY <1>8, <2>1, <2>2 DEF EligeProceso
  <2>4. PICK b : pcb' = [pcb EXCEPT ![p].estado = "EXEC", ![p].parcial = b]
    <3>1. PICK b : b = IF o = "READY_VRR" THEN pcb[p].parcial ELSE FALSE
      OBVIOUS
    <3>2. pcb' = [pcb EXCEPT ![p].estado = "EXEC", ![p].parcial = b]
      BY <1>8, <2>1, <2>2, <3>1 DEF EligeProceso
    <3>3. QED BY <3>2
  <2>5. cola'["EXIT"] = cola["EXIT"]
    BY <1>1, <2>3 DEF Pasa
  <2>6. ~Contains(cola["EXIT"], p)
    BY <1>1, <2>2, <2>3, PrimeroFueraDeExit
  <2>7. \A q \in Pids : q # p => pcb'[q].estado = pcb[q].estado
    BY <1>1, <2>4
  <2>8. QED BY <1>3, <2>5, <2>6, <2>7, PedidoAjeno
<1>9. CASE TrataFinQuantum \/ WaitBloquea \/ IOBloquea
  <2>1. PICK p : p = corto.proceso
    OBVIOUS
  <2>2. pc["corto"] \in {"trata", "wait", "io"}
    BY <1>9 DEF TrataFinQuantum, WaitBloquea, IOBloquea, Trata, En
  <2>3. p = Head(cola["RUNNING"]) /\ cola["RUNNING"] # <<>>
    BY <2>1, <2>2, Tratado
  <2>4. ~Contains(cola["EXIT"], p)
    BY <1>1, <2>3, PrimeroFueraDeExit
  <2>5. PICK b \in Colas \ {"EXIT"} : Pasa(p, "RUNNING", b)
    <3>1. CASE TrataFinQuantum
      BY <1>1, <2>1, <3>1 DEF TrataFinQuantum
    <3>2. CASE WaitBloquea \/ IOBloquea
      <4>1. PICK r : r = corto.arg
        OBVIOUS
      <4>2. r \in Recursos \cup Interfaces
        BY <3>2, <4>1 DEF WaitBloquea, IOBloquea, En, Control, CortoEnOrden
      <4>3. Pasa(p, "RUNNING", r)
        BY <2>1, <3>2, <4>1 DEF WaitBloquea, IOBloquea
      <4>4. QED BY <1>1, <4>2, <4>3
    <3>3. QED BY <1>9, <3>1, <3>2
  <2>6. cola'["EXIT"] = cola["EXIT"]
    BY <1>1, <2>5 DEF Pasa
  <2>7. \A q \in Pids : q # p => pcb'[q].estado = pcb[q].estado
    BY <1>1, <1>9, <2>1 DEF TrataFinQuantum, WaitBloquea, IOBloquea
  <2>8. QED BY <1>3, <2>4, <2>6, <2>7, PedidoAjeno
<1>10. ASSUME NEW r \in Recursos, NEW pcbs \in [Pids -> PCBs],
              \A q \in Pids : pcbs[q].estado = pcb[q].estado, EntregaInstancia(r, pcbs)
       PROVE  PedidoMarcado'
  <2>1. CASE HayBloqueado(r)
    <3>1. PICK p : p = Head(cola[r])
      OBVIOUS
    <3>2. cola[r] # <<>> /\ Pasa(p, r, "READY")
      BY <1>10, <2>1, <3>1 DEF EntregaInstancia, HayBloqueado
    <3>3. cola'["EXIT"] = cola["EXIT"]
      BY <1>1, <3>2 DEF Pasa
    <3>4. ~Contains(cola["EXIT"], p)
      BY <1>1, <3>1, <3>2, PrimeroFueraDeExit
    <3>5. \A q \in Pids : q # p => pcb'[q].estado = pcb[q].estado
      BY <1>10, <2>1, <3>1 DEF EntregaInstancia
    <3>6. QED BY <1>3, <3>3, <3>4, <3>5, PedidoAjeno
  <2>2. CASE ~HayBloqueado(r)
    BY <1>3, <1>10, <2>2, PedidoQuieto DEF EntregaInstancia
  <2>3. QED BY <2>1, <2>2
<1>11. CASE SignalEntrega
  BY <1>1, <1>10, <1>11 DEF SignalEntrega, Control, CortoEnOrden, En
<1>12. CASE LiberaInstancia
  <2>1. PICK s : s = largo.saliente
    OBVIOUS
  <2>2. PICK r : r = largo.recurso
    OBVIOUS
  <2>3. PICK pcbs : pcbs = [pcb EXCEPT ![s].recursos[r] = Devuelto(@)]
    OBVIOUS
  <2>4. r \in Recursos /\ s \in Pids /\ EntregaInstancia(r, pcbs)
    BY <1>12, <2>1, <2>2, <2>3, DeLargo DEF LiberaInstancia, Control, LargoEnOrden, En
  <2>5. pcbs \in [Pids -> PCBs]
    <3>1. PICK n : n = Devuelto(pcb[s].recursos[r])
      OBVIOUS
    <3>2. pcb[s].recursos[r] \in Nat
      BY <1>1, <2>4, ValorPCB
    <3>3. n \in Nat
      BY <3>1, <3>2 DEF Devuelto
    <3>4. [pcb[s] EXCEPT !.recursos[r] = n] \in PCBs
      BY <1>1, <2>4, <3>3, CampoPCB
    <3>5. pcbs = [pcb EXCEPT ![s] = [pcb[s] EXCEPT !.recursos[r] = n]]
      BY <2>3, <3>1
    <3>6. QED BY <1>1, <2>4, <3>4, <3>5
  <2>6. \A q \in Pids : pcbs[q].estado = pcb[q].estado
    BY <1>1, <2>3 DEF PCBs
  <2>7. QED BY <1>10, <2>4, <2>5, <2>6
<1>13. ASSUME NEW i \in Interfaces, DesbloqueaIO(i) PROVE PedidoMarcado'
  <2>1. PICK p : p = Head(cola[i])
    OBVIOUS
  <2>2. cola[i] # <<>> /\ pcb' = [pcb EXCEPT ![p].estado = "READY"]
    BY <1>13, <2>1 DEF DesbloqueaIO, Atendido
  <2>3. PICK b \in {"READY", "READY_VRR"} : Pasa(p, i, b)
    BY <1>13, <2>1 DEF DesbloqueaIO
  <2>4. cola'["EXIT"] = cola["EXIT"]
    BY <1>1, <2>3 DEF Pasa
  <2>5. ~Contains(cola["EXIT"], p)
    BY <1>1, <2>1, <2>2, PrimeroFueraDeExit
  <2>6. \A q \in Pids : q # p => pcb'[q].estado = pcb[q].estado
    BY <1>1, <2>2
  <2>7. QED BY <1>3, <2>4, <2>5, <2>6, PedidoAjeno
<1>14. CASE Largo
  <2>1. CASE PasaAReady
    <3>1. PICK p : p = largo.entrante
      OBVIOUS
    <3>2. pcb' = [pcb EXCEPT ![p].estado = "READY"] /\ cola'["EXIT"] = cola["EXIT"]
      BY <1>1, <2>1, <3>1 DEF PasaAReady
    <3>3. Donde(p) = {}
      BY <2>1, <3>1 DEF PasaAReady, En, EnLugar, EntranteEnOrden
    <3>4. ~Contains(cola["EXIT"], p)
      BY <1>1, <3>3, DondeFormula
    <3>5. \A q \in Pids : q # p => pcb'[q].estado = pcb[q].estado
      BY <1>1, <3>2
    <3>6. QED BY <1>3, <3>2, <3>4, <3>5, PedidoAjeno
  <2>2. CASE ~PasaAReady
    <3>1. cola'["EXIT"] = cola["EXIT"] /\ UNCHANGED pcb
      BY <1>1, <1>14, <2>2 DEF Largo, EsperaOrdenLargo, TomaGrado, SacaDeNew, NewVacia, procesos
    <3>2. QED BY <1>3, <3>1, PedidoQuieto
  <2>3. QED BY <2>1, <2>2
<1>15. CASE Exit
  <2>1. CASE ~SacaDeExit /\ ~LiberaInstancia
    <3>1. PICK p : p = largo.saliente
      OBVIOUS
    <3>2. PICK h : h = Head(cola["EXIT"])
      OBVIOUS
    <3>3. /\ UNCHANGED cola
          /\ \/ UNCHANGED pcb
             \/ pcb' = [pcb EXCEPT ![h].estado = "EXIT"]
             \/ pcb' = [pcb EXCEPT ![p].estado = "EXIT"]
      BY <1>15, <2>1, <3>1, <3>2 DEF Exit, EsperaOrdenExit, ExitDesdeNew, ExitDesdeOtro, LiberaTomaInst,
        LiberaMemoria, MemoriaLiberada, MarcaExit, procesos
    <3>4. \A q \in Pids : pcb'[q].estado \in {pcb[q].estado, "EXIT"}
      BY <1>1, <3>3 DEF PCBs
    <3>5. QED BY <1>3, <3>3, <3>4, PedidoQuieto
  <2>2. QED BY <1>7, <1>12, <2>1
<1>16. CASE Usuario \/ Consola
  BY <1>4, <1>5, <1>16 DEF NadieSeVa
<1>17. CASE Corto
  BY <1>4, <1>6, <1>8, <1>9, <1>11, <1>17 DEF Corto, NadieSeVa
<1>18. ASSUME NEW i \in Interfaces, Manejador(i) PROVE PedidoMarcado'
  BY <1>4, <1>13, <1>18 DEF NadieSeVa
<1>19. CASE Entorno \/ UNCHANGED vars
  BY <1>4, <1>19 DEF NadieSeVa
<1>20. QED BY <1>14, <1>15, <1>16, <1>17, <1>18, <1>19, PasosDelKernel

\* FINALIZAR_PROCESO misses its process only when it looks for one already in
\* EXIT: the planning is stopped, so that nobody else is moving it.
LEMMA NuloPaso ==
  ASSUME TypeOK, Control, PlusSoloEnVRR, EnLugar, ObjetivoCreado, MutexCoherente, PedidoMarcado,
         ALGORITMO # "VRR", FinalizarNulo
  PROVE  pcb[consola.objetivo].pedido_exit
<1>1. PICK p : p = consola.objetivo
  OBVIOUS
<1>2. PICK c : c = ColaDe(p)
  OBVIOUS
<1>3. p \in Creados /\ p \in Pids
  BY <1>1 DEF FinalizarNulo, ObjetivoEn, ObjetivoCreado, EnLugar, PidsCreados, Control, ConsolaEnOrden
<1>4. pcb[p].estado \in {"NEW", "READY", "BLOCKED"} /\ ~Contains(cola[c], p)
  BY <1>1, <1>2 DEF FinalizarNulo, ObjetivoEn, Detenibles
<1>5. pc["largo"] # "creando"
  <2>1. consola.tomados = 4
    BY DEF FinalizarNulo, ObjetivoEn, Control, ConsolaEnOrden, En
  <2>2. QED BY <2>1, Detenida
<1>6. largo.entrante # p
  BY <1>3, <1>5 DEF EnLugar, EntranteEnOrden, Pids
<1>7. EnSuLugar(p)
  BY <1>3 DEF EnLugar, UnSoloLugar
<1>8. PICK d \in LugaresDe(p) \cup {"EXIT"} : Donde(p) = {d}
  BY <1>4, <1>6, <1>7, LugarFormula
<1>9. d \in Colas /\ Contains(cola[d], p)
  BY <1>8, DondeFormula
<1>10. d # "READY_VRR"
  <2>1. ~Contains(<<>>, p)
    BY DEF Contains
  <2>2. QED BY <1>9, <2>1 DEF PlusSoloEnVRR
<1>11. d = c \/ d = "EXIT"
  BY <1>2, <1>4, <1>8, <1>10 DEF LugaresDe, ColaDe
<1>12. d = "EXIT"
  BY <1>4, <1>9, <1>11
<1>13. QED BY <1>1, <1>3, <1>4, <1>9, <1>12 DEF PedidoMarcado, Detenibles

\* A fallen kernel takes no step, and no other step makes it fall.
LEMMA NuloSoloPorRepetirPaso ==
  ASSUME InvLugar, MutexCoherente, PedidoMarcado, NuloSoloPorRepetir, ALGORITMO # "VRR", [Next]_vars
  PROVE  NuloSoloPorRepetir'
<1>1. CASE UNCHANGED vars
  BY <1>1 DEF vars, NuloSoloPorRepetir, En, kernel, procesos, locales
<1>2. CASE FinalizarNulo
  BY <1>2, NuloPaso DEF NuloSoloPorRepetir, FinalizarNulo, InvLugar, Inv, procesos, locales
<1>3. CASE Next /\ ~FinalizarNulo
  <2>1. /\ pc \in [Hilos -> Etiquetas] /\ "consola" \in Hilos
        /\ "consola" \notin {"corto", "largo", "exit"} /\ "consola" \notin Interfaces
    BY NombresDistintos DEF InvLugar, Inv, TypeOK, Hilos, HilosFijos
  <2>2. ~En("consola", "puntero_nulo")
    BY <1>3 DEF Next, Caido
  <2>3. CASE UNCHANGED pc
    BY <2>2, <2>3 DEF NuloSoloPorRepetir, En
  <2>4. CASE Usuario \/ Consola
    BY <2>1, <2>2, <1>3, <2>4 DEF NuloSoloPorRepetir, En, Usuario, Consola, IniciarProceso, PideFinalizar,
      PideComando, PideComandoGlobal, IniciarPlanificacion, SubeMultiprogramacion,
      PideBajarMultiprogramacion, TomaPausada, DetenerPlanificacion, ProcesoEstado, FinalizarSinEfecto,
      FinalizarEnEjecucion, MarcaPedidoFinalizacion, FinalizarCuelga, FinalizarExtrae,
      BajaMultiprogramacion, FinComando, Va
  <2>5. CASE Corto \/ Largo \/ Exit \/ \E i \in Interfaces : Manejador(i)
    <3>1. pc'["consola"] = pc["consola"]
      BY <2>1, <2>5, AjenoCorto, AjenoLargo, AjenoExit, AjenoManejador
    <3>2. QED BY <2>2, <3>1 DEF NuloSoloPorRepetir, En
  <2>6. CASE Entorno
    BY <2>3, <2>6, AjenoEntorno
  <2>7. QED BY <1>1, <2>4, <2>5, <2>6, PasosDelKernel
<1>4. QED BY <1>1, <1>2, <1>3

\* Nobody is in EXIT at the start, and the console is free.
LEMMA NuloInicial == Init => PedidoMarcado /\ NuloSoloPorRepetir
<1> SUFFICES ASSUME Init PROVE PedidoMarcado /\ NuloSoloPorRepetir
  OBVIOUS
<1>1. cola["EXIT"] = <<>> /\ pc["consola"] = "libre"
  BY DEF Init, Colas, ColasFijas, Hilos, HilosFijos
<1>2. \A p : ~Contains(<<>>, p)
  BY DEF Contains
<1>3. QED BY <1>1, <1>2 DEF PedidoMarcado, NuloSoloPorRepetir, En

\* But in VRR, the console dereferences NULL only when the user ends a process
\* he has ended before: FINALIZAR_PROCESO stops the planning first, and every
\* other process is in the queue its state says.
THEOREM NuloSoloRepetido == ALGORITMO # "VRR" => (Spec => []NuloSoloPorRepetir)
<1> SUFFICES ASSUME ALGORITMO # "VRR" PROVE Spec => []NuloSoloPorRepetir
  OBVIOUS
<1>1. InvLugar /\ MutexCoherente /\ PedidoMarcado /\ NuloSoloPorRepetir /\ [Next]_vars
      => (PedidoMarcado /\ NuloSoloPorRepetir)'
  <2> SUFFICES ASSUME InvLugar, MutexCoherente, PedidoMarcado, NuloSoloPorRepetir, [Next]_vars
               PROVE  (PedidoMarcado /\ NuloSoloPorRepetir)'
    OBVIOUS
  <2>1. PedidoMarcado'
    BY PedidoPaso DEF InvLugar, Inv
  <2>2. NuloSoloPorRepetir'
    BY NuloSoloPorRepetirPaso
  <2>3. QED BY <2>1, <2>2
<1>2. QED BY <1>1, NuloInicial, InvarianteLugar, ExclusionMutua, PTL DEF Spec

-----------------------------------------------------------------------------
(* The interfaces: who is being served, who waits with its instruction stored, *)
(* and how many orders are on their way between the kernel and each device     *)

\* A process that has ended, or waits for interface i, is not in circulation:
\* only the handler of i brings it back.
Espera(p, i) ==
  /\ p \in Creados
  /\ \/ pcb[p].estado = "EXIT"
     \/ pcb[p].estado = "BLOCKED" /\ pcb[p].cola_bloqueado = i

\* The process just blocked on i, while the short-term scheduler holds the
\* queue and has not yet sent its instruction or stored it.
Reciente(p, i) == pc["corto"] = "io_envia" /\ corto.arg = i /\ p = corto.proceso

\* The orders and reports under way, and the one the handler is treating.
OrdenesEnCurso(i) ==
  Len(dispositivo[i].ordenes) + dispositivo[i].avisos + Uno(pc[i] \in {"mediano", "cola", "siguiente"})

\* Whoever waits, but the one being served, has its instruction stored, and
\* nobody waits for a free interface.
ColaEnOrden(i) ==
  \A p \in Pids : Contains(cola[i], p) =>
    IF Reciente(p, i)
    THEN /\ ~pcb[p].instruccion_io
         /\ interfaz[i].disponibilidad = 1 => p # interfaz[i].pid_ejecutando
    ELSE /\ interfaz[i].disponibilidad = 1
         /\ pcb[p].instruccion_io <=> p # interfaz[i].pid_ejecutando

\* The process being served is the first in the queue, unless the user ended
\* it; once it has been unblocked it is not in the queue any more.
ServidoEnOrden(i) ==
  IF pc[i] = "siguiente" THEN ~Contains(cola[i], interfaz[i].pid_ejecutando)
  ELSE interfaz[i].disponibilidad = 1 =>
         /\ Espera(interfaz[i].pid_ejecutando, i)
         /\ Contains(cola[i], interfaz[i].pid_ejecutando) => Head(cola[i]) = interfaz[i].pid_ejecutando

InterfazEnOrden(i) ==
  /\ ~interfaz[i].conectada => interfaz[i].disponibilidad = 0
  /\ OrdenesEnCurso(i) = interfaz[i].disponibilidad
  /\ ColaEnOrden(i)
  /\ ServidoEnOrden(i)

\* An instruction is stored only for a process out of circulation.
InstruccionGuardada == \A p \in Pids : pcb[p].instruccion_io => \E i \in Interfaces : Espera(p, i)

\* The short-term scheduler asks for an interface that is there.
PideInterfaz ==
  /\ pc["corto"] \in {"io", "io_envia"} => interfaz[corto.arg].conectada
  /\ pc["corto"] = "io_envia" => Espera(corto.proceso, corto.arg)

InterfacesAlDia == (\A i \in Interfaces : InterfazEnOrden(i)) /\ InstruccionGuardada /\ PideInterfaz

-----------------------------------------------------------------------------
(* What a step leaves as it was *)

\* Nobody else comes back into circulation.
EsperaQueda == \A q \in Pids, i \in Interfaces : Espera(q, i) => Espera(q, i)'

\* Interface j is as it was, and so are those who wait for it, but for the
\* ones taken out of its queue.
InterfazIgual(j) ==
  /\ interfaz'[j] = interfaz[j] /\ dispositivo'[j] = dispositivo[j] /\ pc'[j] = pc[j]
  /\ \A q : Contains(cola'[j], q) =>
              Contains(cola[j], q) /\ (Head(cola[j]) = q => Head(cola'[j]) = q)
  /\ \A q \in Pids : Contains(cola[j], q) => pcb'[q].instruccion_io = pcb[q].instruccion_io
  /\ \A q \in Pids : Reciente(q, j)' <=> Reciente(q, j)
  /\ \A q \in Pids : Espera(q, j) => Espera(q, j)'

\* Then it stays in order.
LEMMA InterfazQuieta ==
  ASSUME TypeOK, NEW j \in Interfaces, InterfazEnOrden(j), InterfazIgual(j)
  PROVE  InterfazEnOrden(j)'
<1>1. /\ interfaz'[j] = interfaz[j] /\ dispositivo'[j] = dispositivo[j] /\ pc'[j] = pc[j]
      /\ \A q : Contains(cola'[j], q) =>
                 Contains(cola[j], q) /\ (Head(cola[j]) = q => Head(cola'[j]) = q)
  BY DEF InterfazIgual
<1>2. OrdenesEnCurso(j)' = OrdenesEnCurso(j)
  BY <1>1 DEF OrdenesEnCurso
<1>3. ColaEnOrden(j)'
  BY <1>1 DEF InterfazIgual, InterfazEnOrden, ColaEnOrden
<1>4. ServidoEnOrden(j)'
  <2>1. interfaz[j].disponibilidad = 1 /\ pc[j] # "siguiente" => interfaz[j].pid_ejecutando \in Pids
    BY DEF InterfazEnOrden, ServidoEnOrden, Espera, TypeOK, Creados, Pids
  <2>2. PICK q : q = interfaz[j].pid_ejecutando
    OBVIOUS
  <2>3. CASE pc[j] = "siguiente"
    BY <1>1, <2>3 DEF InterfazEnOrden, ServidoEnOrden
  <2>4. CASE pc[j] # "siguiente"
    <3>1. ASSUME interfaz[j].disponibilidad = 1 PROVE Espera(q, j)'
      BY <2>1, <2>2, <2>4, <3>1 DEF InterfazEnOrden, ServidoEnOrden, InterfazIgual
    <3>2. ServidoEnOrden(j)' <=> (interfaz[j].disponibilidad = 1 =>
             /\ Espera(q, j)'
             /\ Contains(cola'[j], q) => Head(cola'[j]) = q)
      BY <1>1, <2>2, <2>4 DEF ServidoEnOrden, Espera, Creados
    <3>3. interfaz[j].disponibilidad = 1 /\ Contains(cola'[j], q) => Head(cola'[j]) = q
      BY <1>1, <2>2, <2>4 DEF InterfazEnOrden, ServidoEnOrden
    <3>4. QED BY <3>1, <3>2, <3>3
  <2>5. QED BY <2>3, <2>4
<1>5. QED BY <1>1, <1>2, <1>3, <1>4 DEF InterfazEnOrden

\* One process, at most, changes its state, and it was not waiting or ends.
LEMMA EsperaUno ==
  ASSUME TypeOK, Creados \subseteq Creados', NEW h,
         \A q \in Pids : q # h => /\ pcb'[q].estado = pcb[q].estado
                                  /\ pcb'[q].cola_bloqueado = pcb[q].cola_bloqueado,
         \/ h \notin Creados
         \/ pcb[h].estado \in {"NEW", "READY", "EXEC"}
         \/ pcb[h].estado = "BLOCKED" /\ pcb[h].cola_bloqueado \in Recursos
         \/ pcb'[h].estado = "EXIT"
  PROVE  EsperaQueda
<1> SUFFICES ASSUME NEW q \in Pids, NEW i \in Interfaces, Espera(q, i) PROVE Espera(q, i)'
  BY DEF EsperaQueda
<1>1. i \notin Recursos
  OBVIOUS
<1>2. QED BY <1>1 DEF Espera

\* A process once created stays so.
LEMMA CreadosQuedan ==
  ASSUME TypeOK, [Next]_vars
  PROVE  Creados \subseteq Creados'
<1>1. CASE UNCHANGED pid
  BY <1>1 DEF Creados
<1>2. CASE IniciarProceso
  BY <1>2 DEF IniciarProceso, TypeOK, Creados
<1>3. CASE (Usuario /\ ~IniciarProceso) \/ Consola
  BY <1>1, <1>3 DEF Usuario, Consola, PideFinalizar, PideComando, PideComandoGlobal, IniciarPlanificacion,
    SubeMultiprogramacion, PideBajarMultiprogramacion, TomaPausada, DetenerPlanificacion,
    ProcesoEstado, FinalizarSinEfecto, FinalizarEnEjecucion, MarcaPedidoFinalizacion, FinalizarCuelga,
    FinalizarExtrae, FinalizarNulo, BajaMultiprogramacion, procesos
<1>4. CASE Corto
  BY <1>1, <1>4 DEF Corto, EsperaOrdenCorto, EligeProceso, NoHayListos, EnviaProcesoACpu, RecibeDesalojo,
    TrataFin, TrataRecursoInvalido, MandaAExit, AvisaExit, TrataWait, WaitBloquea, WaitConcede, TrataSignal,
    SignalDevuelve, SignalEntrega, TrataFinQuantum, TrataIOInvalida, TrataIO, IOBloquea, IOEnvia,
    RespondeCpu, LimpiaDesalojo, procesos
<1>5. CASE Largo
  BY <1>1, <1>5 DEF Largo, EsperaOrdenLargo, TomaGrado, SacaDeNew, NewVacia, PasaAReady, procesos
<1>6. CASE Exit
  BY <1>1, <1>6 DEF Exit, EsperaOrdenExit, ExitDesdeNew, ExitDesdeOtro, LiberaTomaInst, LiberaInstancia,
    LiberaMemoria, MemoriaLiberada, MarcaExit, SacaDeExit, procesos
<1>7. ASSUME NEW i \in Interfaces, Manejador(i) PROVE UNCHANGED pid
  BY <1>7 DEF Manejador, RecibeIOLiberar, TomaMediano, DesbloqueaIO, NadieQueDesbloquear,
    AtiendeSiguiente, LiberaInterfaz, procesos
<1>8. CASE Entorno \/ UNCHANGED vars
  BY <1>1, <1>8, AjenoEntorno DEF vars, procesos
<1>9. QED BY <1>1, <1>2, <1>3, <1>4, <1>5, <1>6, <1>7, <1>8, PasosDelKernel

\* Only the handler of an interface brings a process back: everybody else
\* moves processes that were waiting for something else, or ends them.
LEMMA EsperaPaso ==
  ASSUME TypeOK, Control, SinDespertarPerdido, EnLugar, RunningEnOrden, [Next]_vars,
         \A i \in Interfaces : ~DesbloqueaIO(i)
  PROVE  EsperaQueda
<1>1. /\ pcb \in [Pids -> PCBs] /\ cola \in [Colas -> Seq(Pids)]
      /\ {"EXIT", "NEW", "READY", "READY_VRR", "RUNNING"} \subseteq Colas
      /\ Recursos \cup Interfaces \subseteq Colas \ {"EXIT", "READY", "READY_VRR", "RUNNING", "NEW"}
  BY DEF TypeOK, Colas, ColasFijas
<1>2. Creados \subseteq Creados'
  BY CreadosQuedan
<1>3. ASSUME \A q \in Pids : /\ pcb'[q].estado = pcb[q].estado
                             /\ pcb'[q].cola_bloqueado = pcb[q].cola_bloqueado
      PROVE  EsperaQueda
  BY <1>2, <1>3 DEF EsperaQueda, Espera
<1>4. CASE IniciarProceso
  <2>1. PICK h : h = pid
    OBVIOUS
  <2>2. h \in Pids /\ pcb' = [pcb EXCEPT ![h] = PCBNuevo]
    BY <1>4, <2>1 DEF IniciarProceso
  <2>3. h \notin Creados
    BY <2>1, <2>2 DEF Creados, Pids
  <2>4. \A q \in Pids : q # h => pcb'[q] = pcb[q]
    BY <1>1, <2>2
  <2>5. QED BY <1>2, <2>3, <2>4, EsperaUno
<1>5. CASE NadieSeVa
  BY <1>3, <1>5, Quietos
<1>6. CASE FinalizarExtrae
  <2>1. PICK p : p = consola.objetivo
    OBVIOUS
  <2>2. pcb' = [pcb EXCEPT ![p].pedido_exit = TRUE]
    BY <1>6, <2>1 DEF FinalizarExtrae
  <2>3. QED BY <1>1, <1>3, <2>2 DEF PCBs
<1>7. CASE TrataFin \/ TrataRecursoInvalido \/ TrataIOInvalida
  <2>1. PICK p : p = corto.proceso
    OBVIOUS
  <2>2. UNCHANGED pcb \/ \E v : pcb' = [pcb EXCEPT ![p].parcial = v]
    BY <1>7, <2>1 DEF TrataFin, TrataRecursoInvalido, TrataIOInvalida, MandaAExit
  <2>3. ASSUME NEW v, pcb' = [pcb EXCEPT ![p].parcial = v]
        PROVE  \A q \in Pids : pcb'[q].estado = pcb[q].estado /\ pcb'[q].cola_bloqueado = pcb[q].cola_bloqueado
    BY <1>1, <2>3 DEF PCBs
  <2>4. QED BY <1>3, <2>2, <2>3
<1>8. CASE EligeProceso
  <2>1. PICK o \in {"READY", "READY_VRR"} : o = ColaDeListos
    BY DEF ColaDeListos
  <2>2. PICK p : p = Head(cola[o])
    OBVIOUS
  <2>3. cola[o] # <<>> /\ \A q \in Pids : q # p => pcb'[q] = pcb[q]
    <3>1. PICK b : b = IF o = "READY_VRR" THEN pcb[p].parcial ELSE FALSE
      OBVIOUS
    <3>2. cola[o] # <<>> /\ pcb' = [pcb EXCEPT ![p].estado = "EXEC", ![p].parcial = b]
      BY <1>8, <2>1, <2>2, <3>1 DEF EligeProceso
    <3>3. QED BY <1>1, <3>2
  <2>4. p \in Pids /\ Contains(cola[o], p) /\ o \in Colas \ {"EXIT"}
    BY <1>1, <2>2, <2>3, PrimeroDeCola
  <2>5. pcb[p].estado = "READY"
    BY <2>4, EnCola, EstadoDeCola
  <2>6. QED BY <1>2, <2>3, <2>5, EsperaUno
<1>9. CASE TrataFinQuantum \/ WaitBloquea \/ IOBloquea
  <2>1. PICK p : p = corto.proceso
    OBVIOUS
  <2>2. pc["corto"] \in {"trata", "wait", "io"}
    BY <1>9 DEF TrataFinQuantum, WaitBloquea, IOBloquea, Trata, En
  <2>3. pcb[p].estado = "EXEC"
    BY <2>1, <2>2, Tratado
  <2>4. \A q \in Pids : q # p => pcb'[q] = pcb[q]
    BY <1>1, <1>9, <2>1 DEF TrataFinQuantum, WaitBloquea, IOBloquea
  <2>5. QED BY <1>2, <2>3, <2>4, EsperaUno
<1>10. ASSUME NEW r \in Recursos, NEW pcbs \in [Pids -> PCBs],
              \A q \in Pids : pcbs[q].estado = pcb[q].estado /\ pcbs[q].cola_bloqueado = pcb[q].cola_bloqueado,
              EntregaInstancia(r, pcbs)
       PROVE  EsperaQueda
  <2>1. CASE HayBloqueado(r)
    <3>1. PICK p : p = Head(cola[r])
      OBVIOUS
    <3>2. cola[r] # <<>> /\ \A q \in Pids : q # p => pcb'[q] = pcbs[q]
      BY <1>10, <2>1, <3>1 DEF EntregaInstancia, HayBloqueado
    <3>3. p \in Pids /\ Contains(cola[r], p) /\ r \in Colas \ {"EXIT"}
      BY <1>1, <3>1, <3>2, PrimeroDeCola
    <3>4. pcb[p].estado = "BLOCKED" /\ pcb[p].cola_bloqueado = r
      BY <3>3, EnCola, EstadoDeCola
    <3>5. QED BY <1>2, <1>10, <3>2, <3>4, EsperaUno
  <2>2. CASE ~HayBloqueado(r)
    BY <1>3, <1>10, <2>2 DEF EntregaInstancia
  <2>3. QED BY <2>1, <2>2
<1>11. CASE SignalEntrega
  BY <1>1, <1>10, <1>11 DEF SignalEntrega, Control, CortoEnOrden, En
<1>12. CASE LiberaInstancia
  <2>1. PICK s : s = largo.saliente
    OBVIOUS
  <2>2. PICK r : r = largo.recurso
    OBVIOUS
  <2>3. PICK pcbs : pcbs = [pcb EXCEPT ![s].recursos[r] = Devuelto(@)]
    OBVIOUS
  <2>4. r \in Recursos /\ s \in Pids /\ EntregaInstancia(r, pcbs)
    BY <1>12, <2>1, <2>2, <2>3, DeLargo DEF LiberaInstancia, Control, LargoEnOrden, En
  <2>5. pcbs \in [Pids -> PCBs]
    <3>1. PICK n : n = Devuelto(pcb[s].recursos[r])
      OBVIOUS
    <3>2. pcb[s].recursos[r] \in Nat
      BY <1>1, <2>4, ValorPCB
    <3>3. n \in Nat
      BY <3>1, <3>2 DEF Devuelto
    <3>4. [pcb[s] EXCEPT !.recursos[r] = n] \in PCBs
      BY <1>1, <2>4, <3>3, CampoPCB
    <3>5. pcbs = [pcb EXCEPT ![s] = [pcb[s] EXCEPT !.recursos[r] = n]]
      BY <2>3, <3>1
    <3>6. QED BY <1>1, <2>4, <3>4, <3>5
  <2>6. \A q \in Pids : pcbs[q].estado = pcb[q].estado /\ pcbs[q].cola_bloqueado = pcb[q].cola_bloqueado
    BY <1>1, <2>3 DEF PCBs
  <2>7. QED BY <1>10, <2>4, <2>5, <2>6
<1>13. CASE Largo
  <2>1. CASE PasaAReady
    <3>1. PICK p : p = largo.entrante
      OBVIOUS
    <3>2. pcb[p].estado = "NEW"
      BY <2>1, <3>1 DEF PasaAReady, En, EnLugar, EntranteEnOrden
    <3>3. \A q \in Pids : q # p => pcb'[q] = pcb[q]
      BY <1>1, <2>1, <3>1 DEF PasaAReady
    <3>4. QED BY <1>2, <3>2, <3>3, EsperaUno
  <2>2. CASE ~PasaAReady
    BY <1>3, <1>13, <2>2 DEF Largo, EsperaOrdenLargo, TomaGrado, SacaDeNew, NewVacia, procesos
  <2>3. QED BY <2>1, <2>2
<1>14. CASE Exit
  <2>1. CASE SacaDeExit
    <3>1. PICK p : p = largo.saliente
      OBVIOUS
    <3>2. pcb' = [pcb EXCEPT ![p].instruccion_io = FALSE]
      BY <2>1, <3>1 DEF SacaDeExit
    <3>3. QED BY <1>1, <1>3, <3>2 DEF PCBs
  <2>2. CASE ExitDesdeNew \/ MarcaExit
    <3>1. PICK p : p = IF ExitDesdeNew THEN Head(cola["EXIT"]) ELSE largo.saliente
      OBVIOUS
    <3>2. pcb' = [pcb EXCEPT ![p].estado = "EXIT"]
      BY <2>2, <3>1 DEF ExitDesdeNew, MarcaExit
    <3>3. p \in Creados => pcb'[p].estado = "EXIT"
      BY <1>1, <3>2 DEF TypeOK, Creados, Pids
    <3>4. \A q \in Pids : q # p => pcb'[q] = pcb[q]
      BY <1>1, <3>2
    <3>5. QED BY <1>2, <3>3, <3>4, EsperaUno
  <2>3. CASE ~SacaDeExit /\ ~LiberaInstancia /\ ~ExitDesdeNew /\ ~MarcaExit
    BY <1>3, <1>14, <2>3 DEF Exit, EsperaOrdenExit, ExitDesdeOtro, LiberaTomaInst, LiberaMemoria,
      MemoriaLiberada, procesos
  <2>4. QED BY <1>12, <2>1, <2>2, <2>3
<1>15. CASE Usuario \/ Consola
  BY <1>4, <1>5, <1>6, <1>15 DEF NadieSeVa
<1>16. CASE Corto
  BY <1>5, <1>7, <1>8, <1>9, <1>11, <1>16 DEF Corto, NadieSeVa
<1>17. ASSUME NEW i \in Interfaces, Manejador(i) PROVE EsperaQueda
  BY <1>5, <1>17 DEF NadieSeVa
<1>18. CASE Entorno \/ UNCHANGED vars
  BY <1>5, <1>18 DEF NadieSeVa
<1>19. QED BY <1>13, <1>14, <1>15, <1>16, <1>17, <1>18, PasosDelKernel

-----------------------------------------------------------------------------
(* The steps that are not about interfaces *)

\* What they are.
PasoAjeno ==
  \/ Usuario \/ (Consola /\ ~FinalizarExtrae)
  \/ (Corto /\ ~IOBloquea /\ ~IOEnvia)
  \/ Largo \/ (Exit /\ ~SacaDeExit)
  \/ ControlQuantum \/ Cpu \/ MemoriaAtiende \/ UNCHANGED vars

\* They store no instruction.
MismasInstrucciones ==
  /\ \A q \in Creados : pcb'[q].instruccion_io = pcb[q].instruccion_io
  /\ \A q \in Pids : pcb'[q].instruccion_io => pcb[q].instruccion_io

\* One PCB changes, in any of these ways.
LEMMA InstruccionUno ==
  ASSUME TypeOK, NEW h, NEW v, NEW w,
         \/ UNCHANGED pcb
         \/ pcb' = [pcb EXCEPT ![h].estado = v]
         \/ pcb' = [pcb EXCEPT ![h].estado = v, ![h].parcial = w]
         \/ pcb' = [pcb EXCEPT ![h].estado = v, ![h].cola_bloqueado = w]
         \/ pcb' = [pcb EXCEPT ![h].parcial = v]
         \/ pcb' = [pcb EXCEPT ![h].desalojo = v]
         \/ pcb' = [pcb EXCEPT ![h].recursos[w] = v]
         \/ pcb' = [pcb EXCEPT ![h].pedido_exit = v]
  PROVE  \A q \in Pids : pcb'[q].instruccion_io = pcb[q].instruccion_io
<1>1. pcb \in [Pids -> PCBs]
  BY DEF TypeOK
<1> SUFFICES ASSUME NEW q \in Pids PROVE pcb'[q].instruccion_io = pcb[q].instruccion_io
  OBVIOUS
<1>2. CASE UNCHANGED pcb \/ q # h
  BY <1>1, <1>2
<1>3. CASE q = h
  <2>1. CASE pcb' = [pcb EXCEPT ![h].estado = v]
    BY <1>1, <1>3, <2>1 DEF PCBs
  <2>2. CASE pcb' = [pcb EXCEPT ![h].estado = v, ![h].parcial = w]
    BY <1>1, <1>3, <2>2 DEF PCBs
  <2>3. CASE pcb' = [pcb EXCEPT ![h].estado = v, ![h].cola_bloqueado = w]
    BY <1>1, <1>3, <2>3 DEF PCBs
  <2>4. CASE pcb' = [pcb EXCEPT ![h].parcial = v]
    BY <1>1, <1>3, <2>4 DEF PCBs
  <2>5. CASE pcb' = [pcb EXCEPT ![h].desalojo = v]
    BY <1>1, <1>3, <2>5 DEF PCBs
  <2>6. CASE pcb' = [pcb EXCEPT ![h].recursos[w] = v]
    BY <1>1, <1>3, <2>6 DEF PCBs
  <2>7. CASE pcb' = [pcb EXCEPT ![h].pedido_exit = v]
    BY <1>1, <1>3, <2>7 DEF PCBs
  <2>8. QED BY <1>2, <2>1, <2>2, <2>3, <2>4, <2>5, <2>6, <2>7
<1>4. QED BY <1>2, <1>3

\* An instance goes to somebody, with its instruction.
LEMMA InstruccionEntrega ==
  ASSUME NEW r, NEW pcbs \in [Pids -> PCBs], EntregaInstancia(r, pcbs)
  PROVE  \A q \in Pids : pcb'[q].instruccion_io = pcbs[q].instruccion_io
<1>1. CASE HayBloqueado(r)
  <2>1. PICK h : h = Head(cola[r])
    OBVIOUS
  <2>2. pcb' = [pcbs EXCEPT ![h].recursos[r] = @ + 1, ![h].estado = "READY", ![h].cola_bloqueado = Nulo]
    BY <1>1, <2>1 DEF EntregaInstancia
  <2>3. QED BY <2>2 DEF PCBs
<1>2. CASE ~HayBloqueado(r)
  BY <1>2 DEF EntregaInstancia
<1>3. QED BY <1>1, <1>2

\* The console, the schedulers and the other processes leave the stored
\* instructions where they are.
LEMMA InstruccionPaso ==
  ASSUME TypeOK, Control, EnLugar, PasoAjeno \/ FinalizarExtrae \/ IOBloquea
  PROVE  MismasInstrucciones
<1> DEFINE Igual == \A q \in Pids : pcb'[q].instruccion_io = pcb[q].instruccion_io
<1>0. Creados \subseteq Pids /\ pcb \in [Pids -> PCBs]
  BY DEF TypeOK, Creados, Pids
<1>1. Igual => MismasInstrucciones
  BY <1>0 DEF MismasInstrucciones
<1>2. CASE IniciarProceso
  <2>1. PICK h : h = pid
    OBVIOUS
  <2>2. h \in Pids /\ pcb' = [pcb EXCEPT ![h] = PCBNuevo]
    BY <1>2, <2>1 DEF IniciarProceso
  <2>3. h \notin Creados
    BY <2>1, <2>2 DEF Creados, Pids
  <2>4. ~PCBNuevo.instruccion_io
    BY DEF PCBNuevo
  <2>5. QED BY <1>0, <2>2, <2>3, <2>4 DEF MismasInstrucciones
<1>3. CASE (Usuario /\ ~IniciarProceso) \/ Consola
  <2>1. PICK p : p = consola.objetivo
    OBVIOUS
  <2>2. \/ UNCHANGED pcb
        \/ pcb' = [pcb EXCEPT ![p].desalojo = "PEDIDO_FINALIZACION"]
        \/ pcb' = [pcb EXCEPT ![p].pedido_exit = TRUE]
    BY <1>3, <2>1 DEF Usuario, Consola, PideFinalizar, PideComando, PideComandoGlobal, IniciarPlanificacion,
      SubeMultiprogramacion, PideBajarMultiprogramacion, TomaPausada, DetenerPlanificacion,
      ProcesoEstado, FinalizarSinEfecto, FinalizarEnEjecucion, MarcaPedidoFinalizacion, FinalizarCuelga,
      FinalizarExtrae, FinalizarNulo, BajaMultiprogramacion, procesos
  <2>3. Igual
    BY <2>2, InstruccionUno
  <2>4. QED BY <1>1, <2>3
<1>4. CASE EligeProceso
  <2>1. PICK p : p = Head(cola[ColaDeListos])
    OBVIOUS
  <2>2. PICK b : b = IF ColaDeListos = "READY_VRR" THEN pcb[p].parcial ELSE FALSE
    OBVIOUS
  <2>3. pcb' = [pcb EXCEPT ![p].estado = "EXEC", ![p].parcial = b]
    BY <1>4, <2>1, <2>2 DEF EligeProceso
  <2>4. Igual
    BY <2>3, InstruccionUno
  <2>5. QED BY <1>1, <2>4
<1>5. CASE RecibeDesalojo
  <2>1. PICK p : p = Head(cola["RUNNING"])
    OBVIOUS
  <2>2. PICK v : v = IF pcb[p].desalojo = "SIN_DESALOJAR" THEN "DESALOJADO" ELSE pcb[p].desalojo
    OBVIOUS
  <2>3. pcb' = [pcb EXCEPT ![p].desalojo = v]
    BY <1>5, <2>1, <2>2 DEF RecibeDesalojo
  <2>4. Igual
    BY <2>3, InstruccionUno
  <2>5. QED BY <1>1, <2>4
<1>6. CASE Corto /\ ~SignalEntrega /\ ~EligeProceso /\ ~RecibeDesalojo /\ ~IOEnvia
  <2>1. PICK p : p = corto.proceso
    OBVIOUS
  <2>2. PICK r : r = corto.arg
    OBVIOUS
  <2>3. PICK n : n = pcb[p].recursos[r]
    OBVIOUS
  <2>4. PICK b : b = pcb[p].parcial
    OBVIOUS
  <2>5. \/ UNCHANGED pcb
        \/ pcb' = [pcb EXCEPT ![p].pedido_exit = TRUE]
        \/ pcb' = [pcb EXCEPT ![p].recursos[r] = Devuelto(n)]
        \/ pcb' = [pcb EXCEPT ![p].recursos[r] = n + 1]
        \/ pcb' = [pcb EXCEPT ![p].estado = "BLOCKED", ![p].cola_bloqueado = r]
        \/ pcb' = [pcb EXCEPT ![p].estado = "READY", ![p].parcial = ReiniciaQuantum(b)]
        \/ \E v : pcb' = [pcb EXCEPT ![p].parcial = v]
        \/ pcb' = [pcb EXCEPT ![p].desalojo = "SIN_DESALOJAR"]
    BY <1>6, <2>1, <2>2, <2>3, <2>4 DEF Corto, EsperaOrdenCorto, NoHayListos, EnviaProcesoACpu, TrataFin,
      TrataRecursoInvalido, MandaAExit, AvisaExit, TrataWait, WaitBloquea, WaitConcede, TrataSignal,
      SignalDevuelve, TrataFinQuantum, TrataIOInvalida, TrataIO, IOBloquea, RespondeCpu,
      LimpiaDesalojo, procesos
  <2>6. Igual
    BY <2>5, InstruccionUno
  <2>7. QED BY <1>1, <2>6
<1>7. CASE SignalEntrega
  <2>1. Igual
    BY <1>0, <1>7, InstruccionEntrega DEF SignalEntrega
  <2>2. QED BY <1>1, <2>1
<1>8. CASE Largo
  <2>1. PICK p : p = largo.entrante
    OBVIOUS
  <2>2. UNCHANGED pcb \/ pcb' = [pcb EXCEPT ![p].estado = "READY"]
    BY <1>8, <2>1 DEF Largo, EsperaOrdenLargo, TomaGrado, SacaDeNew, NewVacia, PasaAReady, procesos
  <2>3. Igual
    BY <2>2, InstruccionUno
  <2>4. QED BY <1>1, <2>3
<1>9. CASE Exit /\ ~SacaDeExit /\ ~LiberaInstancia
  <2>1. PICK p : p = largo.saliente
    OBVIOUS
  <2>2. PICK h : h = Head(cola["EXIT"])
    OBVIOUS
  <2>3. \/ UNCHANGED pcb
        \/ pcb' = [pcb EXCEPT ![h].estado = "EXIT"]
        \/ pcb' = [pcb EXCEPT ![p].estado = "EXIT"]
    BY <1>9, <2>1, <2>2 DEF Exit, EsperaOrdenExit, ExitDesdeNew, ExitDesdeOtro, LiberaTomaInst,
      LiberaMemoria, MemoriaLiberada, MarcaExit, procesos
  <2>4. Igual
    BY <2>3, InstruccionUno
  <2>5. QED BY <1>1, <2>4
<1>10. CASE LiberaInstancia
  <2>1. PICK s : s = largo.saliente
    OBVIOUS
  <2>2. PICK r : r = largo.recurso
    OBVIOUS
  <2>3. PICK n : n = Devuelto(pcb[s].recursos[r])
    OBVIOUS
  <2>4. PICK pcbs : pcbs = [pcb EXCEPT ![s].recursos[r] = n]
    OBVIOUS
  <2>5. r \in Recursos /\ s \in Pids /\ EntregaInstancia(r, pcbs)
    BY <1>10, <2>1, <2>2, <2>3, <2>4, DeLargo DEF LiberaInstancia, Control, LargoEnOrden, En
  <2>6. n \in Nat
    BY <1>0, <2>3, <2>5, ValorPCB DEF Devuelto
  <2>7. [pcb[s] EXCEPT !.recursos[r] = n] \in PCBs
    BY <1>0, <2>5, <2>6, CampoPCB
  <2>8. pcbs = [pcb EXCEPT ![s] = [pcb[s] EXCEPT !.recursos[r] = n]]
    BY <2>4
  <2>9. pcbs \in [Pids -> PCBs]
    BY <1>0, <2>5, <2>7, <2>8
  <2>10. \A q \in Pids : pcbs[q].instruccion_io = pcb[q].instruccion_io
    BY <1>0, <2>4 DEF PCBs
  <2>11. Igual
    BY <2>5, <2>9, <2>10, InstruccionEntrega
  <2>12. QED BY <1>1, <2>11
<1>11. CASE ControlQuantum \/ Cpu \/ MemoriaAtiende \/ UNCHANGED vars
  <2>1. UNCHANGED pcb
    BY <1>11, AjenoEntorno DEF vars, procesos, Entorno
  <2>2. QED BY <1>1, <2>1
<1>12. CASE Usuario
  BY <1>2, <1>3, <1>12
<1>13. CASE Corto /\ ~IOEnvia
  BY <1>4, <1>5, <1>6, <1>7, <1>13
<1>14. CASE Exit /\ ~SacaDeExit
  BY <1>9, <1>10, <1>14
<1>15. FinalizarExtrae => Consola
  BY DEF Consola
<1>16. IOBloquea => Corto /\ ~IOEnvia
  BY DEF Corto, IOBloquea, IOEnvia, En
<1>17. QED BY <1>3, <1>8, <1>11, <1>12, <1>13, <1>14, <1>15, <1>16 DEF PasoAjeno

\* The fields, the device, the handler and the queue of every interface stay
\* as they are.
LEMMA InterfazAjena ==
  ASSUME TypeOK, Control, PasoAjeno, NEW j \in Interfaces
  PROVE  /\ interfaz' = interfaz /\ dispositivo' = dispositivo
         /\ pc'[j] = pc[j] /\ cola'[j] = cola[j]
<1>1. /\ pc \in [Hilos -> Etiquetas] /\ j \in Hilos \ {"consola", "corto", "largo", "exit"}
      /\ cola \in [Colas -> Seq(Pids)] /\ j \in Colas
      /\ j \notin Recursos \cup {"NEW", "READY", "READY_VRR", "RUNNING", "EXIT"}
  BY DEF TypeOK, Hilos, HilosFijos, Colas, ColasFijas
<1>2. CASE Usuario
  <2>1. pc'[j] = pc[j]
    BY <1>1, <1>2, AjenoConsola
  <2>2. interfaz' = interfaz /\ dispositivo' = dispositivo
    BY <1>2 DEF Usuario, IniciarProceso, PideFinalizar, PideComando, PideComandoGlobal, IniciarPlanificacion,
      SubeMultiprogramacion, PideBajarMultiprogramacion, bloqueos, exterior
  <2>3. cola'[j] = cola[j]
    <3>1. CASE IniciarProceso
      BY <1>1, <3>1 DEF IniciarProceso
    <3>2. CASE ~IniciarProceso
      BY <1>2, <3>2, NeutrosConsola
    <3>3. QED BY <3>1, <3>2
  <2>4. QED BY <2>1, <2>2, <2>3
<1>3. CASE Consola /\ ~FinalizarExtrae
  <2>1. pc'[j] = pc[j] /\ cola'[j] = cola[j]
    BY <1>1, <1>3, AjenoConsola, NeutrosConsola
  <2>2. interfaz' = interfaz /\ dispositivo' = dispositivo
    BY <1>3 DEF Consola, TomaPausada, DetenerPlanificacion, ProcesoEstado, FinalizarSinEfecto,
      FinalizarEnEjecucion, MarcaPedidoFinalizacion, FinalizarCuelga, FinalizarNulo,
      BajaMultiprogramacion, bloqueos, exterior
  <2>3. QED BY <2>1, <2>2
<1>4. CASE Corto /\ ~IOBloquea /\ ~IOEnvia
  <2>1. pc'[j] = pc[j]
    BY <1>1, <1>4, AjenoCorto
  <2>2. interfaz' = interfaz /\ dispositivo' = dispositivo
    BY <1>4 DEF Corto, EsperaOrdenCorto, EligeProceso, NoHayListos, EnviaProcesoACpu, RecibeDesalojo,
      TrataFin, TrataRecursoInvalido, MandaAExit, AvisaExit, TrataWait, WaitBloquea, WaitConcede, TrataSignal,
      SignalDevuelve, SignalEntrega, TrataFinQuantum, TrataIOInvalida, TrataIO,
      RespondeCpu, LimpiaDesalojo, bloqueos, exterior
  <2>3. cola'[j] = cola[j]
    <3>1. \A p, a, b : Pasa(p, a, b) /\ a # j /\ b # j => cola'[j] = cola[j]
      BY <1>1 DEF Pasa
    <3>2. CASE EligeProceso
      <4>1. PICK a \in {"READY", "READY_VRR"} : a = ColaDeListos
        BY DEF ColaDeListos
      <4>2. Pasa(Head(cola[a]), a, "RUNNING")
        BY <3>2, <4>1 DEF EligeProceso
      <4>3. QED BY <1>1, <3>1, <4>2
    <3>3. CASE TrataFin \/ TrataRecursoInvalido \/ TrataIOInvalida \/ TrataFinQuantum
      <4>1. PICK p : p = corto.proceso
        OBVIOUS
      <4>2. Pasa(p, "RUNNING", "EXIT") \/ Pasa(p, "RUNNING", "READY")
        BY <3>3, <4>1 DEF TrataFin, TrataRecursoInvalido, MandaAExit, TrataIOInvalida, TrataFinQuantum
      <4>3. QED BY <1>1, <3>1, <4>2
    <3>4. CASE WaitBloquea
      <4>1. PICK p : p = corto.proceso
        OBVIOUS
      <4>2. PICK r : r = corto.arg
        OBVIOUS
      <4>3. r \in Recursos /\ Pasa(p, "RUNNING", r)
        BY <3>4, <4>1, <4>2 DEF WaitBloquea, En, Control, CortoEnOrden
      <4>4. QED BY <1>1, <3>1, <4>3
    <3>5. CASE SignalEntrega
      <4>1. PICK r : r = corto.arg
        OBVIOUS
      <4>2. r \in Recursos /\ EntregaInstancia(r, pcb)
        BY <3>5, <4>1 DEF SignalEntrega, En, Control, CortoEnOrden
      <4>3. UNCHANGED cola \/ Pasa(Head(cola[r]), r, "READY")
        BY <4>2 DEF EntregaInstancia
      <4>4. QED BY <1>1, <3>1, <4>2, <4>3
    <3>6. CASE ~EligeProceso /\ ~TrataFin /\ ~TrataRecursoInvalido /\ ~TrataIOInvalida /\ ~TrataFinQuantum
               /\ ~WaitBloquea /\ ~SignalEntrega
      BY <1>4, <3>6 DEF Corto, EsperaOrdenCorto, NoHayListos, EnviaProcesoACpu, RecibeDesalojo,
        AvisaExit, TrataWait, WaitConcede, TrataSignal, SignalDevuelve, TrataIO,
        RespondeCpu, LimpiaDesalojo, procesos
    <3>7. QED BY <3>2, <3>3, <3>4, <3>5, <3>6
  <2>4. QED BY <2>1, <2>2, <2>3
<1>5. CASE Largo
  <2>1. pc'[j] = pc[j]
    BY <1>1, <1>5, AjenoLargo
  <2>2. /\ interfaz' = interfaz /\ dispositivo' = dispositivo
        /\ cola'[j] = cola[j]
    BY <1>1, <1>5 DEF Largo, EsperaOrdenLargo, TomaGrado, SacaDeNew, NewVacia, PasaAReady, procesos,
      bloqueos, exterior
  <2>3. QED BY <2>1, <2>2
<1>6. CASE Exit /\ ~SacaDeExit
  <2>1. pc'[j] = pc[j]
    BY <1>1, <1>6, AjenoExit
  <2>2. interfaz' = interfaz /\ dispositivo' = dispositivo
    BY <1>6 DEF Exit, EsperaOrdenExit, ExitDesdeNew, ExitDesdeOtro, LiberaTomaInst, LiberaInstancia,
      LiberaMemoria, MemoriaLiberada, MarcaExit, bloqueos, exterior
  <2>3. cola'[j] = cola[j]
    <3>1. CASE LiberaInstancia
      <4>1. PICK r : r = largo.recurso
        OBVIOUS
      <4>2. r \in Recursos /\ \E t : EntregaInstancia(r, t)
        BY <3>1, <4>1 DEF LiberaInstancia, En, Control, LargoEnOrden
      <4>3. UNCHANGED cola \/ Pasa(Head(cola[r]), r, "READY")
        BY <4>2 DEF EntregaInstancia
      <4>4. QED BY <1>1, <4>2, <4>3 DEF Pasa
    <3>2. CASE ~LiberaInstancia
      BY <1>6, <3>2 DEF Exit, EsperaOrdenExit, ExitDesdeNew, ExitDesdeOtro, LiberaTomaInst,
        LiberaMemoria, MemoriaLiberada, MarcaExit, procesos
    <3>3. QED BY <3>1, <3>2
  <2>4. QED BY <2>1, <2>2, <2>3
<1>7. CASE ControlQuantum \/ Cpu \/ MemoriaAtiende \/ UNCHANGED vars
  <2>1. UNCHANGED <<pc, cola>>
    BY <1>7, AjenoEntorno DEF vars, procesos, Entorno
  <2>2. interfaz' = interfaz /\ dispositivo' = dispositivo
    BY <1>7 DEF ControlQuantum, Cpu, CpuRecibeProceso, CpuRecibeRespuesta, CpuInterrumpida, CpuTermina,
      CpuPideRecurso, MemoriaAtiende, kernel, bloqueos, vars
  <2>3. QED BY <2>1, <2>2
<1>8. QED BY <1>2, <1>3, <1>4, <1>5, <1>6, <1>7 DEF PasoAjeno

\* Nobody comes to the point where the short-term scheduler holds the queue of
\* an interface, nor leaves it; who comes to ask for one has found it there.
LEMMA PeticionAjena ==
  ASSUME TypeOK, Control, PasoAjeno \/ Exit \/ FinalizarExtrae
  PROVE  /\ pc'["corto"] = "io_envia" <=> pc["corto"] = "io_envia"
         /\ pc["corto"] = "io_envia" => corto' = corto
         /\ pc'["corto"] \in {"io", "io_envia"} =>
              \/ pc["corto"] \in {"io", "io_envia"} /\ corto' = corto
              \/ corto' = corto /\ interfaz[corto.arg].conectada
<1>1. pc \in [Hilos -> Etiquetas] /\ "corto" \in Hilos \ {"consola", "largo", "exit"}
  BY DEF TypeOK, Hilos, HilosFijos
<1>2. CASE Usuario \/ Consola
  BY <1>1, <1>2, AjenoConsola
<1>3. CASE Largo
  BY <1>1, <1>3, AjenoLargo
<1>4. CASE Exit
  BY <1>1, <1>4, AjenoExit
<1>5. CASE ControlQuantum \/ Cpu \/ MemoriaAtiende \/ UNCHANGED vars
  BY <1>5, AjenoEntorno DEF vars, Entorno, locales
<1>6. CASE Corto /\ ~IOBloquea /\ ~IOEnvia
  <2>1. CASE TrataIO
    BY <1>1, <2>1 DEF TrataIO, Va, Trata, En
  <2>2. CASE ~TrataIO
    <3>1. pc["corto"] # "io_envia" /\ pc["corto"] # "io"
      BY <1>6, <2>2 DEF Corto, EsperaOrdenCorto, EligeProceso, NoHayListos, EnviaProcesoACpu, RecibeDesalojo,
        TrataFin, TrataRecursoInvalido, AvisaExit, TrataWait, WaitBloquea, WaitConcede, TrataSignal,
        SignalDevuelve, SignalEntrega, TrataFinQuantum, TrataIOInvalida,
        RespondeCpu, LimpiaDesalojo, Trata, En
    <3>2. pc'["corto"] # "io_envia" /\ pc'["corto"] # "io"
      BY <1>1, <1>6, <2>2 DEF Corto, EsperaOrdenCorto, EligeProceso, NoHayListos, EnviaProcesoACpu,
        RecibeDesalojo, TrataFin, TrataRecursoInvalido, MandaAExit, AvisaExit, TrataWait, WaitBloquea,
        WaitConcede, TrataSignal, SignalDevuelve, SignalEntrega, TrataFinQuantum, TrataIOInvalida,
        RespondeCpu, LimpiaDesalojo, Va
    <3>3. QED BY <3>1, <3>2
  <2>3. QED BY <2>1, <2>2
<1>7. QED BY <1>2, <1>3, <1>4, <1>5, <1>6 DEF PasoAjeno, Consola

\* So every interface is as it was.
LEMMA AjenoIgual ==
  ASSUME InvLugar, PasoAjeno, [Next]_vars
  PROVE  EsperaQueda /\ \A j \in Interfaces : InterfazIgual(j)
<1>1. TypeOK /\ Control /\ SinDespertarPerdido /\ EnLugar /\ RunningEnOrden
  BY DEF InvLugar, Inv
<1>2. \A j \in Interfaces : /\ interfaz' = interfaz /\ dispositivo' = dispositivo
                            /\ pc'[j] = pc[j] /\ cola'[j] = cola[j]
  BY <1>1, InterfazAjena
<1>3. ASSUME NEW i \in Interfaces, DesbloqueaIO(i) PROVE FALSE
  <2>1. pc[i] = "cola" /\ pc'[i] = "siguiente"
    BY <1>1, <1>3 DEF DesbloqueaIO, En, Va, TypeOK, Hilos
  <2>2. QED BY <1>2, <2>1
<1>4. EsperaQueda
  BY <1>1, <1>3, EsperaPaso
<1>5. MismasInstrucciones
  BY <1>1, InstruccionPaso
<1>6. ASSUME NEW j \in Interfaces PROVE InterfazIgual(j)
  <2>1. j \in Colas \ {"EXIT"}
    BY DEF Colas, ColasFijas
  <2>2. \A q \in Pids : Contains(cola[j], q) => q \in Creados
    BY <1>1, <2>1, EnCola
  <2>3. \A q \in Pids : Contains(cola[j], q) => pcb'[q].instruccion_io = pcb[q].instruccion_io
    BY <1>5, <2>2 DEF MismasInstrucciones
  <2>4. \A q \in Pids : Reciente(q, j)' <=> Reciente(q, j)
    BY <1>1, PeticionAjena DEF Reciente
  <2>5. \A q \in Pids : Espera(q, j) => Espera(q, j)'
    BY <1>4 DEF EsperaQueda
  <2>6. QED BY <1>2, <2>3, <2>4, <2>5 DEF InterfazIgual
<1>7. QED BY <1>4, <1>6

-----------------------------------------------------------------------------
(* The removals *)

\* Whoever holds the queue of an interface, the short-term scheduler or its
\* handler, does so alone.
LEMMA SinReciente ==
  ASSUME TypeOK, MutexCoherente, NEW i \in Interfaces
  PROVE  /\ sem[i] > 0 \/ pc[i] = "siguiente" => \A q : ~Reciente(q, i)
         /\ sem[i] > 0 => pc[i] # "siguiente"
         /\ pc["corto"] = "io_envia" /\ corto.arg = i => pc[i] # "siguiente"
<1>1. i \in Mutexes /\ i \notin {"pausada1", "pausada2", "inst", "corto"}
  BY NombresDeAvisos DEF Mutexes, SemaforosFijos, HilosFijos
<1>2. /\ i \in Duenos(i) <=> pc[i] = "siguiente"
      /\ "corto" \in Duenos(i) <=> pc["corto"] = "io_envia" /\ corto.arg = i
  BY <1>1, DuenosPorHilo
<1>3. \/ sem[i] = 1 /\ Duenos(i) = {}
      \/ sem[i] = 0 /\ \E h \in Hilos : Duenos(i) = {h}
  BY <1>1 DEF MutexCoherente
<1>4. sem[i] > 0 => Duenos(i) = {}
  BY <1>3
<1>5. ~("corto" \in Duenos(i) /\ i \in Duenos(i))
  BY <1>1, <1>3
<1>6. QED BY <1>2, <1>4, <1>5 DEF Reciente

\* list_remove_by_condition keeps the first of the queue, unless it is the one
\* it takes.
LEMMA ExtraerPrimero ==
  ASSUME NEW s \in Seq(Pids), NEW p, Contains(s, p), IsInjective(s), Head(s) # p
  PROVE  Head(Extraer(s, p)) = Head(s)
<1> DEFINE k == CHOOSE n \in 1 .. Len(s) : s[n] = p
           a == SubSeq(s, 1, k - 1)
           b == SubSeq(s, k + 1, Len(s))
<1>1. k \in 1 .. Len(s) /\ s[k] = p BY DEF Contains
<1>2. Extraer(s, p) = a \o b BY DEF Extraer, RemoveAt
<1> HIDE DEF k
<1>3. Head(s) = s[1] /\ k # 1
  BY <1>1
<1>4. /\ a \in Seq(Pids) /\ Len(a) = k - 1 /\ k - 1 \in Nat /\ k - 1 >= 1
      /\ a[1] = s[1]
  BY <1>1, <1>3
<1>5. b \in Seq(Pids)
  BY <1>1
<1> HIDE DEF a, b
<1>6. (a \o b)[1] = a[1] /\ Head(a \o b) = (a \o b)[1]
  BY <1>4, <1>5
<1>7. QED BY <1>2, <1>3, <1>4, <1>6

\* FINALIZAR_PROCESO takes one process out of one queue.
LEMMA FinalizarIgual ==
  ASSUME InvLugar, FinalizarExtrae, [Next]_vars
  PROVE  EsperaQueda /\ \A j \in Interfaces : InterfazIgual(j)
<1>1. /\ TypeOK /\ Control /\ SinDespertarPerdido /\ EnLugar /\ RunningEnOrden
      /\ cola \in [Colas -> Seq(Pids)] /\ \A c \in Colas : IsInjective(cola[c])
  BY DEF InvLugar, Inv, EnLugar, UnSoloLugar, TypeOK
<1>2. PICK p : p = consola.objetivo
  OBVIOUS
<1>3. PICK c : c = ColaDe(p)
  OBVIOUS
<1>4. PICK s : s = Extraer(cola[c], p)
  OBVIOUS
<1>5. /\ Contains(cola[c], p)
      /\ cola' = [cola EXCEPT ![c] = s, !["EXIT"] = Append(@, p)]
      /\ UNCHANGED <<interfaz, dispositivo>>
  BY <1>2, <1>3, <1>4 DEF FinalizarExtrae, bloqueos, exterior
<1>6. ASSUME NEW i \in Interfaces, DesbloqueaIO(i) PROVE FALSE
  <2>1. pc[i] = "cola" /\ pc'[i] = "siguiente"
    BY <1>1, <1>6 DEF DesbloqueaIO, En, Va, TypeOK, Hilos
  <2>2. i \in Hilos \ {"consola"}
    BY DEF Hilos, HilosFijos
  <2>3. QED BY <1>1, <2>1, <2>2, AjenoConsola DEF Consola, TypeOK
<1>7. EsperaQueda
  BY <1>1, <1>6, EsperaPaso
<1>8. ASSUME NEW j \in Interfaces PROVE InterfazIgual(j)
  <2>1. j \in Colas \ {"EXIT"} /\ j \in Hilos \ {"consola"}
    BY DEF Colas, ColasFijas, Hilos, HilosFijos
  <2>2. pc'[j] = pc[j]
    BY <1>1, <2>1, AjenoConsola DEF Consola, TypeOK
  <2>3. \A q \in Pids : Contains(cola[j], q) => q \in Creados
    BY <1>1, <2>1, EnCola
  <2>4. \A q \in Pids : Contains(cola[j], q) => pcb'[q].instruccion_io = pcb[q].instruccion_io
    BY <1>1, <2>3, InstruccionPaso DEF MismasInstrucciones
  <2>5. \A q \in Pids : Reciente(q, j)' <=> Reciente(q, j)
    BY <1>1, PeticionAjena DEF Reciente
  <2>6. \A q : Contains(cola'[j], q) =>
                 Contains(cola[j], q) /\ (Head(cola[j]) = q => Head(cola'[j]) = q)
    <3>1. CASE c # j
      BY <1>1, <1>5, <2>1, <3>1
    <3>2. CASE c = j
      <4>1. cola'[j] = s
        BY <1>1, <1>5, <2>1, <3>2
      <4>2. cola[j] \in Seq(Pids) /\ IsInjective(cola[j]) /\ Contains(cola[j], p) /\ s = Extraer(cola[j], p)
        BY <1>1, <1>4, <1>5, <2>1, <3>2
      <4>3. \A q : Contains(s, q) <=> Contains(cola[j], q) /\ q # p
        BY <4>2, ExtraerSec
      <4>4. Head(cola[j]) # p => Head(s) = Head(cola[j])
        BY <4>2, ExtraerPrimero
      <4>5. QED BY <4>1, <4>3, <4>4
    <3>3. QED BY <3>1, <3>2
  <2>7. \A q \in Pids : Espera(q, j) => Espera(q, j)'
    BY <1>7 DEF EsperaQueda
  <2>8. QED BY <1>5, <2>2, <2>4, <2>5, <2>6, <2>7 DEF InterfazIgual
<1>9. QED BY <1>7, <1>8

\* The EXIT thread takes the process it has ended out of EXIT and frees its
\* instruction: it waits for no interface.
LEMMA SacaDeExitIgual ==
  ASSUME InvLugar, SacaDeExit, [Next]_vars
  PROVE  /\ EsperaQueda /\ \A j \in Interfaces : InterfazIgual(j)
         /\ \A q \in Pids : pcb'[q].instruccion_io => pcb[q].instruccion_io
<1>1. /\ TypeOK /\ Control /\ SinDespertarPerdido /\ EnLugar /\ RunningEnOrden
      /\ cola \in [Colas -> Seq(Pids)] /\ pcb \in [Pids -> PCBs]
      /\ pc \in [Hilos -> Etiquetas]
  BY DEF InvLugar, Inv, TypeOK
<1>2. PICK p : p = largo.saliente
  OBVIOUS
<1>3. /\ pcb' = [pcb EXCEPT ![p].instruccion_io = FALSE]
      /\ cola' = [cola EXCEPT !["EXIT"] = SinPrimero(@)]
      /\ UNCHANGED <<interfaz, dispositivo>> /\ pc["exit"] = "saca"
      /\ Exit /\ \A h \in Hilos \ {"exit"} : pc'[h] = pc[h]
  BY <1>1, <1>2 DEF SacaDeExit, bloqueos, exterior, En, Va, Exit
<1>4. p \in Pids /\ Donde(p) = {"EXIT"}
  BY <1>1, <1>2, <1>3, DeLargo, PrimeroDeExit
<1>5. ASSUME NEW i \in Interfaces, DesbloqueaIO(i) PROVE FALSE
  <2>1. pc[i] = "cola" /\ pc'[i] = "siguiente" /\ i \in Hilos \ {"exit"}
    BY <1>1, <1>5 DEF DesbloqueaIO, En, Va, Hilos, HilosFijos
  <2>2. QED BY <1>3, <2>1
<1>6. EsperaQueda
  BY <1>1, <1>5, EsperaPaso
<1>7. \A q \in Pids : /\ pcb'[q].instruccion_io => pcb[q].instruccion_io
                      /\ q # p => pcb'[q].instruccion_io = pcb[q].instruccion_io
  <2>1. \A q \in Pids : q # p => pcb'[q] = pcb[q]
    BY <1>1, <1>3
  <2>2. pcb'[p].instruccion_io = FALSE
    BY <1>1, <1>3, <1>4 DEF PCBs
  <2>3. QED BY <2>1, <2>2
<1>8. ASSUME NEW j \in Interfaces PROVE InterfazIgual(j)
  <2>1. j \in Colas \ {"EXIT"} /\ j \in Hilos \ {"exit"}
    BY DEF Colas, ColasFijas, Hilos, HilosFijos
  <2>2. pc'[j] = pc[j] /\ cola'[j] = cola[j]
    BY <1>1, <1>3, <2>1
  <2>3. ~Contains(cola[j], p)
    BY <1>4, <2>1, DondeFormula
  <2>4. \A q \in Pids : Reciente(q, j)' <=> Reciente(q, j)
    BY <1>1, <1>3, PeticionAjena DEF Reciente
  <2>5. \A q \in Pids : Espera(q, j) => Espera(q, j)'
    BY <1>6 DEF EsperaQueda
  <2>6. QED BY <1>3, <1>7, <2>2, <2>3, <2>4, <2>5 DEF InterfazIgual
<1>9. QED BY <1>6, <1>7, <1>8

-----------------------------------------------------------------------------
(* The steps that keep every interface as it was *)

\* The steps of the other threads leave the interfaces up to date.
LEMMA AjenoAlDia ==
  ASSUME InvLugar, InterfacesAlDia, PasoAjeno \/ FinalizarExtrae \/ SacaDeExit, [Next]_vars
  PROVE  InterfacesAlDia'
<1>1. TypeOK /\ Control /\ EnLugar
  BY DEF InvLugar, Inv
<1>2. EsperaQueda /\ \A j \in Interfaces : InterfazIgual(j)
  BY AjenoIgual, FinalizarIgual, SacaDeExitIgual
<1>3. \A j \in Interfaces : InterfazEnOrden(j)'
  BY <1>1, <1>2, InterfazQuieta DEF InterfacesAlDia
<1>4. InstruccionGuardada'
  <2>1. \A q \in Pids : pcb'[q].instruccion_io => pcb[q].instruccion_io
    BY <1>1, InstruccionPaso, SacaDeExitIgual DEF MismasInstrucciones
  <2>2. QED BY <1>2, <2>1 DEF InterfacesAlDia, InstruccionGuardada, EsperaQueda
<1>5. PideInterfaz'
  <2>1. /\ pc'["corto"] = "io_envia" <=> pc["corto"] = "io_envia"
        /\ pc'["corto"] \in {"io", "io_envia"} =>
             \/ pc["corto"] \in {"io", "io_envia"} /\ corto' = corto
             \/ corto' = corto /\ interfaz[corto.arg].conectada
    BY <1>1, PeticionAjena DEF Exit
  <2>2. PICK c : c = corto'
    OBVIOUS
  <2>3. pc'["corto"] \in {"io", "io_envia"} => c = corto /\ interfaz[corto.arg].conectada
    BY <2>1, <2>2 DEF InterfacesAlDia, PideInterfaz
  <2>4. \A j \in Interfaces : interfaz'[j] = interfaz[j]
    BY <1>2 DEF InterfazIgual
  <2>5. pc'["corto"] \in {"io", "io_envia"} => corto.arg \in Interfaces
    BY <1>1, <2>2, <2>3, ControlPaso DEF Control, CortoEnOrden
  <2>6. pc'["corto"] = "io_envia" => Espera(c.proceso, c.arg)'
    <3>1. SUFFICES ASSUME pc'["corto"] = "io_envia" PROVE Espera(c.proceso, c.arg)'
      OBVIOUS
    <3>2. pc["corto"] = "io_envia" /\ c = corto
      BY <2>1, <2>3, <3>1
    <3>3. PICK p, i : p = corto.proceso /\ i = corto.arg
      OBVIOUS
    <3>4. Espera(p, i) /\ i \in Interfaces /\ p \in Pids
      BY <1>1, <3>1, <3>2, <3>3, <2>5 DEF InterfacesAlDia, PideInterfaz, Control, CortoEnOrden
    <3>5. Espera(p, i)'
      BY <1>2, <3>4 DEF EsperaQueda
    <3>6. QED BY <2>2, <3>2, <3>3, <3>5 DEF Espera, Creados
  <2>7. QED BY <2>2, <2>3, <2>4, <2>5, <2>6 DEF PideInterfaz, Espera, Creados
<1>6. QED BY <1>3, <1>4, <1>5 DEF InterfacesAlDia

-----------------------------------------------------------------------------
(* The steps of an interface that move no process *)

\* The other interfaces stay in order.
LEMMA SoloUna ==
  ASSUME TypeOK, Control, InterfacesAlDia, NEW i \in Interfaces,
         UNCHANGED <<pid, pcb, cola, corto>>, pc'["corto"] = pc["corto"],
         \A j \in Interfaces \ {i} :
           interfaz'[j] = interfaz[j] /\ dispositivo'[j] = dispositivo[j] /\ pc'[j] = pc[j],
         pc["corto"] \in {"io", "io_envia"} /\ corto.arg = i => interfaz'[i].conectada,
         InterfazEnOrden(i)'
  PROVE  InterfacesAlDia'
<1>1. \A q, j : (Espera(q, j)' <=> Espera(q, j)) /\ (Reciente(q, j)' <=> Reciente(q, j))
  BY DEF Espera, Creados, Reciente
<1>2. ASSUME NEW j \in Interfaces PROVE InterfazEnOrden(j)'
  <2>1. CASE j # i
    <3>1. InterfazIgual(j)
      BY <1>1, <2>1 DEF InterfazIgual
    <3>2. QED BY <3>1, InterfazQuieta DEF InterfacesAlDia
  <2>2. QED BY <2>1
<1>3. InstruccionGuardada'
  BY <1>1 DEF InterfacesAlDia, InstruccionGuardada
<1>4. PideInterfaz'
  <2>1. pc["corto"] \in {"io", "io_envia"} => interfaz'[corto.arg].conectada
    BY DEF InterfacesAlDia, PideInterfaz, Control, CortoEnOrden
  <2>2. pc["corto"] = "io_envia" => Espera(corto.proceso, corto.arg)'
    <3>1. PICK p, k : p = corto.proceso /\ k = corto.arg
      OBVIOUS
    <3>2. pc["corto"] = "io_envia" => Espera(p, k)
      BY <3>1 DEF InterfacesAlDia, PideInterfaz
    <3>3. pc["corto"] = "io_envia" => Espera(p, k)'
      BY <1>1, <3>2
    <3>4. QED BY <3>1, <3>3 DEF Espera, Creados
  <2>3. QED BY <2>1, <2>2 DEF PideInterfaz
<1>5. QED BY <1>2, <1>3, <1>4 DEF InterfacesAlDia

\* What an interface in order holds.
LEMMA DeInterfaz ==
  ASSUME TypeOK, InterfacesAlDia, NEW i \in Interfaces
  PROVE  /\ InterfazEnOrden(i) /\ i \in Hilos /\ i \in Colas \ {"EXIT"} /\ i # "corto"
         /\ Len(dispositivo[i].ordenes) \in Nat /\ dispositivo[i].avisos \in Nat
         /\ interfaz[i].disponibilidad \in {0, 1} /\ interfaz \in [Interfaces -> TInterfaz]
         /\ cola[i] \in Seq(Pids) /\ cola \in [Colas -> Seq(Pids)]
         /\ pc \in [Hilos -> Etiquetas] /\ "corto" \in Hilos /\ Interfaces \subseteq Hilos
         /\ dispositivo \in [Interfaces -> TDispositivo]
<1>1. dispositivo[i] \in TDispositivo /\ interfaz[i] \in TInterfaz
  BY DEF TypeOK
<1>2. dispositivo[i].ordenes \in Seq(Pids) /\ dispositivo[i].avisos \in Nat
  BY <1>1, CampoDispositivo
<1>3. interfaz[i].disponibilidad \in {0, 1}
  BY <1>1 DEF TInterfaz
<1>4. QED BY <1>2, <1>3 DEF TypeOK, InterfacesAlDia, Colas, ColasFijas, Hilos, HilosFijos

\* IO_LIBERAR is received, and the handler enters the section of the planning.
LEMMA RecibeAlDia ==
  ASSUME TypeOK, Control, InterfacesAlDia, NEW i \in Interfaces, RecibeIOLiberar(i) \/ TomaMediano(i)
  PROVE  InterfacesAlDia'
<1>1. InterfazEnOrden(i) /\ i \in Hilos /\ i # "corto" /\ "corto" \in Hilos /\ pc \in [Hilos -> Etiquetas]
      /\ Len(dispositivo[i].ordenes) \in Nat /\ dispositivo[i].avisos \in Nat
      /\ dispositivo \in [Interfaces -> TDispositivo]
  BY DeInterfaz
<1>2. /\ UNCHANGED <<pid, pcb, cola, corto, interfaz>>
      /\ \A h \in Hilos \ {i} : pc'[h] = pc[h]
      /\ \A j \in Interfaces \ {i} : dispositivo'[j] = dispositivo[j]
      /\ pc[i] # "siguiente" /\ pc'[i] # "siguiente"
  BY <1>1 DEF RecibeIOLiberar, TomaMediano, procesos, bloqueos, locales, exterior, En, Va
<1>3. OrdenesEnCurso(i)' = OrdenesEnCurso(i)
  <2>1. CASE RecibeIOLiberar(i)
    <3>1. /\ pc[i] = "libre" /\ pc'[i] = "mediano"
          /\ dispositivo'[i].ordenes = dispositivo[i].ordenes
          /\ dispositivo'[i].avisos = dispositivo[i].avisos - 1
      BY <1>1, <2>1 DEF RecibeIOLiberar, En, Va, TDispositivo
    <3>2. QED BY <1>1, <3>1 DEF OrdenesEnCurso, Uno
  <2>2. CASE TomaMediano(i)
    BY <1>1, <2>2 DEF TomaMediano, En, Va, exterior, OrdenesEnCurso, Uno
  <2>3. QED BY <2>1, <2>2
<1>4. InterfazEnOrden(i)'
  <2>1. \A q, j : (Espera(q, j)' <=> Espera(q, j)) /\ (Reciente(q, j)' <=> Reciente(q, j))
    BY <1>1, <1>2 DEF Espera, Creados, Reciente
  <2>2. ColaEnOrden(i)'
    BY <1>1, <1>2, <2>1 DEF InterfazEnOrden, ColaEnOrden
  <2>3. ServidoEnOrden(i)'
    BY <1>1, <1>2 DEF InterfazEnOrden, ServidoEnOrden, Espera, Creados
  <2>4. QED BY <1>1, <1>2, <1>3, <2>2, <2>3 DEF InterfazEnOrden
<1>5. pc["corto"] \in {"io", "io_envia"} /\ corto.arg = i => interfaz'[i].conectada
  BY <1>2 DEF InterfacesAlDia, PideInterfaz
<1>6. /\ pc'["corto"] = pc["corto"]
      /\ \A j \in Interfaces \ {i} :
           interfaz'[j] = interfaz[j] /\ dispositivo'[j] = dispositivo[j] /\ pc'[j] = pc[j]
  BY <1>1, <1>2, DeInterfaz
<1>7. QED BY <1>2, <1>4, <1>5, <1>6, SoloUna

\* The device ends an order.
LEMMA TerminaAlDia ==
  ASSUME TypeOK, Control, InterfacesAlDia, NEW i \in Interfaces, DispositivoTermina(i)
  PROVE  InterfacesAlDia'
<1>1. InterfazEnOrden(i) /\ dispositivo[i].avisos \in Nat
      /\ dispositivo \in [Interfaces -> TDispositivo]
  BY DeInterfaz
<1>2. /\ UNCHANGED <<pid, pcb, cola, corto, interfaz, pc>>
      /\ \A j \in Interfaces \ {i} : dispositivo'[j] = dispositivo[j]
  BY <1>1 DEF DispositivoTermina, kernel, procesos, bloqueos, locales
<1>3. OrdenesEnCurso(i)' = OrdenesEnCurso(i)
  <2>1. /\ dispositivo[i].ordenes \in Seq(Pids) /\ dispositivo[i].ordenes # <<>>
        /\ dispositivo'[i].ordenes = Tail(dispositivo[i].ordenes)
        /\ dispositivo'[i].avisos = dispositivo[i].avisos + 1
    BY <1>1, CampoDispositivo DEF DispositivoTermina, TDispositivo
  <2>2. PICK s : s = dispositivo[i].ordenes
    OBVIOUS
  <2>3. Len(s) \in Nat /\ Len(Tail(s)) = Len(s) - 1
    BY <2>1, <2>2
  <2>4. QED BY <1>1, <1>2, <2>1, <2>2, <2>3 DEF OrdenesEnCurso, Uno
<1>4. InterfazEnOrden(i)'
  <2>1. \A q, j : (Espera(q, j)' <=> Espera(q, j)) /\ (Reciente(q, j)' <=> Reciente(q, j))
    BY <1>2 DEF Espera, Creados, Reciente
  <2>2. ColaEnOrden(i)'
    BY <1>1, <1>2, <2>1 DEF InterfazEnOrden, ColaEnOrden
  <2>3. ServidoEnOrden(i)'
    BY <1>1, <1>2 DEF InterfazEnOrden, ServidoEnOrden, Espera, Creados
  <2>4. QED BY <1>1, <1>2, <1>3, <2>2, <2>3 DEF InterfazEnOrden
<1>5. pc["corto"] \in {"io", "io_envia"} /\ corto.arg = i => interfaz'[i].conectada
  BY <1>2 DEF InterfacesAlDia, PideInterfaz
<1>6. QED BY <1>2, <1>4, <1>5, SoloUna

\* An interface connects.  Nobody was waiting for one that is not there.
LEMMA ConexionAlDia ==
  ASSUME TypeOK, Control, InterfacesAlDia, NEW i \in Interfaces, Conexion(i)
  PROVE  InterfacesAlDia'
<1>1. InterfazEnOrden(i) /\ interfaz \in [Interfaces -> TInterfaz]
  BY DeInterfaz
<1>2. /\ UNCHANGED <<pid, pcb, cola, corto, pc, dispositivo>>
      /\ \A j \in Interfaces \ {i} : interfaz'[j] = interfaz[j]
      /\ interfaz'[i] = [conectada |-> TRUE, disponibilidad |-> 0, pid_ejecutando |-> 0]
      /\ pc[i] = "libre" /\ ~interfaz[i].conectada
  BY <1>1 DEF Conexion, procesos, locales, exterior, En
<1>3. interfaz[i].disponibilidad = 0
  BY <1>1, <1>2 DEF InterfazEnOrden
<1>4. \A q : ~Reciente(q, i)
  BY <1>2 DEF InterfacesAlDia, PideInterfaz, Reciente
<1>5. \A q \in Pids : ~Contains(cola[i], q)
  BY <1>1, <1>3, <1>4 DEF InterfazEnOrden, ColaEnOrden
<1>6. InterfazEnOrden(i)'
  <2>1. OrdenesEnCurso(i)' = interfaz'[i].disponibilidad
    BY <1>1, <1>2, <1>3 DEF InterfazEnOrden, OrdenesEnCurso
  <2>2. ColaEnOrden(i)'
    BY <1>2, <1>5 DEF ColaEnOrden
  <2>3. ServidoEnOrden(i)'
    BY <1>2 DEF ServidoEnOrden
  <2>4. QED BY <1>2, <2>1, <2>2, <2>3 DEF InterfazEnOrden
<1>7. QED BY <1>2, <1>6, SoloUna

\* An interface that nobody uses goes away.
LEMMA DesconexionAlDia ==
  ASSUME TypeOK, Control, InterfacesAlDia, NEW i \in Interfaces, Desconexion(i)
  PROVE  InterfacesAlDia'
<1>1. InterfazEnOrden(i) /\ interfaz \in [Interfaces -> TInterfaz]
  BY DeInterfaz
<1>2. /\ UNCHANGED <<pid, pcb, cola, corto, pc, dispositivo>>
      /\ \A j \in Interfaces \ {i} : interfaz'[j] = interfaz[j]
      /\ interfaz'[i] = [conectada |-> FALSE, disponibilidad |-> 0, pid_ejecutando |-> 0]
      /\ pc[i] = "libre" /\ cola[i] = <<>>
      /\ dispositivo[i].ordenes = <<>> /\ dispositivo[i].avisos = 0
      /\ ~(pc["corto"] \in {"io", "io_envia"} /\ corto.arg = i)
  BY <1>1 DEF Desconexion, EnDesuso, procesos, locales, exterior, En
<1>3. InterfazEnOrden(i)'
  <2>1. OrdenesEnCurso(i)' = 0
    BY <1>2 DEF OrdenesEnCurso, Uno
  <2>2. ColaEnOrden(i)'
    BY <1>2 DEF ColaEnOrden, Contains
  <2>3. ServidoEnOrden(i)'
    BY <1>2 DEF ServidoEnOrden
  <2>4. QED BY <1>2, <2>1, <2>2, <2>3 DEF InterfazEnOrden
<1>4. QED BY <1>2, <1>3, SoloUna

\* The process served was ended by the user: nobody is unblocked.
LEMMA NadieAlDia ==
  ASSUME TypeOK, Control, InterfacesAlDia, NEW i \in Interfaces, NadieQueDesbloquear(i)
  PROVE  InterfacesAlDia'
<1>1. /\ InterfazEnOrden(i) /\ i \in Hilos /\ i # "corto" /\ "corto" \in Hilos /\ pc \in [Hilos -> Etiquetas]
      /\ Interfaces \subseteq Hilos /\ cola[i] \in Seq(Pids)
      /\ Len(dispositivo[i].ordenes) \in Nat /\ dispositivo[i].avisos \in Nat
      /\ interfaz[i].disponibilidad \in {0, 1}
  BY DeInterfaz
<1>2. /\ UNCHANGED <<pid, pcb, cola, corto, interfaz, dispositivo>>
      /\ \A h \in Hilos \ {i} : pc'[h] = pc[h]
      /\ pc[i] = "cola" /\ pc'[i] = "siguiente"
  BY <1>1 DEF NadieQueDesbloquear, procesos, bloqueos, locales, exterior, En, Va
<1>3. OrdenesEnCurso(i)' = OrdenesEnCurso(i) /\ interfaz[i].disponibilidad = 1
  BY <1>1, <1>2 DEF OrdenesEnCurso, Uno, InterfazEnOrden
<1>4. InterfazEnOrden(i)'
  <2>1. \A q, j : (Espera(q, j)' <=> Espera(q, j)) /\ (Reciente(q, j)' <=> Reciente(q, j))
    BY <1>1, <1>2 DEF Espera, Creados, Reciente
  <2>2. ColaEnOrden(i)'
    BY <1>1, <1>2, <2>1 DEF InterfazEnOrden, ColaEnOrden
  <2>3. ServidoEnOrden(i)'
    <3>1. Contains(cola[i], interfaz[i].pid_ejecutando) =>
            cola[i] # <<>> /\ Head(cola[i]) = interfaz[i].pid_ejecutando
      BY <1>1, <1>2, <1>3 DEF InterfazEnOrden, ServidoEnOrden, Contains
    <3>2. ~Contains(cola[i], interfaz[i].pid_ejecutando)
      BY <3>1 DEF NadieQueDesbloquear, Atendido
    <3>3. QED BY <1>2, <3>2 DEF ServidoEnOrden
  <2>4. QED BY <1>1, <1>2, <1>3, <2>2, <2>3 DEF InterfazEnOrden
<1>5. pc["corto"] \in {"io", "io_envia"} /\ corto.arg = i => interfaz'[i].conectada
  BY <1>2 DEF InterfacesAlDia, PideInterfaz
<1>6. /\ pc'["corto"] = pc["corto"]
      /\ \A j \in Interfaces \ {i} :
           interfaz'[j] = interfaz[j] /\ dispositivo'[j] = dispositivo[j] /\ pc'[j] = pc[j]
  BY <1>1, <1>2
<1>7. QED BY <1>2, <1>4, <1>5, <1>6, SoloUna

\* Nobody waits: the interface becomes free, with nothing under way.
LEMMA LiberaAlDia ==
  ASSUME TypeOK, Control, InterfacesAlDia, NEW i \in Interfaces, LiberaInterfaz(i)
  PROVE  InterfacesAlDia'
<1>1. /\ InterfazEnOrden(i) /\ i \in Hilos /\ i # "corto" /\ "corto" \in Hilos /\ pc \in [Hilos -> Etiquetas]
      /\ Interfaces \subseteq Hilos
      /\ Len(dispositivo[i].ordenes) \in Nat /\ dispositivo[i].avisos \in Nat
      /\ interfaz[i].disponibilidad \in {0, 1} /\ interfaz \in [Interfaces -> TInterfaz]
  BY DeInterfaz
<1>2. /\ UNCHANGED <<pid, pcb, cola, corto, dispositivo>>
      /\ interfaz' = [interfaz EXCEPT ![i].disponibilidad = 0]
      /\ \A h \in Hilos \ {i} : pc'[h] = pc[h]
      /\ pc[i] = "siguiente" /\ pc'[i] = "libre" /\ cola[i] = <<>>
  BY <1>1 DEF LiberaInterfaz, procesos, locales, exterior, En, Va
<1>3. /\ interfaz'[i].disponibilidad = 0 /\ interfaz'[i].conectada = interfaz[i].conectada
      /\ \A j \in Interfaces \ {i} : interfaz'[j] = interfaz[j]
  BY <1>1, <1>2 DEF TInterfaz
<1>4. InterfazEnOrden(i)'
  <2>1. OrdenesEnCurso(i)' = 0
    <3>1. Len(dispositivo[i].ordenes) + dispositivo[i].avisos + 1 = interfaz[i].disponibilidad
      BY <1>1, <1>2 DEF InterfazEnOrden, OrdenesEnCurso, Uno
    <3>2. Len(dispositivo[i].ordenes) = 0 /\ dispositivo[i].avisos = 0
      BY <1>1, <3>1
    <3>3. QED BY <1>2, <3>2 DEF OrdenesEnCurso, Uno
  <2>2. ColaEnOrden(i)'
    BY <1>2 DEF ColaEnOrden, Contains
  <2>3. ServidoEnOrden(i)'
    BY <1>2, <1>3 DEF ServidoEnOrden
  <2>4. QED BY <1>3, <2>1, <2>2, <2>3 DEF InterfazEnOrden
<1>5. pc["corto"] \in {"io", "io_envia"} /\ corto.arg = i => interfaz'[i].conectada
  BY <1>3 DEF InterfacesAlDia, PideInterfaz
<1>6. /\ pc'["corto"] = pc["corto"]
      /\ \A j \in Interfaces \ {i} :
           interfaz'[j] = interfaz[j] /\ dispositivo'[j] = dispositivo[j] /\ pc'[j] = pc[j]
  BY <1>1, <1>2, <1>3
<1>7. QED BY <1>2, <1>4, <1>5, <1>6, SoloUna

-----------------------------------------------------------------------------
(* The steps that move a process or its instruction *)

\* Who waits in the queue of an interface waits in no other.
LEMMA EnUnaCola ==
  ASSUME TypeOK, EnLugar, NEW i \in Interfaces, NEW p \in Pids, Contains(cola[i], p)
  PROVE  /\ p \in Creados /\ pcb[p].estado = "BLOCKED" /\ pcb[p].cola_bloqueado = i
         /\ Espera(p, i)
         /\ \A j \in Interfaces \ {i} : ~Contains(cola[j], p) /\ ~Espera(p, j)
<1>1. Interfaces \subseteq Colas \ {"EXIT"}
  BY DEF Colas, ColasFijas
<1>2. p \in Creados /\ Donde(p) = {i} /\ i \in LugaresDe(p)
  BY <1>1, EnCola
<1>3. pcb[p].estado = "BLOCKED" /\ pcb[p].cola_bloqueado = i
  BY <1>1, <1>2, EstadoDeCola
<1>4. \A j \in Interfaces \ {i} : ~Contains(cola[j], p)
  BY <1>1, <1>2, DondeFormula
<1>5. QED BY <1>2, <1>3, <1>4 DEF Espera

\* The handler gives back the process served.
LEMMA DesbloqueaAlDia ==
  ASSUME InvLugar, MutexCoherente, InterfacesAlDia, NEW i \in Interfaces, DesbloqueaIO(i)
  PROVE  InterfacesAlDia'
<1>1. /\ InterfazEnOrden(i) /\ i \in Hilos /\ i # "corto" /\ "corto" \in Hilos /\ pc \in [Hilos -> Etiquetas]
      /\ Interfaces \subseteq Hilos /\ cola[i] \in Seq(Pids) /\ cola \in [Colas -> Seq(Pids)]
      /\ Len(dispositivo[i].ordenes) \in Nat /\ dispositivo[i].avisos \in Nat
      /\ interfaz[i].disponibilidad \in {0, 1} /\ i \in Colas
  BY DeInterfaz DEF InvLugar, Inv
<1>2. TypeOK /\ Control /\ EnLugar /\ pcb \in [Pids -> PCBs] /\ IsInjective(cola[i])
  BY <1>1 DEF InvLugar, Inv, TypeOK, EnLugar, UnSoloLugar
<1>3. PICK h : h = Head(cola[i])
  OBVIOUS
<1>4. PICK c \in {"READY", "READY_VRR"} : Pasa(h, i, c)
  BY <1>3 DEF DesbloqueaIO
<1>5. /\ UNCHANGED <<pid, corto, interfaz, dispositivo>>
      /\ \A g \in Hilos \ {i} : pc'[g] = pc[g]
      /\ pc[i] = "cola" /\ pc'[i] = "siguiente"
      /\ pcb' = [pcb EXCEPT ![h].estado = "READY"]
      /\ cola[i] # <<>> /\ h = interfaz[i].pid_ejecutando /\ sem[i] > 0
  BY <1>1, <1>3 DEF DesbloqueaIO, Atendido, bloqueos, locales, exterior, En, Va, Sems
<1>6. h \in Pids /\ Contains(cola[i], h)
  BY <1>1, <1>3, <1>5, PrimeroDeCola
<1>7. /\ h \in Creados /\ pcb[h].estado = "BLOCKED" /\ pcb[h].cola_bloqueado = i
      /\ \A j \in Interfaces \ {i} : ~Contains(cola[j], h) /\ ~Espera(h, j)
  BY <1>2, <1>6, EnUnaCola
<1>8. \A q \in Pids : /\ pcb'[q].instruccion_io = pcb[q].instruccion_io
                      /\ q # h => pcb'[q] = pcb[q]
  BY <1>2, <1>5 DEF PCBs
<1>9. /\ \A q : ~Reciente(q, i)
      /\ \A q, j : Reciente(q, j)' <=> Reciente(q, j)
  <2>1. \A q : ~Reciente(q, i)
    BY <1>2, <1>5, SinReciente
  <2>2. QED BY <1>1, <1>5, <2>1 DEF Reciente
<1>10. \A q, j : q # h /\ Espera(q, j) => Espera(q, j)'
  BY <1>2, <1>5, <1>8 DEF Espera, Creados, TypeOK, Pids
<1>11. \A j \in Interfaces \ {i} : \A q : Espera(q, j) => Espera(q, j)'
  BY <1>7, <1>10
<1>12. /\ cola'[i] = Tail(cola[i]) /\ \A j \in Interfaces \ {i} : cola'[j] = cola[j]
  BY <1>1, <1>4, <1>5 DEF Pasa, SinPrimero, Colas, ColasFijas
<1>13. \A q : Contains(cola'[i], q) <=> Contains(cola[i], q) /\ q # h
  BY <1>1, <1>2, <1>3, <1>5, <1>12, SacarSec
<1>14. interfaz[i].disponibilidad = 1
  BY <1>1, <1>6, <1>9 DEF InterfazEnOrden, ColaEnOrden
<1>15. ASSUME NEW j \in Interfaces \ {i} PROVE InterfazEnOrden(j)'
  <2>1. InterfazIgual(j)
    BY <1>1, <1>5, <1>8, <1>9, <1>11, <1>12 DEF InterfazIgual
  <2>2. QED BY <1>2, <2>1, InterfazQuieta DEF InterfacesAlDia
<1>16. InterfazEnOrden(i)'
  <2>1. OrdenesEnCurso(i)' = OrdenesEnCurso(i)
    BY <1>5 DEF OrdenesEnCurso, Uno
  <2>2. ColaEnOrden(i)'
    BY <1>1, <1>5, <1>8, <1>9, <1>13 DEF InterfazEnOrden, ColaEnOrden
  <2>3. ServidoEnOrden(i)'
    BY <1>5, <1>13 DEF ServidoEnOrden
  <2>4. QED BY <1>1, <1>5, <2>1, <2>2, <2>3 DEF InterfazEnOrden
<1>17. InstruccionGuardada'
  <2>1. ~pcb[h].instruccion_io
    BY <1>1, <1>5, <1>6, <1>9 DEF InterfazEnOrden, ColaEnOrden
  <2>2. QED BY <1>8, <1>10, <2>1 DEF InterfacesAlDia, InstruccionGuardada
<1>18. PideInterfaz'
  <2>1. PICK p, k : p = corto.proceso /\ k = corto.arg
    OBVIOUS
  <2>2. pc["corto"] = "io_envia" => k \in Interfaces \ {i} /\ Espera(p, k)
    BY <1>2, <1>9, <2>1 DEF InterfacesAlDia, PideInterfaz, Control, CortoEnOrden, Reciente
  <2>3. pc["corto"] = "io_envia" => Espera(p, k)'
    BY <1>11, <2>2
  <2>4. QED BY <1>1, <1>5, <2>1, <2>3 DEF InterfacesAlDia, PideInterfaz, Espera, Creados
<1>19. QED BY <1>15, <1>16, <1>17, <1>18 DEF InterfacesAlDia

\* The next process in the queue is served.
LEMMA AtiendeAlDia ==
  ASSUME InvLugar, MutexCoherente, InterfacesAlDia, NEW i \in Interfaces, AtiendeSiguiente(i)
  PROVE  InterfacesAlDia'
<1>1. /\ InterfazEnOrden(i) /\ i \in Hilos /\ i # "corto" /\ "corto" \in Hilos /\ pc \in [Hilos -> Etiquetas]
      /\ Interfaces \subseteq Hilos /\ cola[i] \in Seq(Pids)
      /\ Len(dispositivo[i].ordenes) \in Nat /\ dispositivo[i].avisos \in Nat
      /\ interfaz[i].disponibilidad \in {0, 1} /\ interfaz \in [Interfaces -> TInterfaz]
      /\ dispositivo \in [Interfaces -> TDispositivo]
  BY DeInterfaz DEF InvLugar, Inv
<1>2. TypeOK /\ Control /\ EnLugar /\ pcb \in [Pids -> PCBs]
  BY DEF InvLugar, Inv, TypeOK
<1>3. PICK h : h = Head(cola[i])
  OBVIOUS
<1>4. /\ UNCHANGED <<pid, corto, cola>>
      /\ \A g \in Hilos \ {i} : pc'[g] = pc[g]
      /\ pc[i] = "siguiente" /\ pc'[i] = "libre"
      /\ pcb' = [pcb EXCEPT ![h].instruccion_io = FALSE]
      /\ interfaz' = [interfaz EXCEPT ![i].pid_ejecutando = h]
      /\ dispositivo' = [dispositivo EXCEPT ![i].ordenes = Append(@, h)]
      /\ cola[i] # <<>>
  BY <1>1, <1>3 DEF AtiendeSiguiente, Ordena, locales, En, Va
<1>5. h \in Pids /\ Contains(cola[i], h)
  BY <1>1, <1>3, <1>4, PrimeroDeCola
<1>6. /\ Espera(h, i)
      /\ \A j \in Interfaces \ {i} : ~Contains(cola[j], h)
  BY <1>2, <1>5, EnUnaCola
<1>7. /\ \A q \in Pids : /\ pcb'[q].estado = pcb[q].estado
                         /\ pcb'[q].cola_bloqueado = pcb[q].cola_bloqueado
                         /\ q # h => pcb'[q] = pcb[q]
      /\ ~pcb'[h].instruccion_io
  BY <1>2, <1>4, <1>5 DEF PCBs
<1>8. /\ \A q : ~Reciente(q, i)
      /\ \A q, j : Reciente(q, j)' <=> Reciente(q, j)
  <2>1. \A q : ~Reciente(q, i)
    BY <1>2, <1>4, SinReciente
  <2>2. QED BY <1>1, <1>4, <2>1 DEF Reciente
<1>9. \A q, j : Espera(q, j) => Espera(q, j)'
  BY <1>2, <1>4, <1>7 DEF Espera, Creados, TypeOK, Pids
<1>10. interfaz[i].disponibilidad = 1
  BY <1>1, <1>5, <1>8 DEF InterfazEnOrden, ColaEnOrden
<1>11. /\ interfaz'[i].disponibilidad = 1 /\ interfaz'[i].conectada = interfaz[i].conectada
       /\ interfaz'[i].pid_ejecutando = h
       /\ dispositivo'[i].avisos = dispositivo[i].avisos
       /\ dispositivo'[i].ordenes = Append(dispositivo[i].ordenes, h)
       /\ \A j \in Interfaces \ {i} : interfaz'[j] = interfaz[j] /\ dispositivo'[j] = dispositivo[j]
  BY <1>1, <1>4, <1>10 DEF TInterfaz, TDispositivo
<1>12. ASSUME NEW j \in Interfaces \ {i} PROVE InterfazEnOrden(j)'
  <2>1. InterfazIgual(j)
    BY <1>1, <1>4, <1>6, <1>7, <1>8, <1>9, <1>11 DEF InterfazIgual
  <2>2. QED BY <1>2, <2>1, InterfazQuieta DEF InterfacesAlDia
<1>13. InterfazEnOrden(i)'
  <2>1. OrdenesEnCurso(i)' = OrdenesEnCurso(i)
    <3>1. dispositivo[i].ordenes \in Seq(Pids)
      BY <1>1, CampoDispositivo
    <3>2. PICK s : s = dispositivo[i].ordenes
      OBVIOUS
    <3>3. Len(Append(s, h)) = Len(s) + 1 /\ Len(s) \in Nat
      BY <3>1, <3>2
    <3>4. OrdenesEnCurso(i) = Len(s) + dispositivo[i].avisos + 1
      BY <1>4, <3>2 DEF OrdenesEnCurso, Uno
    <3>5. OrdenesEnCurso(i)' = Len(Append(s, h)) + dispositivo[i].avisos + 0
      BY <1>4, <1>11, <3>2 DEF OrdenesEnCurso, Uno
    <3>6. PICK n, m : n = Len(s) /\ m = dispositivo[i].avisos
      OBVIOUS
    <3>7. n \in Nat /\ m \in Nat
      BY <1>1, <3>3, <3>6
    <3>8. n + m + 1 = (n + 1) + m + 0
      BY <3>7
    <3>9. QED BY <3>3, <3>4, <3>5, <3>6, <3>8
  <2>2. ColaEnOrden(i)'
    <3>1. SUFFICES ASSUME NEW q \in Pids, Contains(cola[i], q)
                   PROVE  pcb'[q].instruccion_io <=> q # h
      BY <1>4, <1>8, <1>11 DEF ColaEnOrden
    <3>2. q # interfaz[i].pid_ejecutando
      BY <1>1, <1>4, <3>1 DEF InterfazEnOrden, ServidoEnOrden
    <3>3. pcb[q].instruccion_io
      BY <1>1, <1>8, <3>1, <3>2 DEF InterfazEnOrden, ColaEnOrden
    <3>4. QED BY <1>7, <3>3
  <2>3. ServidoEnOrden(i)'
    <3>1. Espera(h, i)'
      BY <1>6, <1>9
    <3>2. QED BY <1>3, <1>4, <1>11, <3>1 DEF ServidoEnOrden, Espera, Creados
  <2>4. QED BY <1>1, <1>10, <1>11, <2>1, <2>2, <2>3 DEF InterfazEnOrden
<1>14. InstruccionGuardada'
  BY <1>7, <1>9 DEF InterfacesAlDia, InstruccionGuardada
<1>15. PideInterfaz'
  <2>1. PICK p, k : p = corto.proceso /\ k = corto.arg
    OBVIOUS
  <2>2. pc["corto"] = "io_envia" => Espera(p, k)'
    BY <1>9, <2>1 DEF InterfacesAlDia, PideInterfaz
  <2>3. pc["corto"] \in {"io", "io_envia"} => k \in Interfaces /\ interfaz'[k].conectada
    BY <1>2, <1>11, <2>1 DEF InterfacesAlDia, PideInterfaz, Control, CortoEnOrden
  <2>4. QED BY <1>1, <1>4, <2>1, <2>2, <2>3 DEF PideInterfaz, Espera, Creados
<1>16. QED BY <1>12, <1>13, <1>14, <1>15 DEF InterfacesAlDia

\* The process that asked for an interface blocks in its queue.
LEMMA BloqueaAlDia ==
  ASSUME InvLugar, MutexCoherente, InterfacesAlDia, IOBloquea, [Next]_vars
  PROVE  InterfacesAlDia'
<1>1. /\ TypeOK /\ Control /\ SinDespertarPerdido /\ EnLugar /\ RunningEnOrden
      /\ pcb \in [Pids -> PCBs] /\ cola \in [Colas -> Seq(Pids)] /\ pc \in [Hilos -> Etiquetas]
      /\ Interfaces \subseteq Hilos \ {"corto"} /\ "corto" \in Hilos
      /\ Interfaces \subseteq Colas \ {"EXIT", "RUNNING"} /\ "RUNNING" \in Colas \ {"EXIT"}
  BY DEF InvLugar, Inv, TypeOK, Hilos, HilosFijos, Colas, ColasFijas
<1>2. PICK p : p = corto.proceso
  OBVIOUS
<1>3. PICK i : i = corto.arg
  OBVIOUS
<1>4. /\ UNCHANGED <<pid, corto, interfaz, dispositivo>>
      /\ \A g \in Hilos \ {"corto"} : pc'[g] = pc[g]
      /\ pc["corto"] = "io" /\ pc'["corto"] = "io_envia" /\ sem[i] > 0
      /\ pcb' = [pcb EXCEPT ![p].estado = "BLOCKED", ![p].cola_bloqueado = i]
      /\ Pasa(p, "RUNNING", i)
  BY <1>1, <1>2, <1>3 DEF IOBloquea, bloqueos, locales, exterior, En, Va, Sems
<1>5. i \in Interfaces /\ interfaz[i].conectada
  BY <1>1, <1>3, <1>4 DEF Control, CortoEnOrden, InterfacesAlDia, PideInterfaz
<1>6. /\ p \in Pids /\ pcb[p].estado = "EXEC" /\ p \in Creados
      /\ \A j \in Interfaces : ~Contains(cola[j], p) /\ ~Espera(p, j)
  <2>1. p \in Pids /\ cola["RUNNING"] # <<>> /\ p = Head(cola["RUNNING"]) /\ pcb[p].estado = "EXEC"
    BY <1>1, <1>2, <1>4, Tratado
  <2>2. Contains(cola["RUNNING"], p)
    BY <1>1, <2>1, PrimeroDeCola
  <2>3. p \in Creados /\ Donde(p) = {"RUNNING"}
    BY <1>1, <2>1, <2>2, EnCola
  <2>4. \A j \in Interfaces : ~Contains(cola[j], p)
    BY <1>1, <2>3, DondeFormula
  <2>5. \A j \in Interfaces : ~Espera(p, j)
    BY <2>1 DEF Espera
  <2>6. QED BY <2>1, <2>3, <2>4, <2>5
<1>7. EsperaQueda
  <2>1. \A j \in Interfaces : ~DesbloqueaIO(j)
    BY <1>1, <1>4 DEF DesbloqueaIO, En, Va
  <2>2. QED BY <1>1, <2>1, EsperaPaso
<1>8. /\ \A q \in Creados : pcb'[q].instruccion_io = pcb[q].instruccion_io
      /\ \A q \in Pids : pcb'[q].instruccion_io => pcb[q].instruccion_io
  BY <1>1, InstruccionPaso DEF MismasInstrucciones
<1>9. \A j \in Interfaces : \A q \in Pids : Contains(cola[j], q) => q \in Creados
  BY <1>1, EnUnaCola
<1>10. /\ cola'[i] = Append(cola[i], p)
       /\ \A j \in Interfaces \ {i} : cola'[j] = cola[j]
  BY <1>1, <1>4, <1>5 DEF Pasa
<1>11. cola[i] \in Seq(Pids) /\ IsInjective(cola[i]) /\ i \in Colas
  BY <1>1, <1>5 DEF EnLugar, UnSoloLugar
<1>12. \A q : Contains(cola'[i], q) <=> Contains(cola[i], q) \/ q = p
  BY <1>5, <1>6, <1>10, <1>11, AgregarSec
<1>13. /\ \A q, j : ~Reciente(q, j)
       /\ \A q : Reciente(q, i)' <=> q = p
       /\ \A q : \A j \in Interfaces \ {i} : ~Reciente(q, j)'
  BY <1>2, <1>3, <1>4 DEF Reciente
<1>14. ASSUME NEW j \in Interfaces \ {i} PROVE InterfazEnOrden(j)'
  <2>1. InterfazIgual(j)
    BY <1>1, <1>4, <1>7, <1>8, <1>9, <1>10, <1>13 DEF InterfazIgual, EsperaQueda
  <2>2. QED BY <1>1, <2>1, InterfazQuieta DEF InterfacesAlDia
<1>15. InterfazEnOrden(i) /\ pc[i] # "siguiente" /\ pc'[i] = pc[i]
  BY <1>1, <1>4, <1>5, SinReciente DEF InterfacesAlDia
<1>16. PICK e : e = interfaz[i].pid_ejecutando
  OBVIOUS
<1>17. interfaz[i].disponibilidad = 1 => e # p /\ Espera(e, i)
  BY <1>5, <1>6, <1>15, <1>16 DEF InterfazEnOrden, ServidoEnOrden
<1>18. InterfazEnOrden(i)'
  <2>1. OrdenesEnCurso(i)' = OrdenesEnCurso(i)
    BY <1>4, <1>15 DEF OrdenesEnCurso
  <2>2. ColaEnOrden(i)'
    <3>1. ASSUME NEW q \in Pids, Contains(cola[i], q)
          PROVE  /\ q # p /\ interfaz[i].disponibilidad = 1
                 /\ pcb'[q].instruccion_io <=> q # e
      BY <1>5, <1>6, <1>8, <1>9, <1>13, <1>15, <1>16, <3>1 DEF InterfazEnOrden, ColaEnOrden
    <3>2. ~pcb'[p].instruccion_io
      BY <1>6, <1>8 DEF InterfacesAlDia, InstruccionGuardada
    <3>3. QED BY <1>4, <1>12, <1>13, <1>16, <1>17, <3>1, <3>2 DEF ColaEnOrden
  <2>3. ServidoEnOrden(i)'
    <3>1. ASSUME interfaz[i].disponibilidad = 1 PROVE Espera(e, i)'
      <4>1. e \in Pids
        BY <1>1, <1>17, <3>1 DEF Espera, Creados, Pids, TypeOK
      <4>2. QED BY <1>5, <1>7, <1>17, <3>1, <4>1 DEF EsperaQueda
    <3>2. ASSUME interfaz[i].disponibilidad = 1, Contains(cola'[i], e) PROVE Head(cola'[i]) = e
      <4>1. Contains(cola[i], e)
        BY <1>12, <1>17, <3>2
      <4>2. Head(cola[i]) = e
        BY <1>15, <1>16, <3>2, <4>1 DEF InterfazEnOrden, ServidoEnOrden
      <4>3. cola[i] # <<>>
        BY <4>1 DEF Contains
      <4>4. QED BY <1>6, <1>10, <1>11, <4>2, <4>3, PrimeroQueda
    <3>3. QED BY <1>4, <1>15, <1>16, <3>1, <3>2 DEF ServidoEnOrden, Espera, Creados
  <2>4. QED BY <1>4, <1>15, <2>1, <2>2, <2>3 DEF InterfazEnOrden
<1>19. InstruccionGuardada'
  BY <1>7, <1>8 DEF InterfacesAlDia, InstruccionGuardada, EsperaQueda
<1>20. PideInterfaz'
  <2>1. Espera(p, i)'
    BY <1>1, <1>4, <1>6 DEF Espera, Creados, PCBs
  <2>2. QED BY <1>2, <1>3, <1>4, <1>5, <2>1 DEF PideInterfaz, Espera, Creados
<1>21. QED BY <1>14, <1>18, <1>19, <1>20 DEF InterfacesAlDia

\* Its instruction goes to the device, or stays in its PCB.
LEMMA EnviaAlDia ==
  ASSUME InvLugar, MutexCoherente, InterfacesAlDia, IOEnvia
  PROVE  InterfacesAlDia'
<1>1. /\ TypeOK /\ Control /\ EnLugar
      /\ pcb \in [Pids -> PCBs] /\ cola \in [Colas -> Seq(Pids)] /\ pc \in [Hilos -> Etiquetas]
      /\ Interfaces \subseteq Hilos \ {"corto"} /\ "corto" \in Hilos
  BY DEF InvLugar, Inv, TypeOK, Hilos, HilosFijos
<1>2. PICK p : p = corto.proceso
  OBVIOUS
<1>3. PICK i : i = corto.arg
  OBVIOUS
<1>4. /\ UNCHANGED <<pid, corto, cola>>
      /\ \A g \in Hilos \ {"corto"} : pc'[g] = pc[g]
      /\ pc["corto"] = "io_envia" /\ pc'["corto"] = "limpia"
  BY <1>1 DEF IOEnvia, locales, En, Va
<1>5. i \in Interfaces /\ interfaz[i].conectada /\ p \in Pids /\ Espera(p, i)
  BY <1>1, <1>2, <1>3, <1>4 DEF Control, CortoEnOrden, InterfacesAlDia, PideInterfaz
<1>6. InterfazEnOrden(i) /\ pc[i] # "siguiente" /\ pc'[i] = pc[i]
  BY <1>1, <1>3, <1>4, <1>5, SinReciente DEF InterfacesAlDia
<1>7. /\ \A q : Reciente(q, i) <=> q = p
      /\ \A q : \A j \in Interfaces \ {i} : ~Reciente(q, j)
      /\ \A q, j : ~Reciente(q, j)'
  BY <1>2, <1>3, <1>4 DEF Reciente
<1>8. \A j \in Interfaces \ {i} : ~Contains(cola[j], p)
  BY <1>1, <1>5, EnUnaCola DEF Espera
<1>9. PideInterfaz'
  BY <1>4 DEF PideInterfaz
<1>10. CASE interfaz[i].disponibilidad = 0
  <2>1. /\ UNCHANGED pcb
        /\ dispositivo' = [dispositivo EXCEPT ![i].ordenes = Append(@, p)]
        /\ interfaz' = [interfaz EXCEPT ![i].disponibilidad = 1, ![i].pid_ejecutando = p]
    BY <1>2, <1>3, <1>10 DEF IOEnvia, Ordena
  <2>2. /\ interfaz \in [Interfaces -> TInterfaz] /\ dispositivo \in [Interfaces -> TDispositivo]
        /\ dispositivo[i].ordenes \in Seq(Pids) /\ dispositivo[i].avisos \in Nat
    BY <1>1, <1>5, DeInterfaz, CampoDispositivo
  <2>3. /\ interfaz'[i].disponibilidad = 1 /\ interfaz'[i].conectada
        /\ interfaz'[i].pid_ejecutando = p
        /\ dispositivo'[i].avisos = dispositivo[i].avisos
        /\ dispositivo'[i].ordenes = Append(dispositivo[i].ordenes, p)
        /\ \A j \in Interfaces \ {i} : interfaz'[j] = interfaz[j] /\ dispositivo'[j] = dispositivo[j]
    BY <1>5, <2>1, <2>2 DEF TInterfaz, TDispositivo
  <2>4. \A q, j : Espera(q, j)' <=> Espera(q, j)
    BY <1>4, <2>1 DEF Espera, Creados
  <2>5. ASSUME NEW j \in Interfaces \ {i} PROVE InterfazEnOrden(j)'
    <3>1. InterfazIgual(j)
      BY <1>1, <1>4, <1>7, <2>1, <2>3, <2>4 DEF InterfazIgual
    <3>2. QED BY <1>1, <3>1, InterfazQuieta DEF InterfacesAlDia
  <2>6. \A q \in Pids : Contains(cola[i], q) => q = p /\ ~pcb[q].instruccion_io
    BY <1>6, <1>7, <1>10 DEF InterfazEnOrden, ColaEnOrden
  <2>7. OrdenesEnCurso(i)' = 1
    <3>1. PICK s, n : s = dispositivo[i].ordenes /\ n = dispositivo[i].avisos
      OBVIOUS
    <3>2. PICK u : u = Uno(pc[i] \in {"mediano", "cola", "siguiente"})
      OBVIOUS
    <3>3. Len(s) + n + u = 0 /\ u \in {0, 1}
      BY <1>6, <1>10, <3>1, <3>2 DEF InterfazEnOrden, OrdenesEnCurso, Uno
    <3>4. Len(s) \in Nat /\ n \in Nat /\ Len(Append(s, p)) = Len(s) + 1
      BY <2>2, <3>1
    <3>5. Len(s) = 0 /\ n = 0 /\ u = 0
      BY <3>3, <3>4
    <3>6. OrdenesEnCurso(i)' = Len(Append(s, p)) + n + u
      BY <1>6, <2>3, <3>1, <3>2 DEF OrdenesEnCurso, Uno
    <3>7. QED BY <3>4, <3>5, <3>6
  <2>8. ColaEnOrden(i)'
    BY <1>4, <1>7, <2>1, <2>3, <2>6 DEF ColaEnOrden
  <2>9. ServidoEnOrden(i)'
    <3>1. Contains(cola[i], p) => Head(cola[i]) = p
      <4>1. ASSUME Contains(cola[i], p) PROVE Head(cola[i]) = p
        <5>1. cola[i] # <<>> /\ cola[i] \in Seq(Pids)
          BY <1>1, <1>5, <4>1, DeInterfaz DEF Contains
        <5>2. QED BY <2>6, <5>1, PrimeroDeCola
      <4>2. QED BY <4>1
    <3>2. Espera(p, i)'
      BY <1>5, <2>4
    <3>3. QED BY <1>4, <1>6, <2>3, <3>1, <3>2 DEF ServidoEnOrden, Espera, Creados
  <2>10. InterfazEnOrden(i)'
    BY <2>3, <2>7, <2>8, <2>9 DEF InterfazEnOrden
  <2>11. InstruccionGuardada'
    BY <2>1, <2>4 DEF InterfacesAlDia, InstruccionGuardada
  <2>12. QED BY <1>9, <2>5, <2>10, <2>11 DEF InterfacesAlDia
<1>11. CASE interfaz[i].disponibilidad # 0
  <2>1. UNCHANGED <<interfaz, dispositivo>> /\ pcb' = [pcb EXCEPT ![p].instruccion_io = TRUE]
    BY <1>2, <1>3, <1>11 DEF IOEnvia
  <2>2. /\ \A q \in Pids : /\ pcb'[q].estado = pcb[q].estado
                           /\ pcb'[q].cola_bloqueado = pcb[q].cola_bloqueado
                           /\ q # p => pcb'[q] = pcb[q]
        /\ pcb'[p].instruccion_io
    BY <1>1, <1>5, <2>1 DEF PCBs
  <2>3. \A q, j : Espera(q, j) => Espera(q, j)'
    BY <1>1, <1>4, <2>2 DEF Espera, Creados, TypeOK, Pids
  <2>4. ASSUME NEW j \in Interfaces \ {i} PROVE InterfazEnOrden(j)'
    <3>1. InterfazIgual(j)
      BY <1>1, <1>4, <1>7, <1>8, <2>1, <2>2, <2>3 DEF InterfazIgual
    <3>2. QED BY <1>1, <3>1, InterfazQuieta DEF InterfacesAlDia
  <2>5. interfaz[i].disponibilidad = 1
    BY <1>1, <1>5, <1>11, DeInterfaz
  <2>6. InterfazEnOrden(i)'
    <3>1. OrdenesEnCurso(i)' = OrdenesEnCurso(i)
      BY <1>6, <2>1 DEF OrdenesEnCurso
    <3>2. ColaEnOrden(i)'
      <4>1. SUFFICES ASSUME NEW q \in Pids, Contains(cola[i], q)
                     PROVE  pcb'[q].instruccion_io <=> q # interfaz[i].pid_ejecutando
        BY <1>4, <1>7, <2>1, <2>5 DEF ColaEnOrden
      <4>2. CASE q = p
        BY <1>6, <1>7, <2>2, <2>5, <4>1, <4>2 DEF InterfazEnOrden, ColaEnOrden
      <4>3. CASE q # p
        BY <1>6, <1>7, <2>2, <4>1, <4>3 DEF InterfazEnOrden, ColaEnOrden
      <4>4. QED BY <4>2, <4>3
    <3>3. ServidoEnOrden(i)'
      <4>1. PICK e : e = interfaz[i].pid_ejecutando
        OBVIOUS
      <4>2. Espera(e, i) /\ (Contains(cola[i], e) => Head(cola[i]) = e)
        BY <1>6, <2>5, <4>1 DEF InterfazEnOrden, ServidoEnOrden
      <4>3. Espera(e, i)'
        BY <2>3, <4>2
      <4>4. QED BY <1>4, <1>6, <2>1, <4>1, <4>2, <4>3 DEF ServidoEnOrden, Espera, Creados
    <3>4. QED BY <1>6, <2>1, <3>1, <3>2, <3>3 DEF InterfazEnOrden
  <2>7. InstruccionGuardada'
    <3>1. Espera(p, i)'
      BY <1>5, <2>3
    <3>2. QED BY <1>5, <2>2, <2>3, <3>1 DEF InterfacesAlDia, InstruccionGuardada
  <2>8. QED BY <1>9, <2>4, <2>6, <2>7 DEF InterfacesAlDia
<1>12. QED BY <1>10, <1>11

-----------------------------------------------------------------------------
(* The theorem *)

\* Every step keeps the interfaces in order.
LEMMA InterfacesPaso ==
  ASSUME InvLugar, MutexCoherente, InterfacesAlDia, [Next]_vars
  PROVE  InterfacesAlDia'
<1>1. TypeOK /\ Control
  BY DEF InvLugar, Inv
<1>2. CASE Usuario \/ Consola \/ Largo
  BY <1>2, AjenoAlDia DEF PasoAjeno
<1>3. CASE Corto
  BY <1>3, AjenoAlDia, BloqueaAlDia, EnviaAlDia DEF PasoAjeno
<1>4. CASE Exit
  BY <1>4, AjenoAlDia DEF PasoAjeno
<1>5. ASSUME NEW i \in Interfaces, Manejador(i) PROVE InterfacesAlDia'
  BY <1>1, <1>5, RecibeAlDia, DesbloqueaAlDia, NadieAlDia, AtiendeAlDia, LiberaAlDia DEF Manejador
<1>6. CASE Entorno
  <2>1. CASE ControlQuantum \/ Cpu \/ MemoriaAtiende
    BY <2>1, AjenoAlDia DEF PasoAjeno
  <2>2. ASSUME NEW i \in Interfaces, Conexion(i) \/ Desconexion(i) \/ DispositivoTermina(i)
        PROVE  InterfacesAlDia'
    BY <1>1, <2>2, ConexionAlDia, DesconexionAlDia, TerminaAlDia
  <2>3. QED BY <1>6, <2>1, <2>2 DEF Entorno
<1>7. CASE UNCHANGED vars
  BY <1>7, AjenoAlDia DEF PasoAjeno
<1>8. QED BY <1>2, <1>3, <1>4, <1>5, <1>6, <1>7, PasosDelKernel

\* No interface has connected yet.
LEMMA InterfacesInicial == Init => InterfacesAlDia
<1> SUFFICES ASSUME Init PROVE InterfacesAlDia
  OBVIOUS
<1>1. \A i \in Interfaces : /\ interfaz[i].disponibilidad = 0 /\ cola[i] = <<>> /\ pc[i] = "libre"
                            /\ dispositivo[i].ordenes = <<>> /\ dispositivo[i].avisos = 0
  BY DEF Init, Colas, Hilos, HilosFijos
<1>2. ASSUME NEW i \in Interfaces PROVE InterfazEnOrden(i)
  <2>1. OrdenesEnCurso(i) = 0
    BY <1>1 DEF OrdenesEnCurso, Uno
  <2>2. ColaEnOrden(i)
    BY <1>1 DEF ColaEnOrden, Contains
  <2>3. QED BY <1>1, <2>1, <2>2 DEF InterfazEnOrden, ServidoEnOrden
<1>3. InstruccionGuardada
  BY DEF Init, InstruccionGuardada, PCBNuevo
<1>4. PideInterfaz
  BY DEF Init, PideInterfaz, Hilos, HilosFijos
<1>5. QED BY <1>2, <1>3, <1>4 DEF InterfacesAlDia

\* While nobody holds the queue of an interface, it is busy exactly when one
\* order of its device is under way, a free one has nobody waiting, and of
\* those who wait only the one being served has no instruction stored: no
\* order is lost or sent twice, whatever process the user ends meanwhile.
THEOREM InterfacesEnOrden == Spec => []InterfazCoherente
<1> DEFINE Todo == InvLugar /\ MutexCoherente /\ InterfacesAlDia
<1>1. Init => InterfacesAlDia
  BY InterfacesInicial
<1>2. InvLugar /\ MutexCoherente /\ InterfacesAlDia /\ [Next]_vars => InterfacesAlDia'
  BY InterfacesPaso
<1>3. ASSUME InvLugar, MutexCoherente, InterfacesAlDia PROVE InterfazCoherente
  <2>1. TypeOK
    BY <1>3 DEF InvLugar, Inv
  <2>2. SUFFICES ASSUME NEW i \in Interfaces, sem[i] = 1
                 PROVE  /\ Pendientes(i) = interfaz[i].disponibilidad
                        /\ interfaz[i].disponibilidad = 0 => cola[i] = <<>>
                        /\ \A k \in DOMAIN cola[i] :
                             pcb[cola[i][k]].instruccion_io <=> cola[i][k] # interfaz[i].pid_ejecutando
    BY DEF InterfazCoherente
  <2>3. pc[i] # "siguiente" /\ (\A q : ~Reciente(q, i)) /\ InterfazEnOrden(i) /\ cola[i] \in Seq(Pids)
    BY <1>3, <2>1, <2>2, SinReciente, DeInterfaz
  <2>4. Pendientes(i) = interfaz[i].disponibilidad
    BY <2>3 DEF InterfazEnOrden, OrdenesEnCurso, Pendientes, Uno
  <2>5. \A q \in Pids : Contains(cola[i], q) =>
          /\ interfaz[i].disponibilidad = 1
          /\ pcb[q].instruccion_io <=> q # interfaz[i].pid_ejecutando
    BY <2>3 DEF InterfazEnOrden, ColaEnOrden
  <2>6. interfaz[i].disponibilidad = 0 => cola[i] = <<>>
    BY <2>3, <2>5, PrimeroDeCola
  <2>7. \A k \in DOMAIN cola[i] : cola[i][k] \in Pids /\ Contains(cola[i], cola[i][k])
    BY <2>3 DEF Contains
  <2>8. QED BY <2>4, <2>5, <2>6, <2>7
<1>4. QED BY <1>1, <1>2, <1>3, InvarianteLugar, ExclusionMutua, PTL DEF Spec
=============================================================================

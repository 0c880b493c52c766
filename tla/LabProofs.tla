----------------------------- MODULE LabProofs ------------------------------
(***************************************************************************)
(* What the brains of the lab decide on, what that makes of their games,    *)
(* and what a match of them can show.                                       *)
(*                                                                         *)
(* Under the reference dialect the strongest cell of an honest broadcast is *)
(* where its sender stands.  The inductive invariant is about the senders:  *)
(* of a field that has been emitted into, the owner's cell reads E0 less    *)
(* one decay and every other cell reads less.  An emission restores it,     *)
(* because the merge keeps the larger value and the fresh centre E0 exceeds *)
(* both an older centre, which has faded, and a stamp's rim.  So the belief *)
(* is the truth, and what a policy decides on the truth is legal.           *)
(*                                                                         *)
(* That a match of equals is even holds under either dialect: a game is a   *)
(* function of its line-up and its seed.                                    *)
(***************************************************************************)
EXTENDS Lab, Recursion, SequenceTheorems

\* The parameters the argument needs: some decay, less than all of it, and a
\* stamp that is weaker off its centre.
Fading ==
  /\ Rho \in 1 .. Emit0 - 1
  /\ \A c, d \in Cell : /\ Stamp(c, d) \in Nat
                        /\ Stamp(c, c) = Emit0
                        /\ c # d => Stamp(c, d) < Emit0

\* Of a snapshot, centre at c: fresh there, weaker elsewhere.
Peak(s, c) ==
  /\ c \in Cell
  /\ s \in [Cell -> 0 .. Emit0 - Rho]
  /\ s[c] = Emit0 - Rho
  /\ \A d \in Cell : d # c => s[d] < Emit0 - Rho

\* A side's broadcast shows where it stands, or it has not spoken yet; and its
\* field is in whole thousandths, so that the wire loses nothing.
Honest(r) ==
  /\ field[r] = Absorbed(snap[r])
  /\ snap[r] = Silent \/ Peak(snap[r], own[r].at)

Side == [at : Cell, visited : SUBSET Cell, walls : SUBSET Cell, used : Nat]

LabType ==
  /\ own \in [Role -> Side]
  /\ mode \in [Role -> Cell]
  /\ DOMAIN field = Role /\ DOMAIN snap = Role
  /\ toMove \in Role
  /\ start \in Starts

\* Until the cop has spoken the thief goes by the start cell, where the cop
\* still is; when the cop decides, the thief has spoken.
Informed ==
  outcome = Playing =>
    /\ snap["police"] = Silent => mode["thief"] = own["police"].at
    /\ toMove = "police" => snap["thief"] # Silent

LabInv ==
  law = "reference" =>
    /\ LabType
    /\ \A r \in Role : Honest(r)
    /\ Informed
    /\ ModeIsTruth

-----------------------------------------------------------------------------
LEMMA Grains ==
  ASSUME ScentAssumption
  PROVE  Grain \in Nat /\ Grain > 0 /\ Emit0 \in Nat /\ Rho \in Nat
BY DEF ScentAssumption, ParamsAccepted

\* Whole thousandths travel as they are.
LEMMA WireExact ==
  ASSUME ScentAssumption, NEW v \in Nat
  PROVE  Wire(v * Grain) = v
<1>1. (v * Grain) \div Grain = v /\ (v * Grain) % Grain = 0
  BY Grains
<1> QED
  BY <1>1, Grains DEF Wire, RoundDiv

LEMMA SnapshotExact ==
  ASSUME ScentAssumption, NEW s \in [Cell -> Nat]
  PROVE  Snapshot(Absorbed(s)) = s
BY WireExact DEF Snapshot, Absorbed

LEMMA SilentIsWhole ==
  Absorbed(Silent) = Silent
BY Grains, ScentAssumption DEF Absorbed, Silent

\* The emission of the reference dialect, cell by cell.
LEMMA EmittedAt ==
  ASSUME Fading, ScentAssumption, NEW s \in [Cell -> Nat], NEW c \in Cell, NEW d \in Cell
  PROVE  LET v == Larger(s[d], Stamp(c, d))
         IN Emitted("reference", Absorbed(s), c)[d] = (IF v > Rho THEN v - Rho ELSE 0) * Grain
<1> DEFINE a == s[d]
           b == Stamp(c, d)
           v == Larger(a, b)
<1>1. a \in Nat /\ b \in Nat /\ v \in Nat
  BY DEF Fading, Larger
<1>2. Emitted("reference", Absorbed(s), c)[d] =
        LET w == Larger(a * Grain, b * Grain)
        IN IF w > Rho * Grain THEN w - Rho * Grain ELSE 0
  BY DEF Emitted, Decayed, Deposited, Merge, Faded, Absorbed
<1> HIDE DEF a, b
<1>3. Larger(a * Grain, b * Grain) = v * Grain
  <2>1. a * Grain > b * Grain <=> a > b
    BY <1>1, Grains
  <2> QED BY <2>1 DEF Larger
<1> HIDE DEF v
<1>4. v * Grain > Rho * Grain <=> v > Rho
  BY <1>1, Grains
<1>5. v * Grain - Rho * Grain = (v - Rho) * Grain
  BY <1>1, Grains
<1>6. 0 = 0 * Grain
  BY Grains
<1> QED BY <1>2, <1>3, <1>4, <1>5, <1>6 DEF v, a, b

\* An emission makes a peak where the sender stands, in whole thousandths.
LEMMA EmissionPeaks ==
  ASSUME Fading, ScentAssumption, NEW s \in [Cell -> 0 .. Emit0 - Rho], NEW c \in Cell
  PROVE  LET f == Emitted("reference", Absorbed(s), c)
         IN Peak(Snapshot(f), c) /\ f = Absorbed(Snapshot(f))
<1> DEFINE f == Emitted("reference", Absorbed(s), c)
           v == [d \in Cell |-> Larger(s[d], Stamp(c, d))]
           g == [d \in Cell |-> IF v[d] > Rho THEN v[d] - Rho ELSE 0]
<1>0. Emit0 \in Nat /\ Rho \in Nat /\ Rho > 0 /\ Rho < Emit0
  BY Grains DEF Fading
<1>1. ASSUME NEW d \in Cell
      PROVE  /\ g[d] \in 0 .. Emit0 - Rho
             /\ d = c => g[d] = Emit0 - Rho
             /\ d # c => g[d] < Emit0 - Rho
  <2>1. s[d] \in Nat /\ s[d] <= Emit0 - Rho
    BY <1>0
  <2>2. Stamp(c, d) \in Nat /\ (d = c => Stamp(c, d) = Emit0) /\ (d # c => Stamp(c, d) < Emit0)
    BY DEF Fading
  <2> DEFINE t == Stamp(c, d)
  <2>3. v[d] = Larger(s[d], t)
    OBVIOUS
  <2>4. v[d] \in Nat /\ (d = c => v[d] = Emit0) /\ (d # c => v[d] < Emit0) /\ v[d] <= Emit0
    <3> HIDE DEF t, v
    <3> QED BY <1>0, <2>1, <2>2, <2>3 DEF Larger, t
  <2>5. g[d] = IF v[d] > Rho THEN v[d] - Rho ELSE 0
    OBVIOUS
  <2> HIDE DEF v, g
  <2> QED BY <1>0, <2>4, <2>5
<1>2. g \in [Cell -> 0 .. Emit0 - Rho]
  BY <1>1
<1>3. g \in [Cell -> Nat]
  BY <1>0, <1>1
<1>4. s \in [Cell -> Nat]
  BY <1>0
<1>5. \A d \in Cell : f[d] = g[d] * Grain
  <2> SUFFICES ASSUME NEW d \in Cell PROVE f[d] = g[d] * Grain
    OBVIOUS
  <2> QED BY <1>4, EmittedAt
<1>6. f = [d \in Cell |-> f[d]]
  BY DEF Emitted, Decayed
<1> HIDE DEF f, g
<1>7. f = Absorbed(g)
  BY <1>5, <1>6 DEF Absorbed
<1>8. Snapshot(f) = g
  BY <1>3, <1>7, SnapshotExact
<1> QED BY <1>1, <1>2, <1>7, <1>8 DEF Peak, f

\* Who reads a peak finds its centre.
LEMMA PeakIsFound ==
  ASSUME Fading, ScentAssumption, NEW f, NEW c, Peak(f, c)
  PROVE  f # Silent /\ Strongest(f) = c
<1>0. Emit0 - Rho > 0 /\ Emit0 - Rho \in Nat
  BY DEF Fading, ScentAssumption, ParamsAccepted
<1>1. c \in Cell /\ f[c] = Emit0 - Rho
  BY DEF Peak
<1>2. \A d \in Cell : f[d] \in Nat /\ (d # c => f[d] < f[c])
  BY <1>0 DEF Peak
<1>3. f # Silent /\ ~(\A d \in Cell : f[d] = 0)
  BY <1>0, <1>1 DEF Silent
<1> DEFINE Best(b) == \A d \in Cell :
             \/ f[b] > f[d]
             \/ f[b] = f[d] /\ (b[1] < d[1] \/ (b[1] = d[1] /\ b[2] <= d[2]))
<1>4. c[1] \in Int /\ c[2] \in Int
  BY <1>1, BoardAssumption DEF Cell
<1>5. Best(c)
  BY <1>0, <1>1, <1>2, <1>4
<1>6. \A b \in Cell : Best(b) => b = c
  BY <1>0, <1>1, <1>2
<1>7. Strongest(f) = CHOOSE b \in Cell : Best(b)
  BY <1>3 DEF Strongest
<1> QED BY <1>1, <1>3, <1>5, <1>6, <1>7

-----------------------------------------------------------------------------
\* A sender that honestly stands anywhere can emit at its next cell.
LEMMA StillHonest ==
  ASSUME Fading, ScentAssumption, LabType, law = "reference",
         NEW r \in Role, Honest(r), Emits(r), own'[r].at \in Cell
  PROVE  /\ Peak(snap'[r], own'[r].at) /\ field'[r] = Absorbed(snap'[r])
         /\ \A q \in Role \ {r} : field'[q] = field[q] /\ snap'[q] = snap[q]
         /\ DOMAIN field' = Role /\ DOMAIN snap' = Role
<1>0. Emit0 - Rho \in Nat
  BY Grains DEF Fading
<1>1. snap[r] \in [Cell -> 0 .. Emit0 - Rho] /\ field[r] = Absorbed(snap[r])
  BY <1>0 DEF Honest, Peak, Silent
<1>2. field'[r] = Emitted("reference", Absorbed(snap[r]), own'[r].at)
  BY <1>1 DEF Emits, LabType
<1>3. snap'[r] = Snapshot(field'[r])
  BY DEF Emits, LabType
<1>4. Peak(snap'[r], own'[r].at) /\ field'[r] = Absorbed(snap'[r])
  BY <1>1, <1>2, <1>3, EmissionPeaks
<1> QED BY <1>4 DEF Emits, LabType

\* What Observe makes of the opponent's honest broadcast.
LEMMA Observed ==
  ASSUME Fading, ScentAssumption, LabType, NEW r \in Role, Honest(Opponent(r)), Observe(r)
  PROVE  /\ mode' \in [Role -> Cell]
         /\ \A q \in Role \ {r} : mode'[q] = mode[q]
         /\ mode'[r] = IF snap[Opponent(r)] = Silent THEN mode[r]
                                                     ELSE own[Opponent(r)].at
<1>1. snap[Opponent(r)] # Silent => Strongest(snap[Opponent(r)]) = own[Opponent(r)].at
  BY PeakIsFound DEF Honest
<1>2. own[Opponent(r)].at \in Cell
  BY DEF LabType, Side, Role, Opponent
<1> QED BY <1>1, <1>2 DEF Observe, Reads, LabType

LEMMA SidesApart == Role = {"police", "thief"} /\ "police" # "thief"
BY DEF Role

\* Where a step leads.
LEMMA SteppedAt ==
  ASSUME own \in [Role -> Side], NEW r \in Role, NEW dir, StepOk(r, dir), Stepped(r, dir)
  PROVE  /\ own' \in [Role -> Side]
         /\ \A q \in Role \ {r} : own'[q] = own[q]
<1>1. Shift(own[r].at, dir) \in Cell
  BY DEF StepOk, StepLegal
<1>2. own[r] \in Side
  BY DEF LabType
<1> DEFINE to == Shift(own[r].at, dir)
           moved == [own[r] EXCEPT !.at = to, !.visited = @ \cup {to}]
<1>3. moved \in Side
  <2> HIDE DEF to
  <2> QED BY <1>1, <1>2 DEF to, Side
<1>4. own' = [own EXCEPT ![r] = moved]
  BY DEF Stepped, LabType
<1> HIDE DEF moved
<1> QED BY <1>3, <1>4 DEF LabType

LEMMA SideWithWall ==
  ASSUME NEW s \in Side, NEW wall \in Cell, NEW n \in Nat
  PROVE  /\ [s EXCEPT !.walls = @ \cup {wall}, !.used = n] \in Side
         /\ [s EXCEPT !.walls = @ \cup {wall}, !.used = n].at = s.at
BY DEF Side

LEMMA WalledAt ==
  ASSUME own \in [Role -> Side], NEW wall, Walled(wall),
         BarrierLegal(own["police"].at, wall, own["police"].walls, own["police"].used)
  PROVE  own' \in [Role -> Side] /\ \A q \in Role : own'[q].at = own[q].at
<1>1. own["police"] \in Side
  BY SidesApart DEF LabType
<1>2. wall \in Cell
  BY <1>1 DEF Side, BarrierLegal, BarrierOptions, StepLegal
<1>3. ASSUME NEW q \in Role
      PROVE  own'[q] \in Side /\ own'[q].at = own[q].at
  <2> DEFINE n == IF q = "police" THEN own[q].used + 1 ELSE own[q].used
  <2>1. own[q] \in Side /\ own[q].used \in Nat
    BY DEF LabType, Side
  <2>2. n \in Nat
    BY <2>1
  <2> DEFINE to == [own[q] EXCEPT !.walls = @ \cup {wall}, !.used = n]
  <2>3. own'[q] = to
    BY DEF Walled, Built
  <2> HIDE DEF n
  <2>4. to \in Side /\ to.at = own[q].at
    BY <1>2, <2>1, <2>2, SideWithWall
  <2> QED BY <2>3, <2>4
<1>4. own' = [q \in Role |-> own'[q]]
  BY DEF Walled, Built
<1> QED BY <1>3, <1>4

-----------------------------------------------------------------------------
LEMMA InitEstablishes == Init => LabInv
<1> SUFFICES ASSUME Init PROVE LabInv
  OBVIOUS
<1>1. start["police"] \in Cell /\ start["thief"] \in Cell
  BY LabAssumption DEF Init
<1>2. LabType
  BY <1>1 DEF Init, LabType, Side, FreshOwn, FreshSide, FreshMode, NoScent, Role, Opponent
<1>3. \A r \in Role : Honest(r)
  BY SilentIsWhole DEF Init, NoScent, Honest
<1>4. Informed
  BY DEF Init, FreshMode, FreshOwn, FreshSide, NoScent, Informed, Role, Opponent
<1>5. ModeIsTruth
  BY DEF Init, ModeIsTruth
<1> QED BY <1>2, <1>3, <1>4, <1>5 DEF LabInv

\* A game that raised has no next turn, and its fields are as they were.
LEMMA RaisedKeeps ==
  ASSUME LabInv, law = "reference", Raises, UNCHANGED <<law, start>>, mode' \in [Role -> Cell], toMove' \in Role
  PROVE  LabInv'
<1>1. outcome' # Playing
  BY DEF Raises, Raised, Playing
<1>2. LabType'
  BY DEF Raises, LabInv, LabType
<1>3. law' = "reference" => \A r \in Role : Honest(r)'
  BY DEF Raises, LabInv, Honest
<1> QED BY <1>1, <1>2, <1>3 DEF LabInv, Informed, ModeIsTruth

LEMMA ThiefKeeps ==
  ASSUME Fading, LabInv, ThiefTurn, law = "reference"
  PROVE  LabInv'
<1> USE ScentAssumption
<1>0. LabType /\ (\A r \in Role : Honest(r)) /\ Informed /\ ModeIsTruth
  BY DEF LabInv
<1>a. own \in [Role -> Side]
  BY <1>0 DEF LabType
<1>1. Observe("thief") /\ toMove' = "police" /\ UNCHANGED <<law, start>> /\ outcome = Playing
      /\ copSteps' = copSteps
  BY DEF ThiefTurn, match
<1>2. Opponent("thief") = "police" /\ Opponent("police") = "thief"
      /\ "police" \in Role /\ "thief" \in Role
  BY DEF Opponent, Role
<1>3. /\ mode' \in [Role -> Cell]
      /\ mode'["thief"] = IF snap["police"] = Silent THEN mode["thief"] ELSE own["police"].at
  BY <1>0, <1>1, <1>2, Observed
<1>4. mode'["thief"] = own["police"].at
  BY <1>0, <1>1, <1>3 DEF Informed
<1>5. CASE Raises
  BY <1>1, <1>2, <1>3, <1>5, RaisedKeeps
<1>6. CASE ~Raises
  <2> DEFINE dir == Decides("thief").dir
  <2>1. StepOk("thief", dir) /\ Stepped("thief", dir) /\ Emits("thief")
    BY <1>6 DEF ThiefTurn
  <2> HIDE DEF dir
  <2>2. /\ own' \in [Role -> Side]
        /\ own'["police"] = own["police"]
    BY <1>a, <1>2, <2>1, SteppedAt, SidesApart
  <2>3. own'["thief"].at \in Cell
    BY <1>2, <2>2 DEF Side
  <2>4. /\ Peak(snap'["thief"], own'["thief"].at) /\ field'["thief"] = Absorbed(snap'["thief"])
        /\ field'["police"] = field["police"] /\ snap'["police"] = snap["police"]
        /\ DOMAIN field' = Role /\ DOMAIN snap' = Role
    BY <1>0, <1>2, <2>1, <2>3, StillHonest, SidesApart
  <2>5. LabType'
    BY <1>0, <1>1, <1>2, <1>3, <2>2, <2>4 DEF LabType
  <2>6. Honest("thief")' /\ Honest("police")'
    BY <1>0, <1>2, <2>2, <2>4 DEF Honest
  <2>7. snap'["thief"] # Silent
    BY <2>4, PeakIsFound
  <2>8. Informed'
    BY <1>4, <2>2, <2>7 DEF Informed
  <2>9. ModeIsTruth'
    BY <1>1, <1>2, <1>4, <2>2 DEF ModeIsTruth
  <2> QED BY <2>5, <2>6, <2>8, <2>9, SidesApart DEF LabInv
<1> QED BY <1>5, <1>6

LEMMA CopKeeps ==
  ASSUME Fading, LabInv, CopTurn, law = "reference"
  PROVE  LabInv'
<1> USE ScentAssumption
<1>0. LabType /\ (\A r \in Role : Honest(r)) /\ Informed /\ ModeIsTruth
  BY DEF LabInv
<1>a. own \in [Role -> Side]
  BY <1>0 DEF LabType
<1>1. Observe("police") /\ toMove = "police" /\ toMove' = "thief" /\ UNCHANGED <<law, start>>
      /\ outcome = Playing
  BY DEF CopTurn, match
<1>2. Opponent("thief") = "police" /\ Opponent("police") = "thief"
      /\ "police" \in Role /\ "thief" \in Role
  BY DEF Opponent, Role
<1>3. mode' \in [Role -> Cell] /\ mode'["police"] = own["thief"].at
  BY <1>0, <1>1, <1>2, Observed DEF Informed
<1>4. CASE Raises
  BY <1>1, <1>2, <1>3, <1>4, RaisedKeeps
<1>5. CASE ~Raises
  <2>1. /\ Emits("police")
        /\ own' \in [Role -> Side]
        /\ own'["thief"].at = own["thief"].at
    <3> DEFINE decision == Decides("police")
               wall == Shift(own["police"].at, decision.dir)
    <3>1. CASE BarrierLegal(own["police"].at, wall, own["police"].walls, own["police"].used)
               /\ Walled(wall)
      <4> HIDE DEF wall
      <4> QED BY <1>a, <1>2, <3>1, WalledAt DEF Walled, Built
    <3>2. CASE StepOk("police", decision.dir) /\ Landed(decision.dir)
      <4> HIDE DEF decision
      <4> QED BY <1>a, <1>2, <3>2, SteppedAt, SidesApart DEF Landed
    <3> QED BY <1>5, <3>1, <3>2 DEF CopTurn, WallOf
  <2>2. own'["police"].at \in Cell
    BY <1>2, <2>1 DEF Side
  <2>3. /\ Peak(snap'["police"], own'["police"].at) /\ field'["police"] = Absorbed(snap'["police"])
        /\ field'["thief"] = field["thief"] /\ snap'["thief"] = snap["thief"]
        /\ DOMAIN field' = Role /\ DOMAIN snap' = Role
    BY <1>0, <1>2, <2>1, <2>2, StillHonest, SidesApart
  <2>4. LabType'
    BY <1>0, <1>1, <1>2, <1>3, <2>1, <2>3 DEF LabType
  <2>5. Honest("thief")' /\ Honest("police")'
    BY <1>0, <1>2, <2>1, <2>3 DEF Honest
  <2>6. snap'["police"] # Silent
    BY <2>3, PeakIsFound
  <2>7. Informed'
    BY <1>1, <2>6 DEF Informed
  <2>8. ModeIsTruth'
    BY <1>1, <1>2, <1>3, <2>1 DEF ModeIsTruth
  <2> QED BY <2>4, <2>5, <2>7, <2>8, SidesApart DEF LabInv
<1> QED BY <1>4, <1>5

LEMMA GameKeeps ==
  ASSUME LabInv, NextGame, law = "reference"
  PROVE  LabInv'
<1>1. UNCHANGED <<law, start>>
  BY DEF NextGame
<1>2. CASE Len(rows') < 2 * Pairs
  <2>1. /\ own' = FreshOwn /\ field' = NoScent /\ snap' = NoScent
        /\ mode' = FreshMode /\ copSteps' = 0 /\ toMove' = "thief"
    BY <1>2 DEF NextGame
  <2>2. start["police"] \in Cell /\ start["thief"] \in Cell
    BY LabAssumption DEF LabInv, LabType
  <2>3. LabType'
    BY <1>1, <2>1, <2>2 DEF LabInv, LabType, Side, FreshOwn, FreshSide, FreshMode,
      NoScent, Role, Opponent
  <2>4. \A r \in Role : Honest(r)'
    BY <2>1, SilentIsWhole DEF NoScent, Honest
  <2>5. Informed'
    BY <2>1, SidesApart DEF FreshMode, FreshOwn, FreshSide, NoScent, Informed, Opponent
  <2>6. ModeIsTruth'
    BY <2>1 DEF ModeIsTruth
  <2> QED BY <2>3, <2>4, <2>5, <2>6 DEF LabInv
<1>3. CASE ~(Len(rows') < 2 * Pairs)
  <2>1. UNCHANGED <<own, field, snap, mode, copSteps, toMove>>
        /\ outcome' = [outcome EXCEPT !.result = "over"]
    BY <1>3 DEF NextGame
  <2>2. outcome' # Playing
    <3> SUFFICES ASSUME outcome' = Playing PROVE FALSE
      OBVIOUS
    <3>1. "result" \in DOMAIN outcome' /\ outcome'.result = "playing"
      BY DEF Playing
    <3>2. DOMAIN outcome = DOMAIN outcome'
      BY <2>1
    <3> QED BY <2>1, <3>1, <3>2
  <2> QED BY <1>1, <2>1, <2>2 DEF LabInv, LabType, Honest, Informed, ModeIsTruth
<1> QED BY <1>2, <1>3

LEMMA NextKeeps == Fading /\ LabInv /\ [Next]_vars => LabInv'
<1> SUFFICES ASSUME Fading, LabInv, [Next]_vars PROVE LabInv'
  OBVIOUS
<1>1. law' = law
  BY DEF Next, ThiefTurn, CopTurn, NextGame, match, vars
<1>2. CASE law # "reference"
  BY <1>1, <1>2 DEF LabInv
<1>3. CASE law = "reference"
  <2>1. CASE ThiefTurn
    BY <1>3, <2>1, ThiefKeeps
  <2>2. CASE CopTurn
    BY <1>3, <2>2, CopKeeps
  <2>3. CASE NextGame
    BY <1>3, <2>3, GameKeeps
  <2>4. CASE UNCHANGED vars
    BY <1>3, <2>4 DEF LabInv, LabType, Honest, Informed, ModeIsTruth, vars, world, match
  <2> QED BY <2>1, <2>2, <2>3, <2>4 DEF Next
<1> QED BY <1>2, <1>3

\* Under the subtractive dialect, whatever the decay below a full centre and
\* whatever brains play, each side decides on the opponent's true cell.
THEOREM BeliefIsTruth ==
  ASSUME Fading
  PROVE  Spec => []ModeIsTruth
<1>1. Init => LabInv
  BY InitEstablishes
<1>2. LabInv /\ [Next]_vars => LabInv'
  BY NextKeeps
<1>3. LabInv => ModeIsTruth
  BY DEF LabInv, ModeIsTruth
<1> QED BY <1>1, <1>2, <1>3, PTL DEF Spec

-----------------------------------------------------------------------------
LEMMA BoardIsFinite ==
  IsFiniteSet(Cell) /\ Cardinality(Cell) = Far /\ Far \in Nat
<1> USE BoardAssumption
<1> DEFINE I == 0 .. GridSize - 1
<1>1. IsFiniteSet(I) /\ Cardinality(I) = GridSize
  BY FS_Interval
<1> HIDE DEF I
<1>2. IsFiniteSet(I \X I) /\ Cardinality(I \X I) = GridSize * GridSize
  BY <1>1, FS_Product
<1>3. GridSize * GridSize \in Nat
  OBVIOUS
<1> QED BY <1>2, <1>3 DEF I, Cell, Far

\* The cells reached by a search stay on the board, and it ends with them.
LEMMA GrowthIsBounded ==
  ASSUME NEW cells \in SUBSET Cell, NEW walls
  PROVE  /\ Grown(cells, walls) \in SUBSET Cell /\ cells \subseteq Grown(cells, walls)
         /\ Far - Cardinality(cells) \in Nat
         /\ Grown(cells, walls) # cells =>
              Far - Cardinality(Grown(cells, walls)) < Far - Cardinality(cells)
<1> DEFINE more == Grown(cells, walls)
<1>1. more \in SUBSET Cell /\ cells \subseteq more
  BY DEF Grown, Neighbors
<1> HIDE DEF more
<1>2. IsFiniteSet(more) /\ IsFiniteSet(cells)
  BY <1>1, BoardIsFinite, FS_Subset
<1>3. Cardinality(cells) \in Nat /\ Cardinality(more) \in Nat
  BY <1>2, FS_CardinalityType
<1>4. Cardinality(cells) <= Far
  BY BoardIsFinite, FS_Subset
<1>5. more # cells => Cardinality(cells) < Cardinality(more)
  <2>1. cells \in SUBSET more
    BY <1>1
  <2>2. Cardinality(cells) <= Cardinality(more) /\ (Cardinality(more) = Cardinality(cells) => more = cells)
    BY <1>2, <2>1, FS_Subset
  <2> QED BY <1>3, <2>2
<1> QED BY <1>1, <1>3, <1>4, <1>5, BoardIsFinite DEF more

LEMMA DistanceInRange ==
  ASSUME NEW a \in Cell, NEW b, NEW walls
  PROVE  BfsDistance(a, b, walls) \in 0 .. Far
<1> DEFINE S == SUBSET Cell
           next == [cells \in S |-> Grown(cells, walls)]
           stop == {cells \in S : b \in cells \/ Grown(cells, walls) = cells}
           base == [cells \in S |-> IF b \in cells THEN 0 ELSE Far]
           comb == [x \in S \X Nat |-> 1 + x[2]]
           rank == [cells \in S |-> Far - Cardinality(cells)]
           Hops(f) == f = [cells \in SUBSET Cell |->
                             IF b \in cells THEN 0
                             ELSE IF Grown(cells, walls) = cells THEN Far
                             ELSE 1 + f[Grown(cells, walls)]]
           hops == CHOOSE f : Hops(f)
<1>1. Descends(S, stop, next, rank)
  <2>1. next \in [S -> S] /\ rank \in [S -> Nat]
    BY GrowthIsBounded
  <2>2. \A s \in S : s \notin stop => rank[next[s]] < rank[s]
    BY GrowthIsBounded
  <2> HIDE DEF S, stop, next, rank
  <2> QED BY <2>1, <2>2 DEF Descends
<1>2. Combines(S, Nat, base, comb)
  BY BoardIsFinite DEF Combines
<1>3. \A cells \in S : next[cells] \in S
  BY GrowthIsBounded
<1> HIDE DEF S, next, stop, base, comb, rank
<1>4. PICK f : Solves(f, S, Nat, stop, next, base, comb)
  BY <1>1, <1>2, RecursionSolved
<1>5. \A s \in S : f[s] = IF b \in s THEN 0 ELSE IF Grown(s, walls) = s THEN Far
                                            ELSE 1 + f[Grown(s, walls)]
  <2> SUFFICES ASSUME NEW s \in S
               PROVE  f[s] = IF b \in s THEN 0 ELSE IF Grown(s, walls) = s THEN Far
                                              ELSE 1 + f[Grown(s, walls)]
    OBVIOUS
  <2>1. next[s] = Grown(s, walls) /\ next[s] \in S
    BY <1>3 DEF next
  <2>2. comb[<<s, f[next[s]]>>] = 1 + f[next[s]]
    BY <1>4, <2>1 DEF Solves, comb
  <2> QED BY <1>4, <2>1, <2>2 DEF Solves, S, stop, base
<1>6. Hops(f)
  BY <1>4, <1>5 DEF Solves, S
<1>7. hops = [cells \in SUBSET Cell |->
                IF b \in cells THEN 0
                ELSE IF Grown(cells, walls) = cells THEN Far
                ELSE 1 + hops[Grown(cells, walls)]]
  BY <1>6, Zenon
<1>8. BfsDistance(a, b, walls) = Smaller(hops[{a}], Far)
  BY Zenon DEF BfsDistance
<1> HIDE DEF hops, Hops
<1>9. Follows(f, hops, S, stop, next)
  BY <1>5, <1>7 DEF Follows, S, stop, next
<1>10. \A s \in S : f[s] = hops[s]
  BY <1>1, <1>9, RecursionUnique
<1>11. hops[{a}] \in Nat
  BY <1>4, <1>10 DEF Solves, S
<1> QED BY <1>8, <1>11, BoardIsFinite DEF Smaller

LEMMA ReachedOnBoard ==
  ASSUME NEW pos \in Cell, NEW walls, NEW k \in Nat
  PROVE  /\ ReachableCells(pos, walls, k) \subseteq Cell
         /\ Cardinality(ReachableCells(pos, walls, k)) \in 0 .. Far
<1> DEFINE S == 0 .. k
           V == SUBSET Cell
           stop == {0}
           next == [n \in S |-> IF n = 0 THEN 0 ELSE n - 1]
           base == [n \in S |-> {pos}]
           comb == [x \in S \X V |-> Grown(x[2], walls)]
           rank == [n \in S |-> n]
           Within(f) == f = [n \in 0 .. k |->
                               IF n = 0 THEN {pos} ELSE Grown(f[n - 1], walls)]
           within == CHOOSE f : Within(f)
<1>1. Descends(S, stop, next, rank)
  <2>1. next \in [S -> S] /\ rank \in [S -> Nat]
    OBVIOUS
  <2>2. \A s \in S : s \notin stop => rank[next[s]] < rank[s]
    OBVIOUS
  <2> HIDE DEF S, stop, next, rank
  <2> QED BY <2>1, <2>2 DEF Descends
<1>2. Combines(S, V, base, comb)
  <2>1. comb \in [S \X V -> V]
    BY GrowthIsBounded
  <2> QED BY <2>1 DEF Combines
<1>3. \A n \in S : next[n] \in S
  OBVIOUS
<1> HIDE DEF S, next, base, comb, rank, V, stop
<1>4. PICK f : Solves(f, S, V, stop, next, base, comb)
  BY <1>1, <1>2, RecursionSolved
<1>5. \A n \in S : f[n] = IF n = 0 THEN {pos} ELSE Grown(f[n - 1], walls)
  <2> SUFFICES ASSUME NEW n \in S
               PROVE  f[n] = IF n = 0 THEN {pos} ELSE Grown(f[n - 1], walls)
    OBVIOUS
  <2>1. n # 0 => next[n] = n - 1
    BY DEF S, next
  <2>2. comb[<<n, f[next[n]]>>] = Grown(f[next[n]], walls)
    BY <1>3, <1>4 DEF Solves, comb
  <2> QED BY <1>4, <2>1, <2>2 DEF Solves, base, stop
<1>6. Within(f)
  BY <1>4, <1>5 DEF Solves, S
<1>7. within = [n \in 0 .. k |-> IF n = 0 THEN {pos} ELSE Grown(within[n - 1], walls)]
  BY <1>6, Zenon
<1>8. ReachableCells(pos, walls, k) = within[k]
  BY Zenon DEF ReachableCells
<1> HIDE DEF within, Within
<1>9. Follows(f, within, S, stop, next)
  BY <1>5, <1>7 DEF Follows, S, next, stop
<1>10. \A n \in S : f[n] = within[n]
  BY <1>1, <1>9, RecursionUnique
<1>11. ReachableCells(pos, walls, k) \in SUBSET Cell
  BY <1>4, <1>8, <1>10 DEF Solves, S, V
<1>12. \A cells \in SUBSET Cell : Cardinality(cells) \in 0 .. Far
  BY BoardIsFinite, FS_Subset, FS_CardinalityType
<1> QED BY <1>11, <1>12

Beats(p, q) == p[1] > q[1] \/ (p[1] = q[1] /\ p[2] <= q[2])

\* Python's max finds one of the best.
LEMMA FirstBestIsBest ==
  ASSUME NEW moves \in SUBSET DOMAIN MoveSet, moves # {}, NEW key \in [moves -> Int]
  PROVE  LET i == FirstBest[{<<key[j], j>> : j \in moves}]
         IN i \in moves /\ \A j \in moves : key[j] <= key[i]
<1> DEFINE scored == {<<key[j], j>> : j \in moves}
<1>1. DOMAIN MoveSet \subseteq Nat /\ IsFiniteSet(DOMAIN MoveSet)
  <2>1. Len(MoveSet) \in Nat /\ DOMAIN MoveSet = 1 .. Len(MoveSet)
    BY BoardAssumption
  <2>2. IsFiniteSet(1 .. Len(MoveSet))
    BY <2>1, FS_Interval
  <2> QED BY <2>1, <2>2
<1>2. IsFiniteSet(moves)
  BY <1>1, FS_Subset
<1>3. PICK best \in {key[j] : j \in moves} : \A v \in {key[j] : j \in moves} : v <= best
  <2> DEFINE T == {key[j] : j \in moves}
  <2>1. T \in SUBSET Int /\ T # {}
    OBVIOUS
  <2>2. IsFiniteSet(T)
    <3>1. key \in Surjection(moves, T)
      BY DEF Surjection
    <3> HIDE DEF T
    <3> QED BY <1>2, <3>1, FS_Surjection
  <2> HIDE DEF T
  <2>3. \E m \in T : \A n \in T : n <= m
    BY <2>1, <2>2, GreatestOne
  <2> QED BY <2>3 DEF T
<1>4. PICK i \in {j \in moves : key[j] = best} : \A j \in {j \in moves : key[j] = best} : i <= j
  <2> DEFINE T == {j \in moves : key[j] = best}
  <2>1. T \in SUBSET Nat /\ T # {}
    BY <1>1
  <2> HIDE DEF T
  <2>2. \E m \in T : \A n \in T : m <= n
    BY <2>1, LeastOne
  <2> QED BY <2>2 DEF T
<1>5. scored \in SUBSET (Int \X Nat)
  BY <1>1
<1>6. \A q \in scored : Beats(<<key[i], i>>, q)
  <2> SUFFICES ASSUME NEW j \in moves PROVE Beats(<<key[i], i>>, <<key[j], j>>)
    OBVIOUS
  <2>1. key[j] \in Int /\ key[i] = best /\ key[j] <= best /\ best \in Int
    BY <1>3, <1>4
  <2>2. j \in Nat /\ i \in Nat
    BY <1>1
  <2>3. key[j] = best => i <= j
    BY <1>4
  <2> QED BY <2>1, <2>2, <2>3 DEF Beats
<1>7. FirstBest[scored] = (CHOOSE p \in scored : \A q \in scored : Beats(p, q))[2]
  <2> HIDE DEF scored
  <2> QED BY <1>5, Zenon DEF FirstBest, Beats
<1> DEFINE p == CHOOSE p \in scored : \A q \in scored : Beats(p, q)
<1>8. <<key[i], i>> \in scored
  BY <1>4
<1>9. p \in scored /\ \A q \in scored : Beats(p, q)
  <2> HIDE DEF scored
  <2> QED BY <1>6, <1>8
<1> HIDE DEF p
<1>10. PICK k \in moves : p = <<key[k], k>>
  BY <1>9
<1>11. \A j \in moves : key[j] <= key[k]
  <2> SUFFICES ASSUME NEW j \in moves PROVE key[j] <= key[k]
    OBVIOUS
  <2>1. Beats(<<key[k], k>>, <<key[j], j>>)
    BY <1>9, <1>10
  <2>2. key[j] \in Int /\ key[k] \in Int
    OBVIOUS
  <2> QED BY <2>1, <2>2 DEF Beats
<1>12. FirstBest[scored] = k
  <2>1. FirstBest[scored] = p[2]
    BY <1>7 DEF p
  <2> QED BY <1>10, <2>1
<1> QED BY <1>11, <1>12

-----------------------------------------------------------------------------
\* A free cell can always be held.
LEMMA FreeCellHasMoves ==
  ASSUME InMoveSet("STAY"), NEW at \in Cell, NEW walls, at \notin walls
  PROVE  Moves(at, walls) # {}
<1>1. PICK i \in DOMAIN MoveSet : MoveSet[i] = "STAY"
  BY DEF InMoveSet
<1>2. Shift(at, "STAY") = at
  BY BoardAssumption DEF Shift, Delta, Cell
<1>3. i \in Moves(at, walls)
  BY <1>1, <1>2 DEF Moves, StepLegal
<1> QED BY <1>3

LEMMA ExitsAreCounted ==
  ASSUME NEW cell, NEW walls
  PROVE  Exits(cell, walls) \in Nat
<1>1. IsFiniteSet(Direction)
  <2>1. Direction = {"N", "S", "E", "W"} \cup {"STAY"}
    BY DEF Direction
  <2>2. IsFiniteSet({"N"}) /\ IsFiniteSet({"S"}) /\ IsFiniteSet({"E"}) /\ IsFiniteSet({"W"})
        /\ IsFiniteSet({"STAY"})
    BY FS_Singleton
  <2>3. IsFiniteSet({"N"} \cup {"S"})
    BY <2>2, FS_Union
  <2>4. IsFiniteSet({"E"} \cup {"W"})
    BY <2>2, FS_Union
  <2>5. IsFiniteSet(({"N"} \cup {"S"}) \cup ({"E"} \cup {"W"}))
    BY <2>3, <2>4, FS_Union
  <2>6. IsFiniteSet((({"N"} \cup {"S"}) \cup ({"E"} \cup {"W"})) \cup {"STAY"})
    BY <2>2, <2>5, FS_Union
  <2>7. (({"N"} \cup {"S"}) \cup ({"E"} \cup {"W"})) \cup {"STAY"} = Direction
    BY DEF Direction
  <2> QED BY <2>6, <2>7
<1>2. LegalMoves(cell, walls) \ {"STAY"} \in SUBSET Direction
  BY DEF LegalMoves
<1>3. IsFiniteSet(LegalMoves(cell, walls) \ {"STAY"})
  BY <1>1, <1>2, FS_Subset
<1> QED BY <1>3, FS_CardinalityType DEF Exits

\* Directions and cells: a step by two directions leads to two cells.
LEMMA DirectionFound ==
  ASSUME NEW at \in Cell, NEW dir \in Direction
  PROVE  DirectionToward(at, Shift(at, dir)) = dir
<1>1. \A d \in Direction : Shift(at, d) = Shift(at, dir) => d = dir
  BY BoardAssumption DEF Shift, Direction, Delta, Cell
<1> HIDE DEF Direction
<1> QED BY <1>1 DEF DirectionToward

-----------------------------------------------------------------------------
(* What each brain decides is legal by its own map.                         *)

StepAllowed(me, decision) ==
  decision.type # "BARRIER" /\ StepLegal(me.at, decision.dir, me.walls)

WallAllowed(me, decision) ==
  LET wall == Shift(me.at, decision.dir)
  IN /\ decision.type = "BARRIER"
     /\ BarrierLegal(me.at, wall, me.walls, me.used)
     /\ wall # me.at

LEMMA PickedIsLegal ==
  ASSUME NEW me, NEW i \in Moves(me.at, me.walls)
  PROVE  /\ MoveSet[i] \in Direction /\ StepLegal(me.at, MoveSet[i], me.walls)
         /\ Shift(me.at, MoveSet[i]) \in Cell
         /\ StepAllowed(me, MoveOrHold(me, MoveSet[i]))
         /\ MoveOrHold(me, MoveSet[i]) = Move(MoveSet[i])
BY BoardAssumption DEF Moves, StepLegal, StepAllowed, MoveOrHold, Move

LEMMA ScoreIsWhole ==
  ASSUME NEW me, NEW threat, NEW cell \in Cell
  PROVE  Score(me, threat, cell) \in Int
<1> DEFINE d == BfsDistance(cell, threat, me.walls)
           r == Cardinality(ReachableCells(cell, me.walls, MobilityK))
           b == IF JailRisk(me, cell) THEN Ban ELSE 0
<1>1. WDist \in Nat /\ WMob \in Nat /\ MobilityK \in Nat
  BY BrainAssumption
<1>2. d \in Nat /\ r \in Nat
  BY <1>1, DistanceInRange, ReachedOnBoard, BoardIsFinite
<1>3. b \in Nat
  <2>1. (WDist + WMob) * Far + 10 \in Nat
    BY <1>1, BoardIsFinite
  <2> QED BY <2>1 DEF Ban
<1>4. Score(me, threat, cell) = WDist * d + WMob * r - b
  BY DEF Score
<1> HIDE DEF d, r, b
<1> QED BY <1>1, <1>2, <1>3, <1>4

\* The survivor flees by one of its best steps.
LEMMA FleeIsBest ==
  ASSUME NEW me \in Side, NEW threat, Moves(me.at, me.walls) # {}
  PROVE  \E i \in Moves(me.at, me.walls) :
           /\ Flee(me, threat) = MoveSet[i]
           /\ \A j \in Moves(me.at, me.walls) :
                Score(me, threat, Shift(me.at, MoveSet[j]))
                  <= Score(me, threat, Shift(me.at, MoveSet[i]))
<1> DEFINE moves == Moves(me.at, me.walls)
           key == [j \in moves |-> Score(me, threat, Shift(me.at, MoveSet[j]))]
<1>1. moves \in SUBSET DOMAIN MoveSet
  BY DEF Moves
<1>2. \A j \in moves : Shift(me.at, MoveSet[j]) \in Cell
  BY PickedIsLegal
<1>3. key \in [moves -> Int]
  BY <1>2, ScoreIsWhole
<1>4. Flee(me, threat) = MoveSet[FirstBest[{<<key[j], j>> : j \in moves}]]
  <2>1. {<<key[j], j>> : j \in moves}
          = {<<Score(me, threat, Shift(me.at, MoveSet[j])), j>> : j \in Moves(me.at, me.walls)}
    OBVIOUS
  <2> QED BY <2>1 DEF Flee, FirstMax
<1> HIDE DEF key
<1>5. PICK i \in moves : /\ i = FirstBest[{<<key[j], j>> : j \in moves}]
                         /\ \A j \in moves : key[j] <= key[i]
  <2>1. moves # {}
    OBVIOUS
  <2> HIDE DEF moves
  <2> QED BY <1>1, <1>3, <2>1, FirstBestIsBest
<1> QED BY <1>4, <1>5 DEF key

LEMMA SurvivorIsLegal ==
  ASSUME InMoveSet("STAY"), NEW me \in Side, me.at \notin me.walls, NEW threat
  PROVE  StepAllowed(me, SurvivorDecides(me, threat))
BY FreeCellHasMoves, FleeIsBest, PickedIsLegal DEF SurvivorDecides, Side

\* A step leads where the direction toward it leads.
LEMMA TowardIsLegal ==
  ASSUME NEW at \in Cell, NEW walls, NEW dir \in LegalMoves(at, walls),
         NEW dest, dest = Shift(at, dir)
  PROVE  /\ DirectionToward(at, dest) = dir /\ dir \in Direction
         /\ StepLegal(at, DirectionToward(at, dest), walls)
BY DirectionFound DEF LegalMoves

LEMMA ManhattanIsWhole ==
  ASSUME NEW a \in Cell, NEW b \in Cell
  PROVE  Manhattan(a, b) \in Nat /\ Manhattan(a, b) <= 2 * GridSize
BY BoardAssumption DEF Cell, Manhattan, Abs

LEMMA GreedyThiefIsLegal ==
  ASSUME InMoveSet("STAY"), NEW me \in Side, me.at \notin me.walls, NEW target \in Cell
  PROVE  StepAllowed(me, GreedyThiefDecides(me, target))
<1> DEFINE moves == Moves(me.at, me.walls)
           Key(dir) == LET cell == Shift(me.at, dir)
                       IN 2 * Manhattan(cell, target) + (IF cell \in me.visited THEN 0 ELSE 1)
           key == [j \in moves |-> Key(MoveSet[j])]
           pick == MoveSet[FirstBest[{<<key[j], j>> : j \in moves}]]
<1>1. moves \in SUBSET DOMAIN MoveSet /\ moves # {}
  BY FreeCellHasMoves DEF Moves, Side
<1>2. \A j \in moves : Shift(me.at, MoveSet[j]) \in Cell
  BY PickedIsLegal
<1>3. key \in [moves -> Int]
  BY <1>2, ManhattanIsWhole
<1>4. {<<key[j], j>> : j \in moves} = {<<Key(MoveSet[j]), j>> : j \in Moves(me.at, me.walls)}
  OBVIOUS
<1>5. GreedyThiefDecides(me, target) = MoveOrHold(me, pick)
  BY <1>4, Zenon DEF GreedyThiefDecides, FirstMax
<1> HIDE DEF key
<1>6. \E i \in moves : pick = MoveSet[i]
  <2> HIDE DEF moves
  <2> QED BY <1>1, <1>3, FirstBestIsBest
<1> QED BY <1>5, <1>6, PickedIsLegal

LEMMA GreedyStepIsLegal ==
  ASSUME InMoveSet("STAY"), NEW me \in Side, me.at \notin me.walls, NEW target \in Cell
  PROVE  \E i \in Moves(me.at, me.walls) : GreedyStep(me, target) = MoveOrHold(me, MoveSet[i])
<1> DEFINE moves == Moves(me.at, me.walls)
           key == [j \in moves |-> -Manhattan(Shift(me.at, MoveSet[j]), target)]
           pick == MoveSet[FirstBest[{<<key[j], j>> : j \in moves}]]
<1>1. moves \in SUBSET DOMAIN MoveSet /\ moves # {}
  BY FreeCellHasMoves DEF Moves, Side
<1>2. \A j \in moves : Shift(me.at, MoveSet[j]) \in Cell
  BY PickedIsLegal
<1>3. key \in [moves -> Int]
  BY <1>2, ManhattanIsWhole
<1>4. {<<key[j], j>> : j \in moves}
        = {<<-Manhattan(Shift(me.at, MoveSet[j]), target), j>> : j \in Moves(me.at, me.walls)}
  OBVIOUS
<1>5. GreedyStep(me, target) = MoveOrHold(me, pick)
  BY <1>4, Zenon DEF GreedyStep, FirstMax
<1> HIDE DEF key
<1>6. \E i \in moves : pick = MoveSet[i]
  <2> HIDE DEF moves
  <2> QED BY <1>1, <1>3, FirstBestIsBest
<1> QED BY <1>5, <1>6

LEMMA GreedyPoliceIsLegal ==
  ASSUME InMoveSet("STAY"), NEW me \in Side, me.at \notin me.walls, NEW target \in Cell, NEW heads
  PROVE  LET decision == GreedyPoliceDecides(me, target, heads)
         IN StepAllowed(me, decision) \/ WallAllowed(me, decision)
<1>1. PICK i \in Moves(me.at, me.walls) : GreedyStep(me, target) = MoveOrHold(me, MoveSet[i])
  BY GreedyStepIsLegal
<1> DEFINE dir == MoveSet[i]
<1>2. /\ dir \in Direction /\ StepLegal(me.at, dir, me.walls)
      /\ GreedyStep(me, target) = Move(dir) /\ StepAllowed(me, Move(dir))
  BY <1>1, PickedIsLegal
<1> HIDE DEF dir
<1>3. CASE TossesCoin(me, target) /\ heads
  <2>1. GreedyPoliceDecides(me, target, heads) = Barrier(dir)
    BY <1>2, <1>3 DEF GreedyPoliceDecides, Move
  <2>2. dir # "STAY" /\ me.used < MaxBarriers
    BY <1>2, <1>3 DEF TossesCoin, Move
  <2>3. dir \in Orthogonal /\ me.at \in Cell
    BY <1>2, <2>2 DEF Orthogonal, Side
  <2>4. Shift(me.at, dir) # me.at
    BY <2>3, BoardAssumption DEF Shift, Orthogonal, Direction, Delta, Cell
  <2>5. Barrier(dir).type = "BARRIER" /\ Barrier(dir).dir = dir
    BY DEF Barrier
  <2>6. WallAllowed(me, Barrier(dir))
    BY <1>2, <2>2, <2>3, <2>4, <2>5 DEF WallAllowed, BarrierLegal, BarrierOptions
  <2> QED BY <2>1, <2>6
<1>4. CASE ~(TossesCoin(me, target) /\ heads)
  <2>1. GreedyPoliceDecides(me, target, heads) = Move(dir)
    BY <1>2, <1>4 DEF GreedyPoliceDecides
  <2> QED BY <1>2, <2>1
<1> QED BY <1>3, <1>4

LEMMA ChaseIsLegal ==
  ASSUME InMoveSet("STAY"), NEW me \in Side, me.at \notin me.walls, NEW target
  PROVE  StepAllowed(me, MoveOrHold(me, Chase(me, target)))
<1> DEFINE moves == Moves(me.at, me.walls)
           Key(dir) == LET cell == Shift(me.at, dir)
                       IN Exits(cell, me.walls) - 5 * BfsDistance(cell, target, me.walls)
           key == [j \in moves |-> Key(MoveSet[j])]
           pick == MoveSet[FirstBest[{<<key[j], j>> : j \in moves}]]
<1>1. moves \in SUBSET DOMAIN MoveSet /\ moves # {}
  BY FreeCellHasMoves DEF Moves, Side
<1>2. \A j \in moves : Shift(me.at, MoveSet[j]) \in Cell
  BY PickedIsLegal
<1>3. key \in [moves -> Int]
  <2> SUFFICES ASSUME NEW j \in moves PROVE Key(MoveSet[j]) \in Int
    OBVIOUS
  <2> DEFINE cell == Shift(me.at, MoveSet[j])
             e == Exits(cell, me.walls)
             d == BfsDistance(cell, target, me.walls)
  <2>1. e \in Nat /\ d \in Nat
    BY <1>2, ExitsAreCounted, DistanceInRange, BoardIsFinite
  <2>2. Key(MoveSet[j]) = e - 5 * d
    OBVIOUS
  <2> HIDE DEF e, d, Key
  <2> QED BY <2>1, <2>2
<1>4. {<<key[j], j>> : j \in moves} = {<<Key(MoveSet[j]), j>> : j \in Moves(me.at, me.walls)}
  OBVIOUS
<1>5. Chase(me, target) = pick
  BY <1>4, Zenon DEF Chase, FirstMax
<1> HIDE DEF key
<1>6. \E i \in moves : pick = MoveSet[i]
  <2> HIDE DEF moves
  <2> QED BY <1>1, <1>3, FirstBestIsBest
<1> QED BY <1>5, <1>6, PickedIsLegal

\* What the cop may wall, it finds the direction of.
LEMMA OptionIsReached ==
  ASSUME NEW at \in Cell, NEW walls, NEW wall \in BarrierOptions(at, walls)
  PROVE  Shift(at, DirectionToward(at, wall)) = wall
<1>1. CASE wall = at
  <2>1. Shift(at, "STAY") = at /\ "STAY" \in Direction
    BY BoardAssumption DEF Shift, Delta, Cell, Direction
  <2> QED BY <1>1, <2>1, DirectionFound
<1>2. CASE wall # at
  <2>1. PICK d \in Orthogonal : wall = Shift(at, d)
    BY <1>2 DEF BarrierOptions
  <2>2. d \in Direction
    BY DEF Orthogonal
  <2> QED BY <2>1, <2>2, DirectionFound
<1> QED BY <1>1, <1>2

LEMMA OptionIsAllowed ==
  ASSUME NEW me \in Side, NEW wall \in BarrierOptions(me.at, me.walls),
         me.used < MaxBarriers, wall # me.at
  PROVE  WallAllowed(me, Barrier(DirectionToward(me.at, wall)))
BY OptionIsReached DEF WallAllowed, BarrierLegal, Barrier, Side

\* A lane is a wallable cell that does not lengthen the cop's own way.
LEMMA LaneIsSafe ==
  ASSUME NEW pos, NEW target, NEW walls, NEW options, NEW c \in TempoLane(pos, target, walls, options)
  PROVE  c \in options /\ c # pos /\ c # target /\ ~SelfHarming(pos, target, walls, c)
BY DEF TempoLane

\* The three ways the interceptor decides.
LEMMA InterceptorChooses ==
  ASSUME InMoveSet("STAY"), NEW me \in Side, me.at \notin me.walls, NEW target \in Cell,
         target # me.at, NEW p
  PROVE  LET decision == InterceptorDecides(me, target, p)
             options == BarrierOptions(me.at, me.walls)
         IN \/ StepAllowed(me, decision)
            \/ \E wall \in options :
                 /\ me.used < MaxBarriers /\ wall # me.at
                 /\ decision = Barrier(DirectionToward(me.at, wall))
                 /\ wall = target \/ ~SelfHarming(me.at, target, me.walls, wall)
<1> DEFINE options == BarrierOptions(me.at, me.walls)
           sure == p >= FinisherP
           landing == {dir \in LegalMoves(me.at, me.walls) \ {"STAY"} : Shift(me.at, dir) = target}
           charged == me.used < MaxBarriers
           lane == TempoLane(me.at, target, me.walls, options)
           decision == InterceptorDecides(me, target, p)
<1>1. CASE sure /\ landing # {}
  <2>1. decision = Move(Some(landing))
    BY <1>1 DEF InterceptorDecides
  <2>2. Some(landing) \in landing
    BY <1>1 DEF Some
  <2> QED BY <2>1, <2>2 DEF StepAllowed, Move, LegalMoves
<1>2. CASE sure /\ landing = {} /\ charged /\ target \in options
  <2>1. decision = Barrier(DirectionToward(me.at, target))
    BY <1>2 DEF InterceptorDecides
  <2> QED BY <1>2, <2>1
<1>3. CASE charged /\ lane # {} /\ ~(sure /\ (landing # {} \/ target \in options))
  <2>1. decision = Barrier(DirectionToward(me.at, Some(lane)))
    BY <1>3 DEF InterceptorDecides
  <2>2. Some(lane) \in lane
    BY <1>3 DEF Some
  <2> QED BY <1>3, <2>1, <2>2, LaneIsSafe
<1>4. CASE ~(sure /\ landing # {})
           /\ ~(sure /\ landing = {} /\ charged /\ target \in options)
           /\ ~(charged /\ lane # {} /\ ~(sure /\ (landing # {} \/ target \in options)))
  <2>1. decision = MoveOrHold(me, Chase(me, target))
    BY <1>4 DEF InterceptorDecides
  <2> QED BY <2>1, ChaseIsLegal
<1> QED BY <1>1, <1>2, <1>3, <1>4

LEMMA RankIsWhole ==
  ASSUME NEW cell \in Cell
  PROVE  Rank(cell) \in Int
BY BoardAssumption DEF Cell, Rank

LEMMA LureIsSafe ==
  ASSUME NEW safe \in SUBSET (Nat \X Cell), IsFiniteSet(safe), safe # {},
         NEW me, NEW threat, DecoySteps(me, threat) = safe
  PROVE  Some(Decoy(me, threat)) \in {s[2] : s \in safe}
<1> DEFINE corridor == (CHOOSE s \in safe : \A t \in safe :
                          s[1] > t[1] \/ (s[1] = t[1] /\ Rank(s[2]) >= Rank(t[2])))[2]
           lured == {s \in safe : \A t \in safe :
                       \/ Manhattan(s[2], corridor) > Manhattan(t[2], corridor)
                       \/ /\ Manhattan(s[2], corridor) = Manhattan(t[2], corridor)
                          /\ Rank(s[2]) >= Rank(t[2])}
           rank == [s \in safe |-> Rank(s[2])]
           far == [s \in safe |-> s[1]]
           away == [s \in safe |-> Manhattan(s[2], corridor)]
<1>1. \A s \in safe : s[1] \in Nat /\ s[2] \in Cell
  OBVIOUS
<1>2. rank \in [safe -> Int] /\ far \in [safe -> Int]
  BY <1>1, RankIsWhole
<1>3. \E m \in safe : \A t \in safe :
         far[m] > far[t] \/ (far[m] = far[t] /\ rank[m] >= rank[t])
  <2>1. far \in [safe -> Int]
    BY <1>2
  <2>2. rank \in [safe -> Int]
    BY <1>2
  <2> HIDE DEF far, rank, corridor, lured, away
  <2> QED BY <2>1, <2>2, BestOfTwo
<1>4. \E s \in safe : \A t \in safe :
         s[1] > t[1] \/ (s[1] = t[1] /\ Rank(s[2]) >= Rank(t[2]))
  BY <1>3
<1>5. corridor \in Cell
  BY <1>1, <1>4
<1> HIDE DEF corridor
<1>6. away \in [safe -> Int]
  BY <1>1, <1>5, ManhattanIsWhole
<1>7. \E m \in safe : \A t \in safe :
         away[m] > away[t] \/ (away[m] = away[t] /\ rank[m] >= rank[t])
  <2> HIDE DEF away, rank
  <2> QED BY <1>2, <1>6, BestOfTwo
<1>8. lured # {}
  BY <1>7
<1>9. Decoy(me, threat) = {s[2] : s \in lured}
  BY Zenon DEF Decoy, corridor
<1> QED BY <1>8, <1>9 DEF Some

LEMMA DecoyIsLegal ==
  ASSUME InMoveSet("STAY"), NEW me \in Side, me.at \notin me.walls, NEW threat
  PROVE  StepAllowed(me, DecoyDecides(me, threat))
<1> DEFINE safe == DecoySteps(me, threat)
           steps == {Shift(me.at, d) : d \in LegalMoves(me.at, me.walls) \ {"STAY"}}
<1>1. CASE safe = {}
  BY <1>1, SurvivorIsLegal DEF DecoyDecides
<1>2. CASE safe # {}
  <2>1. steps \subseteq Cell
    BY DEF LegalMoves, StepLegal
  <2>2. \A c \in steps : BfsDistance(c, threat, me.walls) \in 0 .. Far
    BY <2>1, DistanceInRange
  <2>3. safe \subseteq {<<BfsDistance(c, threat, me.walls), c>> : c \in steps}
    BY DEF DecoySteps
  <2>4. safe \in SUBSET ((0 .. Far) \X Cell)
    BY <2>1, <2>2, <2>3
  <2>5. IsFiniteSet((0 .. Far) \X Cell)
    <3>1. IsFiniteSet(0 .. Far)
      BY BoardIsFinite, FS_Interval
    <3> QED BY <3>1, BoardIsFinite, FS_Product
  <2>6. IsFiniteSet(safe) /\ safe \in SUBSET (Nat \X Cell)
    <3>1. IsFiniteSet(safe)
      BY <2>4, <2>5, FS_Subset
    <3> QED BY <2>4, <3>1, BoardIsFinite
  <2> HIDE DEF safe
  <2>7. Some(Decoy(me, threat)) \in {s[2] : s \in safe}
    BY <1>2, <2>6, LureIsSafe DEF safe
  <2>8. Some(Decoy(me, threat)) \in steps
    BY <2>3, <2>7
  <2>9. PICK d \in LegalMoves(me.at, me.walls) : Some(Decoy(me, threat)) = Shift(me.at, d)
    BY <2>8
  <2>10. StepLegal(me.at, DirectionToward(me.at, Some(Decoy(me, threat))), me.walls)
    BY <2>9, TowardIsLegal DEF Side
  <2> QED BY <1>2, <2>10 DEF DecoyDecides, safe, StepAllowed, Move
<1> QED BY <1>1, <1>2

-----------------------------------------------------------------------------
(* The three promises of the brains.                                        *)

\* Who plays, from where, and what the two own states are made of.
Seated ==
  /\ start \in Starts /\ spec \in Matches /\ lead \in Agent
  /\ own \in [Role -> Side]
  /\ counter \in Nat

LEMMA FreshIsSeated ==
  ASSUME start \in Starts
  PROVE  /\ FreshOwn \in [Role -> Side]
         /\ \A r \in Role : FreshOwn[r].at = start[r] /\ FreshOwn[r].walls = {}
         /\ start["police"] \in Cell /\ start["thief"] \in Cell
         /\ start["police"] # start["thief"]
BY LabAssumption DEF FreshOwn, FreshSide, Side, Role

LEMMA SeatedInit == Init => Seated
BY FreshIsSeated DEF Init, Seated, Agent

LEMMA SeatedStep == Seated /\ [Next]_vars => Seated'
<1> SUFFICES ASSUME Seated, [Next]_vars PROVE Seated'
  OBVIOUS
<1>0. "police" \in Role /\ "thief" \in Role
  BY DEF Role
<1>1. CASE ThiefTurn
  <2>1. start' = start /\ spec' = spec /\ lead' = lead /\ counter' \in {counter, counter + 1}
    BY <1>1 DEF ThiefTurn, match, RecordValidMove, RecordNothing
  <2>2. own' \in [Role -> Side]
    <3> DEFINE dir == Decides("thief").dir
    <3>1. (StepOk("thief", dir) /\ Stepped("thief", dir)) \/ Raises
      BY <1>1 DEF ThiefTurn
    <3> HIDE DEF dir
    <3> QED BY <1>0, <3>1, SteppedAt DEF Seated, Raises
  <2> QED BY <2>1, <2>2 DEF Seated
<1>2. CASE CopTurn
  <2>1. start' = start /\ spec' = spec /\ lead' = lead /\ counter' = counter
    BY <1>2 DEF CopTurn, match, RecordNothing
  <2>2. own' \in [Role -> Side]
    <3> DEFINE decision == Decides("police")
               wall == WallOf("police", decision)
    <3>1. \/ Walled(wall) /\ BarrierLegal(own["police"].at, wall, own["police"].walls,
                                          own["police"].used)
          \/ StepOk("police", decision.dir) /\ Landed(decision.dir)
          \/ Raises
      BY <1>2 DEF CopTurn
    <3> HIDE DEF decision, wall
    <3> QED BY <1>0, <3>1, SteppedAt, WalledAt DEF Seated, Landed, Raises
  <2> QED BY <2>1, <2>2 DEF Seated
<1>3. CASE NextGame
  <2>1. start' = start /\ spec' = spec
    BY <1>3 DEF NextGame
  <2>2. CASE Len(rows') < 2 * Pairs
    <3>1. own' = FreshOwn /\ counter' = 0 /\ lead' = OtherAgent(lead)
      BY <1>3, <2>2 DEF NextGame
    <3> QED BY <2>1, <3>1, FreshIsSeated DEF Seated, OtherAgent, Agent
  <2>3. CASE ~(Len(rows') < 2 * Pairs)
    BY <1>3, <2>1, <2>3 DEF NextGame, Seated
  <2> QED BY <2>2, <2>3
<1>4. CASE UNCHANGED vars
  BY <1>4 DEF Seated, vars, world, match
<1> QED BY <1>1, <1>2, <1>3, <1>4 DEF Next

-----------------------------------------------------------------------------
(* The survivor and the pockets.                                            *)

\* The ban outweighs any score.
LEMMA BanDecides ==
  ASSUME NEW me, NEW threat, NEW cell \in Cell
  PROVE  /\ JailRisk(me, cell) => Score(me, threat, cell) < 0
         /\ ~JailRisk(me, cell) => Score(me, threat, cell) >= 0
<1> DEFINE d == BfsDistance(cell, threat, me.walls)
           r == Cardinality(ReachableCells(cell, me.walls, MobilityK))
<1>1. WDist \in Nat /\ WMob \in Nat /\ MobilityK \in Nat /\ Far \in Nat
  BY BrainAssumption, BoardIsFinite
<1>2. d \in 0 .. Far /\ r \in 0 .. Far
  BY <1>1, DistanceInRange, ReachedOnBoard
<1>3. Score(me, threat, cell) = WDist * d + WMob * r - (IF JailRisk(me, cell) THEN Ban ELSE 0)
  BY DEF Score
<1> HIDE DEF d, r
<1>4. WDist * d <= WDist * Far /\ WDist * d \in Nat /\ WDist * Far \in Nat
  BY <1>1, <1>2
<1>5. WMob * r <= WMob * Far /\ WMob * r \in Nat /\ WMob * Far \in Nat
  BY <1>1, <1>2
<1>6. (WDist + WMob) * Far = WDist * Far + WMob * Far
  BY <1>1
<1>7. CASE JailRisk(me, cell)
  <2>1. Score(me, threat, cell) = WDist * d + WMob * r - Ban
    BY <1>3, <1>7
  <2> QED BY <1>4, <1>5, <1>6, <1>7, <2>1 DEF Ban
<1>8. CASE ~JailRisk(me, cell)
  <2>1. Score(me, threat, cell) = WDist * d + WMob * r - 0
    BY <1>3, <1>8
  <2> QED BY <1>4, <1>5, <1>8, <2>1
<1> QED BY <1>7, <1>8

LEMMA SurvivorAvoids ==
  ASSUME NEW me \in Side, NEW threat, SafeSteps(me) # {}
  PROVE  ~JailRisk(me, Shift(me.at, SurvivorDecides(me, threat).dir))
<1>1. PICK dir \in SafeSteps(me) : TRUE
  OBVIOUS
<1>2. StepLegal(me.at, dir, me.walls) /\ ~JailRisk(me, Shift(me.at, dir))
  BY DEF SafeSteps, LegalMoves
<1>3. PICK j \in DOMAIN MoveSet : MoveSet[j] = dir
  BY <1>2 DEF StepLegal, InMoveSet
<1>4. j \in Moves(me.at, me.walls)
  BY <1>2, <1>3 DEF Moves
<1>5. PICK i \in Moves(me.at, me.walls) :
        /\ Flee(me, threat) = MoveSet[i]
        /\ \A k \in Moves(me.at, me.walls) :
             Score(me, threat, Shift(me.at, MoveSet[k]))
               <= Score(me, threat, Shift(me.at, MoveSet[i]))
  BY <1>4, FleeIsBest
<1>6. /\ Shift(me.at, MoveSet[i]) \in Cell /\ Shift(me.at, dir) \in Cell
      /\ SurvivorDecides(me, threat) = Move(MoveSet[i])
  BY <1>2, <1>5, PickedIsLegal DEF StepLegal, SurvivorDecides
<1>7. Score(me, threat, Shift(me.at, dir)) <= Score(me, threat, Shift(me.at, MoveSet[i]))
  BY <1>3, <1>4, <1>5
<1>8. Score(me, threat, Shift(me.at, dir)) >= 0
  BY <1>2, <1>6, BanDecides
<1>9. /\ Score(me, threat, Shift(me.at, dir)) \in Int
      /\ Score(me, threat, Shift(me.at, MoveSet[i])) \in Int
  BY <1>6, ScoreIsWhole
<1>10. ~JailRisk(me, Shift(me.at, MoveSet[i]))
  BY <1>6, <1>7, <1>8, <1>9, BanDecides
<1> QED BY <1>6, <1>10 DEF Move

\* While the cop has walls left, a survivor never steps into a pocket one wall
\* could seal if another step avoids it: on every board, by every decay and
\* either dialect, and however wrong its belief is.
THEOREM PocketsAreAvoided == Spec => AvoidsPockets
<1> DEFINE Avoids ==
      counter' = counter + 1
      /\ spec[OtherAgent(lead)]["thief"] = "survivor"
      /\ SafeSteps(own["thief"]) # {} =>
        ~JailRisk(own["thief"], own'["thief"].at)
<1>1. ASSUME Seated, [Next]_vars PROVE [Avoids]_vars
  <2> SUFFICES ASSUME counter' = counter + 1, Next,
                      spec[OtherAgent(lead)]["thief"] = "survivor",
                      SafeSteps(own["thief"]) # {}
               PROVE  ~JailRisk(own["thief"], own'["thief"].at)
    BY <1>1
  <2>1. ThiefTurn
    <3>1. counter \in Nat
      BY <1>1 DEF Seated
    <3> QED BY <3>1 DEF Next, CopTurn, NextGame, RecordNothing, vars, world
  <2> DEFINE dir == Decides("thief").dir
  <2>2. StepOk("thief", dir) /\ Stepped("thief", dir)
    <3>1. counter \in Nat
      BY <1>1 DEF Seated
    <3> QED BY <2>1, <3>1 DEF ThiefTurn, RecordNothing
  <2>3. own'["thief"].at = Shift(own["thief"].at, dir)
    <3>1. own \in [Role -> Side] /\ "thief" \in Role
      BY <1>1 DEF Seated, Role
    <3>2. own["thief"] \in Side
      BY <3>1
    <3> HIDE DEF dir
    <3> QED BY <2>2, <3>1, <3>2 DEF Stepped, Side
  <2>4. dir = SurvivorDecides(own["thief"], mode'["thief"]).dir
    <3>1. BrainOf("thief") = "survivor"
      BY DEF BrainOf
    <3> QED BY <3>1 DEF Decides, View
  <2>5. own["thief"] \in Side
    BY <1>1 DEF Seated, Role
  <2> HIDE DEF dir
  <2> QED BY <2>3, <2>4, <2>5, SurvivorAvoids
<1>2. [][Next]_vars /\ []Seated => [][Avoids]_vars
  BY <1>1, PTL
<1>3. Spec => []Seated
  BY SeatedInit, SeatedStep, PTL DEF Spec
<1>4. Spec => [][Avoids]_vars
  BY <1>2, <1>3, PTL DEF Spec
<1> QED BY <1>4 DEF AvoidsPockets

-----------------------------------------------------------------------------
(* The cop's own route.                                                     *)

LEMMA CopIsInformed ==
  ASSUME Fading, LabInv, CopTurn, law = "reference"
  PROVE  mode'["police"] = own["thief"].at
<1>1. LabType /\ (\A r \in Role : Honest(r)) /\ Informed
  BY DEF LabInv
<1>2. Observe("police") /\ toMove = "police" /\ outcome = Playing
  BY DEF CopTurn
<1>3. Opponent("police") = "thief" /\ "police" \in Role /\ "thief" \in Role
  BY DEF Opponent, Role
<1> QED BY <1>1, <1>2, <1>3, ScentAssumption, Observed DEF Informed

LEMMA ThiefIsInformed ==
  ASSUME Fading, LabInv, ThiefTurn, law = "reference"
  PROVE  mode'["thief"] = own["police"].at
<1>1. LabType /\ (\A r \in Role : Honest(r)) /\ Informed
  BY DEF LabInv
<1>2. Observe("thief") /\ outcome = Playing
  BY DEF ThiefTurn
<1>3. Opponent("thief") = "police" /\ "police" \in Role /\ "thief" \in Role
  BY DEF Opponent, Role
<1> QED BY <1>1, <1>2, <1>3, ScentAssumption, Observed DEF Informed

\* The two stand on free cells of the one map, apart, while the game goes on.
Apart ==
  outcome = Playing =>
    /\ own["thief"].walls = own["police"].walls
    /\ \A r \in Role : own[r].at \notin own[r].walls
    /\ own["police"].at # own["thief"].at

PlayInv == law = "reference" => Apart /\ outcome # Raised

\* What a brain decides, by name.
LEMMA CopDecides ==
  ASSUME Seated, InMoveSet("STAY"), PlayInv, outcome = Playing, law = "reference",
         mode'["police"] = own["thief"].at
  PROVE  LET decision == Decides("police")
             me == own["police"]
         IN \/ StepAllowed(me, decision)
            \/ /\ WallAllowed(me, decision)
               /\ spec[lead]["police"] = "interceptor" =>
                    LET wall == WallOf("police", decision)
                    IN wall = own["thief"].at
                         \/ ~SelfHarming(me.at, own["thief"].at, me.walls, wall)
<1> DEFINE me == own["police"]
           target == own["thief"].at
           decision == Decides("police")
<1>1. /\ me \in Side /\ target \in Cell /\ me.at \in Cell
      /\ me.at \notin me.walls /\ target # me.at
  BY DEF Seated, Side, PlayInv, Apart, Role
<1>2. BrainOf("police") = spec[lead]["police"] /\ spec[lead] \in LineUp
  BY LabAssumption DEF Seated, BrainOf
<1>3. CASE spec[lead]["police"] = "interceptor"
  <2>1. decision = InterceptorDecides(me, target, conf'["police"])
    BY <1>2, <1>3 DEF Decides, View
  <2>2. \/ StepAllowed(me, decision)
        \/ \E wall \in BarrierOptions(me.at, me.walls) :
             /\ me.used < MaxBarriers /\ wall # me.at
             /\ decision = Barrier(DirectionToward(me.at, wall))
             /\ wall = target \/ ~SelfHarming(me.at, target, me.walls, wall)
    <3> HIDE DEF me, target, decision
    <3> QED BY <1>1, <2>1, InterceptorChooses
  <2>3. ASSUME NEW wall \in BarrierOptions(me.at, me.walls),
               me.used < MaxBarriers, wall # me.at,
               decision = Barrier(DirectionToward(me.at, wall))
        PROVE  WallAllowed(me, decision) /\ WallOf("police", decision) = wall
    <3>1. WallAllowed(me, decision)
      <4> HIDE DEF me, decision
      <4> QED BY <1>1, <2>3, OptionIsAllowed
    <3>2. decision.dir = DirectionToward(me.at, wall)
      <4> HIDE DEF decision
      <4> QED BY <2>3 DEF Barrier
    <3>3. Shift(me.at, DirectionToward(me.at, wall)) = wall
      <4> HIDE DEF me
      <4> QED BY <1>1, OptionIsReached
    <3> HIDE DEF decision
    <3> QED BY <3>1, <3>2, <3>3 DEF WallOf
  <2> HIDE DEF me, target, decision
  <2>4. ASSUME ~StepAllowed(me, decision)
        PROVE  /\ WallAllowed(me, decision)
               /\ WallOf("police", decision) = target
                    \/ ~SelfHarming(me.at, target, me.walls, WallOf("police", decision))
    <3>1. PICK wall \in BarrierOptions(me.at, me.walls) :
             /\ me.used < MaxBarriers /\ wall # me.at
             /\ decision = Barrier(DirectionToward(me.at, wall))
             /\ wall = target \/ ~SelfHarming(me.at, target, me.walls, wall)
      BY <2>2, <2>4
    <3> QED BY <2>3, <3>1
  <2> QED BY <2>4 DEF me, target, decision
<1>4. CASE spec[lead]["police"] # "interceptor"
  <2>1. spec[lead]["police"] = "greedy cop"
    BY <1>2, <1>4 DEF LineUp
  <2>2. decision = GreedyPoliceDecides(me, target, luck[copSteps + 1])
    BY <1>2, <2>1 DEF Decides, View
  <2>3. StepAllowed(me, decision) \/ WallAllowed(me, decision)
    <3> HIDE DEF me, target, decision
    <3> QED BY <1>1, <2>2, GreedyPoliceIsLegal
  <2> QED BY <1>4, <2>3
<1> QED BY <1>3, <1>4

LEMMA ThiefDecides ==
  ASSUME Seated, InMoveSet("STAY"), PlayInv, outcome = Playing, law = "reference",
         mode'["thief"] = own["police"].at
  PROVE  StepAllowed(own["thief"], Decides("thief"))
<1> DEFINE me == own["thief"]
           target == own["police"].at
           decision == Decides("thief")
<1>1. /\ me \in Side /\ target \in Cell /\ me.at \notin me.walls
  BY DEF Seated, Side, PlayInv, Apart, Role
<1>2. /\ BrainOf("thief") = spec[OtherAgent(lead)]["thief"]
      /\ spec[OtherAgent(lead)] \in LineUp
  BY LabAssumption DEF Seated, BrainOf, OtherAgent, Agent
<1>3. \/ decision = SurvivorDecides(me, target)
      \/ decision = DecoyDecides(me, target)
      \/ decision = GreedyThiefDecides(me, target)
  <2>1. BrainOf("thief") \in {"survivor", "decoy", "greedy"}
    BY <1>2 DEF LineUp
  <2> QED BY <2>1 DEF Decides, View
<1> HIDE DEF me, target, decision
<1>4. StepAllowed(me, decision)
  BY <1>1, <1>3, SurvivorIsLegal, DecoyIsLegal, GreedyThiefIsLegal
<1> QED BY <1>4 DEF me, decision

LEMMA FreshIsApart ==
  ASSUME start \in Starts
  PROVE  /\ FreshOwn["thief"].walls = FreshOwn["police"].walls
         /\ \A r \in Role : FreshOwn[r].at \notin FreshOwn[r].walls
         /\ FreshOwn["police"].at # FreshOwn["thief"].at
BY FreshIsSeated DEF Role

LEMMA PlayInit == Init => PlayInv
BY FreshIsApart DEF Init, PlayInv, Apart, Playing, Raised

LEMMA ThiefPlays ==
  ASSUME Fading, InMoveSet("STAY"), Seated, LabInv, PlayInv, law = "reference", ThiefTurn
  PROVE  PlayInv'
<1>1. outcome = Playing /\ law' = law
  BY DEF ThiefTurn, match
<1>2. StepAllowed(own["thief"], Decides("thief"))
  BY <1>1, ThiefDecides, ThiefIsInformed
<1> DEFINE dir == Decides("thief").dir
<1>3. StepOk("thief", dir)
  BY <1>2 DEF StepAllowed, StepOk
<1>4. /\ Stepped("thief", dir)
      /\ outcome' = ThiefVerdict(own'["thief"].at, counter + 1)
  BY <1>3 DEF ThiefTurn
<1> HIDE DEF dir
<1>5. /\ own["thief"] \in Side /\ own["police"] \in Side
      /\ own \in [Role -> Side] /\ "thief" \in Role /\ "police" \in Role
  BY DEF Seated, Role
<1>6. /\ own'["police"] = own["police"]
      /\ own'["thief"].walls = own["thief"].walls
      /\ own'["thief"].at = Shift(own["thief"].at, dir)
  BY <1>4, <1>5 DEF Stepped, Side
<1>7. own'["thief"].at \notin own'["thief"].walls
  BY <1>3, <1>6 DEF StepOk, StepLegal
<1>8. outcome' # Raised
  BY <1>4 DEF ThiefVerdict, Capture, Survival, Playing, Raised
<1>9. outcome' = Playing => own'["police"].at # own'["thief"].at
  BY <1>4, <1>6 DEF ThiefVerdict, CaptureByLanding, Capture, Playing
<1>10. Apart'
  BY <1>1, <1>6, <1>7, <1>9 DEF PlayInv, Apart, Role
<1> QED BY <1>8, <1>10 DEF PlayInv

LEMMA WalledSides ==
  ASSUME own \in [Role -> Side], NEW wall, Built(wall)
  PROVE  \A r \in Role : own'[r].at = own[r].at /\ own'[r].walls = own[r].walls \cup {wall}
<1> SUFFICES ASSUME NEW r \in Role
             PROVE  own'[r].at = own[r].at /\ own'[r].walls = own[r].walls \cup {wall}
  OBVIOUS
<1>1. own[r] \in Side
  OBVIOUS
<1> DEFINE n == IF r = "police" THEN own[r].used + 1 ELSE own[r].used
<1>2. own'[r] = [own[r] EXCEPT !.walls = @ \cup {wall}, !.used = n]
  BY DEF Built
<1> HIDE DEF n
<1> QED BY <1>1, <1>2 DEF Side

LEMMA CopPlays ==
  ASSUME Fading, InMoveSet("STAY"), Seated, LabInv, PlayInv, law = "reference", CopTurn
  PROVE  PlayInv'
<1>1. outcome = Playing /\ law' = law
  BY DEF CopTurn, match
<1> DEFINE decision == Decides("police")
           wall == WallOf("police", decision)
           me == own["police"]
<1>2. StepAllowed(me, decision) \/ WallAllowed(me, decision)
  BY <1>1, CopDecides, CopIsInformed
<1>3. \/ StepOk("police", decision.dir) /\ Landed(decision.dir)
      \/ wall # me.at /\ Walled(wall)
  BY <1>2 DEF CopTurn, StepAllowed, WallAllowed, StepOk, WallOf
<1> HIDE DEF decision, wall
<1>4. /\ own["thief"] \in Side /\ own["police"] \in Side
      /\ own \in [Role -> Side] /\ "thief" \in Role /\ "police" \in Role
  BY DEF Seated, Role
<1>5. /\ own["thief"].walls = own["police"].walls
      /\ own["thief"].at \notin own["thief"].walls /\ me.at \notin me.walls
      /\ me.at # own["thief"].at
  BY <1>1, <1>4 DEF PlayInv, Apart
<1>6. CASE StepOk("police", decision.dir) /\ Landed(decision.dir)
  <2>1. /\ own'["thief"] = own["thief"]
        /\ own'["police"].walls = own["police"].walls
        /\ own'["police"].at = Shift(own["police"].at, decision.dir)
    BY <1>4, <1>6 DEF Landed, Stepped, Side
  <2>2. own'["police"].at \notin own'["police"].walls
    BY <1>6, <2>1 DEF StepOk, StepLegal
  <2>3. outcome' # Raised /\ (outcome' = Playing => own'["police"].at # own'["thief"].at)
    BY <1>6, <2>1 DEF Landed, CaptureByLanding, Capture, Playing, Raised
  <2> QED BY <1>5, <2>1, <2>2, <2>3 DEF PlayInv, Apart, Role
<1>7. CASE wall # me.at /\ Walled(wall)
  <2>1. \A r \in Role : own'[r].at = own[r].at /\ own'[r].walls = own[r].walls \cup {wall}
    BY <1>4, <1>7, WalledSides DEF Walled
  <2>2. outcome' # Raised /\ (outcome' = Playing => wall # own["thief"].at)
    BY <1>7 DEF Walled, CaptureByBarrier, Capture, Playing, Raised
  <2> QED BY <1>4, <1>5, <1>7, <2>1, <2>2 DEF PlayInv, Apart, Role
<1> QED BY <1>3, <1>6, <1>7

LEMMA GamePlays ==
  ASSUME Seated, PlayInv, law = "reference", NextGame
  PROVE  PlayInv'
<1>1. law' = law /\ outcome.result \in {"capture", "survival"}
  BY DEF NextGame
<1>2. CASE Len(rows') < 2 * Pairs
  <2>1. own' = FreshOwn /\ outcome' = Playing
    BY <1>2 DEF NextGame
  <2> QED BY <2>1, FreshIsApart DEF Seated, PlayInv, Apart, Playing, Raised
<1>3. CASE ~(Len(rows') < 2 * Pairs)
  <2>1. outcome' = [outcome EXCEPT !.result = "over"]
    BY <1>3 DEF NextGame
  <2>2. ASSUME outcome' \in {Playing, Raised} PROVE FALSE
    <3>1. "result" \in DOMAIN outcome' /\ outcome'.result # "over"
      BY <2>2 DEF Playing, Raised
    <3>2. DOMAIN outcome = DOMAIN outcome'
      BY <2>1
    <3> QED BY <2>1, <3>1, <3>2
  <2> QED BY <2>2 DEF PlayInv, Apart
<1> QED BY <1>2, <1>3

LEMMA PlayStep ==
  ASSUME Fading, InMoveSet("STAY"), Seated, LabInv, PlayInv, [Next]_vars
  PROVE  PlayInv'
<1>1. law' = law
  BY DEF Next, ThiefTurn, CopTurn, NextGame, match, vars
<1>2. CASE law # "reference"
  BY <1>1, <1>2 DEF PlayInv
<1>3. CASE law = "reference"
  <2>1. CASE UNCHANGED vars
    BY <2>1 DEF PlayInv, Apart, vars, world, match
  <2> QED BY <1>3, <2>1, ThiefPlays, CopPlays, GamePlays DEF Next
<1> QED BY <1>2, <1>3

LEMMA PlayInvariant ==
  ASSUME Fading, InMoveSet("STAY")
  PROVE  Spec => [](Seated /\ LabInv /\ PlayInv)
<1>1. Init => Seated /\ LabInv /\ PlayInv
  BY SeatedInit, InitEstablishes, PlayInit
<1>2. (Seated /\ LabInv /\ PlayInv) /\ [Next]_vars => (Seated /\ LabInv /\ PlayInv)'
  BY SeatedStep, NextKeeps, PlayStep
<1> QED BY <1>1, <1>2, PTL DEF Spec

\* Under the subtractive dialect and where one may stay, no brain ever decides
\* what the referee refuses: each of the five, whatever it meets.
THEOREM NoReferenceGameRaises ==
  ASSUME Fading, InMoveSet("STAY")
  PROVE  Spec => [](law = "reference" => NoGameRaises)
<1>1. PlayInv => (law = "reference" => NoGameRaises)
  BY DEF PlayInv, NoGameRaises
<1> QED BY <1>1, PlayInvariant, PTL

\* An interceptor's wall never lengthens or severs its own way to the thief,
\* unless it ends the game, on any board and with any quota.
THEOREM RouteIsKept ==
  ASSUME Fading, InMoveSet("STAY")
  PROVE  Spec => KeepsRoute
<1> DEFINE Keeps ==
      own'["police"].walls # own["police"].walls
      /\ outcome = Playing /\ outcome' = Playing /\ law = "reference"
      /\ spec[lead]["police"] = "interceptor" =>
        BfsDistance(own["police"].at, own["thief"].at, own'["police"].walls)
          <= BfsDistance(own["police"].at, own["thief"].at, own["police"].walls)
<1>1. ASSUME Seated, LabInv, PlayInv, [Next]_vars PROVE [Keeps]_vars
  <2> SUFFICES ASSUME own'["police"].walls # own["police"].walls, Next,
                      outcome = Playing, outcome' = Playing, law = "reference",
                      spec[lead]["police"] = "interceptor"
               PROVE  BfsDistance(own["police"].at, own["thief"].at, own'["police"].walls)
                 <= BfsDistance(own["police"].at, own["thief"].at, own["police"].walls)
    BY <1>1
  <2>1. /\ own["thief"] \in Side /\ own["police"] \in Side
        /\ own \in [Role -> Side] /\ "thief" \in Role /\ "police" \in Role
    BY <1>1 DEF Seated, Role
  <2>2. CopTurn
    <3>1. ~ThiefTurn
      BY <2>1 DEF ThiefTurn, Stepped, Raises
    <3>2. ~NextGame
      BY DEF NextGame, Playing
    <3> QED BY <3>1, <3>2 DEF Next, vars, world
  <2> DEFINE decision == Decides("police")
             wall == WallOf("police", decision)
             me == own["police"]
             target == own["thief"].at
  <2>3. \/ StepAllowed(me, decision)
        \/ /\ WallAllowed(me, decision)
           /\ wall = target \/ ~SelfHarming(me.at, target, me.walls, wall)
    BY <1>1, <2>2, CopDecides, CopIsInformed
  <2>4. ~StepAllowed(me, decision)
    <3> SUFFICES ASSUME StepAllowed(me, decision) PROVE FALSE
      OBVIOUS
    <3>1. Landed(decision.dir)
      BY <2>2 DEF CopTurn, StepAllowed, StepOk
    <3> HIDE DEF decision
    <3> QED BY <2>1, <3>1 DEF Landed, Stepped, Side
  <2>5. Walled(wall)
    BY <2>2, <2>3, <2>4 DEF CopTurn, WallAllowed, WallOf
  <2> HIDE DEF decision, wall
  <2>6. own'["police"].walls = me.walls \cup {wall}
    BY <2>1, <2>5, WalledSides DEF Walled
  <2>7. wall # target
    BY <2>5 DEF Walled, CaptureByBarrier, Capture, Playing
  <2>8. ~SelfHarming(me.at, target, me.walls, wall)
    BY <2>3, <2>4, <2>7
  <2>9. me.at \in Cell
    BY <2>1 DEF Side
  <2>10. /\ BfsDistance(me.at, target, me.walls) \in 0 .. Far
         /\ BfsDistance(me.at, target, me.walls \cup {wall}) \in 0 .. Far
    BY <2>9, DistanceInRange
  <2> QED BY <2>6, <2>8, <2>10, BoardIsFinite DEF SelfHarming
<1>2. [](Seated /\ LabInv /\ PlayInv) /\ [][Next]_vars => [][Keeps]_vars
  BY <1>1, PTL
<1>3. Spec => [][Keeps]_vars
  BY <1>2, PlayInvariant, PTL DEF Spec
<1> QED BY <1>3 DEF KeepsRoute

-----------------------------------------------------------------------------
(* What BeliefV2 makes of an honest stream.                                 *)

\* Of whole numbers a sum is one, and of zeros it is zero.
LEMMA SumIsWhole ==
  ASSUME NEW D, IsFiniteSet(D), NEW value \in [D -> Nat]
  PROVE  /\ SumOf(value) \in Nat
         /\ (\A x \in D : value[x] = 0) => SumOf(value) = 0
<1> DEFINE sum == CHOOSE f : AddsUp(f, D, value)
<1>1. Additive(Nat) /\ value \in [D -> Int]
  BY DEF Additive
<1>2. \E f : AddsUp(f, D, value)
  BY <1>1, SumExists
<1>3. AddsUp(sum, D, value)
  BY <1>2
<1>4. SumOf(value) = sum[D]
  BY DEF SumOf, MapThenFoldSet, AddsUp, One
<1> HIDE DEF sum
<1>5. sum \in [SUBSET D -> Nat]
  BY <1>1, <1>3, SumTyped
<1>6. (\A x \in D : value[x] = 0) => sum[D] = 0
  BY <1>1, <1>3, SumOfZeros
<1> QED BY <1>4, <1>5, <1>6

\* The turns a role has taken in this game.
Taken(r) == IF r = "thief" THEN counter ELSE copSteps

\* A broadcast is what the sender's field, as its reader knows it, becomes by
\* an emission where the sender stands.
Follow(s, before, c) == s = Forward("reference", before, c)

\* What the watcher of the turn to come has seen, and what the mover has: the
\* watcher the mover's latest broadcast and, before it, the one that broadcast
\* grew out of; the mover the one before the watcher's latest.
StreamInv ==
  law = "reference" /\ outcome = Playing =>
    LET watcher == Opponent(toMove)
    IN  /\ counter \in Nat /\ copSteps \in Nat
        /\ DOMAIN seen = Role
        /\ toMove = "police" => counter >= 1
        /\ copSteps >= 1 => counter >= 1
        /\ Taken(watcher) >= 1 => seen[watcher][2] = snap[toMove]
        /\ Taken(watcher) >= 2 => Follow(snap[toMove], seen[watcher][1], own[toMove].at)
        /\ Taken(toMove) >= 1 => Follow(snap[watcher], seen[toMove][2], own[watcher].at)
        /\ \A r \in Role : Taken(r) >= 1 =>
             \E s \in [Cell -> 0 .. Emit0 - Rho] : Follow(snap[r], s, own[r].at)

LEMMA HonestSnap ==
  ASSUME Fading, NEW r \in Role, Honest(r)
  PROVE  /\ snap[r] \in [Cell -> 0 .. Emit0 - Rho]
         /\ Parsed(snap[r]) = snap[r]
<1>1. Emit0 - Rho \in Nat
  BY Grains, ScentAssumption DEF Fading
<1>2. snap[r] \in [Cell -> 0 .. Emit0 - Rho]
  BY <1>1 DEF Honest, Peak, Silent
<1>3. snap[r] \in [Cell -> Nat]
  BY <1>1, <1>2
<1> QED BY <1>2, <1>3, SnapshotExact, ScentAssumption DEF Parsed

\* Of the fields that an emission at c can leave, silence leaves the least.
LEMMA ForwardAt ==
  ASSUME Fading, NEW s \in [Cell -> 0 .. Emit0 - Rho], NEW c \in Cell
  PROVE  /\ Forward("reference", s, c) \in [Cell -> Nat]
         /\ \A d \in Cell :
              Forward("reference", s, c)[d] =
                LET v == Larger(s[d], Stamp(c, d)) IN IF v > Rho THEN v - Rho ELSE 0
<1>0. Emit0 - Rho \in Nat /\ Rho \in Nat
  BY Grains, ScentAssumption DEF Fading
<1> DEFINE g == [d \in Cell |->
                   LET v == Larger(s[d], Stamp(c, d)) IN IF v > Rho THEN v - Rho ELSE 0]
           f == Emitted("reference", Absorbed(s), c)
<1>1. s \in [Cell -> Nat]
  BY <1>0
<1>2. g \in [Cell -> Nat]
  <2> SUFFICES ASSUME NEW d \in Cell PROVE g[d] \in Nat
    OBVIOUS
  <2>1. s[d] \in Nat /\ Stamp(c, d) \in Nat
    BY <1>1 DEF Fading
  <2> QED BY <1>0, <2>1 DEF Larger
<1>3. \A d \in Cell : f[d] = g[d] * Grain
  <2> SUFFICES ASSUME NEW d \in Cell PROVE f[d] = g[d] * Grain
    OBVIOUS
  <2> QED BY <1>1, EmittedAt, ScentAssumption
<1>4. f = [d \in Cell |-> f[d]]
  BY DEF Emitted, Decayed
<1>5. Snapshot(f) = g
  <2> HIDE DEF f, g
  <2>1. f = Absorbed(g)
    BY <1>3, <1>4 DEF Absorbed
  <2> QED BY <1>2, <2>1, SnapshotExact, ScentAssumption
<1>6. Forward("reference", s, c) = g
  BY <1>5 DEF Forward
<1> QED BY <1>2, <1>6

LEMMA SilenceIsLeast ==
  ASSUME Fading, NEW s \in [Cell -> 0 .. Emit0 - Rho], NEW c \in Cell, NEW d \in Cell
  PROVE  Forward("reference", Silent, c)[d] <= Forward("reference", s, c)[d]
<1>0. Emit0 - Rho \in Nat /\ Rho \in Nat
  BY Grains, ScentAssumption DEF Fading
<1>1. Silent \in [Cell -> 0 .. Emit0 - Rho] /\ Silent[d] = 0
  BY <1>0 DEF Silent
<1>2. s[d] \in Nat /\ Stamp(c, d) \in Nat
  BY <1>0 DEF Fading
<1> DEFINE v == Larger(s[d], Stamp(c, d))
           w == Larger(0, Stamp(c, d))
<1>3. /\ Forward("reference", s, c)[d] = IF v > Rho THEN v - Rho ELSE 0
      /\ Forward("reference", Silent, c)[d] = IF w > Rho THEN w - Rho ELSE 0
  BY <1>1, ForwardAt
<1>4. w <= v /\ w \in Nat /\ v \in Nat
  BY <1>2 DEF Larger
<1> HIDE DEF v, w
<1> QED BY <1>0, <1>3, <1>4

\* No resync: the sender's own cell leaves no residual.
LEMMA TruthExplains ==
  ASSUME Fading, NEW observed \in [Cell -> Nat], NEW before, NEW c \in Cell,
         Follow(observed, before, c)
  PROVE  ~Resyncs("reference", observed, before, {})
<1> DEFINE terms == [d \in Cell |->
             (IF observed[d] = 0 /\ Forward("reference", before, c)[d] > 0
              THEN ZeroWeight ELSE 10)
               * Square((observed[d] - Forward("reference", before, c)[d]) \div 10)]
<1>1. Residual(observed, Forward("reference", before, c)) = SumOf(terms)
  BY DEF Residual
<1>2. \A d \in Cell : terms[d] = 0
  <2> SUFFICES ASSUME NEW d \in Cell PROVE terms[d] = 0
    OBVIOUS
  <2>1. Forward("reference", before, c)[d] = observed[d] /\ observed[d] \in Nat
    BY DEF Follow
  <2>2. (observed[d] - Forward("reference", before, c)[d]) \div 10 = 0
    BY <2>1
  <2>3. ZeroWeight * 0 = 0
    BY BeliefAssumption DEF EngineAccepted
  <2> QED BY <2>2, <2>3 DEF Square
<1>3. terms \in [Cell -> Nat]
  BY <1>2
<1>4. SumOf(terms) = 0
  <2> HIDE DEF terms
  <2> QED BY <1>2, <1>3, SumIsWhole, BoardIsFinite
<1>5. Residuals("reference", observed, before, {})[c] = 0 /\ c \in Candidates({})
  BY <1>1, <1>4 DEF Residuals, Candidates
<1>6. ~(0 > ResyncAt)
  BY BeliefAssumption DEF EngineAccepted
<1> QED BY <1>5, <1>6 DEF Resyncs

\* The sender's own cell is among the best refits, whatever the trail.
LEMMA TruthRefits ==
  ASSUME Fading, NEW s \in [Cell -> 0 .. Emit0 - Rho], NEW c \in Cell,
         NEW observed, Follow(observed, s, c)
  PROVE  c \in Refit("reference", observed, {})
<1>0. Emit0 - Rho \in Nat
  BY Grains, ScentAssumption DEF Fading
<1>1. observed \in [Cell -> Nat]
  BY ForwardAt DEF Follow
<1>2. Silent \in [Cell -> 0 .. Emit0 - Rho]
  BY <1>0 DEF Silent
<1>3. ASSUME NEW e \in Cell
      PROVE  /\ Deficit("reference", observed, e) \in Nat
             /\ e = c => Deficit("reference", observed, e) = 0
  <2> DEFINE fresh == Forward("reference", Silent, e)
             terms == [d \in Cell |->
               IF fresh[d] <= observed[d] THEN 0
               ELSE (IF observed[d] = 0 THEN ZeroWeight ELSE 10)
                      * Square((fresh[d] - observed[d]) \div 10)]
  <2>1. Deficit("reference", observed, e) = SumOf(terms)
    BY DEF Deficit
  <2>2. fresh \in [Cell -> Nat]
    BY <1>2, ForwardAt
  <2> HIDE DEF fresh
  <2>3. ASSUME NEW d \in Cell PROVE terms[d] \in Nat
    <3>1. fresh[d] \in Nat /\ observed[d] \in Nat
      BY <1>1, <2>2
    <3> DEFINE weight == IF observed[d] = 0 THEN ZeroWeight ELSE 10
               gap == (fresh[d] - observed[d]) \div 10
    <3>2. weight \in Nat
      BY BeliefAssumption DEF EngineAccepted
    <3>3. fresh[d] > observed[d] => gap \in Nat
      BY <3>1
    <3>4. terms[d] = IF fresh[d] <= observed[d] THEN 0 ELSE weight * (gap * gap)
      BY DEF Square
    <3> HIDE DEF weight, gap, terms
    <3>5. fresh[d] > observed[d] => gap * gap \in Nat
      BY <3>3
    <3>6. fresh[d] > observed[d] => weight * (gap * gap) \in Nat
      BY <3>2, <3>5
    <3> QED BY <3>1, <3>4, <3>6
  <2>4. terms \in [Cell -> Nat]
    BY <2>3
  <2>5. ASSUME e = c PROVE \A d \in Cell : terms[d] = 0
    <3>1. \A d \in Cell : fresh[d] <= observed[d]
      BY <2>5, SilenceIsLeast DEF Follow, fresh
    <3> QED BY <3>1
  <2> HIDE DEF terms
  <2> QED BY <2>1, <2>4, <2>5, SumIsWhole, BoardIsFinite
<1> QED BY <1>3 DEF Refit, Candidates

\* A turn that went well: the mover has read the watcher's broadcast, and what
\* it now sends grew out of what the watcher knows.
LEMMA TurnFollows ==
  ASSUME Fading, LabInv, StreamInv, law = "reference", outcome = Playing,
         NEW m \in Role, m = toMove, toMove' = Opponent(m),
         Observe(m), Emits(m), own'[m].at \in Cell,
         own'[Opponent(m)].at = own[Opponent(m)].at
  PROVE  LET w == Opponent(m)
         IN  /\ DOMAIN seen' = Role
             /\ seen'[m][2] = snap'[w]
             /\ Taken(m) >= 1 => Follow(snap'[w], seen'[m][1], own'[w].at)
             /\ Taken(w) >= 1 => Follow(snap'[m], seen'[w][2], own'[m].at)
             /\ \E s \in [Cell -> 0 .. Emit0 - Rho] : Follow(snap'[m], s, own'[m].at)
             /\ snap'[w] = snap[w]
<1> DEFINE w == Opponent(m)
<1>1. LabType /\ Honest(m) /\ Honest(w) /\ w \in Role /\ w # m /\ Opponent(w) = m
  BY DEF LabInv, Role, Opponent
<1>2. DOMAIN seen = Role /\ DOMAIN field = Role /\ DOMAIN snap = Role
  BY <1>1 DEF StreamInv, LabType
<1>3. Parsed(snap[w]) = snap[w] /\ snap[m] \in [Cell -> 0 .. Emit0 - Rho]
  BY <1>1, HonestSnap
<1>4. seen'[m] = <<seen[m][2], snap[w]>> /\ seen'[w] = seen[w] /\ DOMAIN seen' = Role
  BY <1>1, <1>2, <1>3 DEF Observe
<1>5. snap'[w] = snap[w]
  BY <1>1, <1>2 DEF Emits
<1>6. snap'[m] = Snapshot(field'[m]) /\ field'[m] = Emitted(law, field[m], own'[m].at)
  BY <1>2 DEF Emits
<1>7. field[m] = Absorbed(snap[m])
  BY <1>1 DEF Honest
<1>8. Follow(snap'[m], snap[m], own'[m].at)
  BY <1>6, <1>7 DEF Follow, Forward
<1>9. /\ Taken(w) >= 1 => seen[w][2] = snap[m]
      /\ Taken(m) >= 1 => Follow(snap[w], seen[m][2], own[w].at)
  BY DEF StreamInv
<1>10. Taken(w) >= 1 => Follow(snap'[m], seen'[w][2], own'[m].at)
  BY <1>4, <1>8, <1>9
<1>11. Taken(m) >= 1 => Follow(snap'[w], seen'[m][1], own'[w].at)
  BY <1>4, <1>5, <1>9
<1>12. seen'[m][2] = snap'[w]
  BY <1>4, <1>5
<1> QED BY <1>3, <1>4, <1>5, <1>8, <1>10, <1>11, <1>12

LEMMA ThiefStreams ==
  ASSUME Fading, LabInv, StreamInv, law = "reference", ThiefTurn
  PROVE  StreamInv'
<1> SUFFICES ASSUME outcome' = Playing PROVE StreamInv'
  BY DEF StreamInv
<1>1. /\ Observe("thief") /\ toMove = "thief" /\ toMove' = "police" /\ outcome = Playing
      /\ copSteps' = copSteps /\ law' = law
  BY DEF ThiefTurn, match
<1>2. /\ Opponent("thief") = "police" /\ Opponent("police") = "thief"
      /\ "police" \in Role /\ "thief" \in Role
  BY DEF Opponent, Role
<1>3. LabType /\ own \in [Role -> Side]
  BY DEF LabInv, LabType
<1> DEFINE dir == Decides("thief").dir
<1>4. StepOk("thief", dir) /\ Stepped("thief", dir) /\ Emits("thief") /\ counter' = counter + 1
  BY DEF ThiefTurn, Raises, Playing, Raised, RecordValidMove
<1> HIDE DEF dir
<1>5. own' \in [Role -> Side] /\ own'["police"] = own["police"]
  BY <1>2, <1>3, <1>4, SteppedAt, SidesApart
<1>6. own'["thief"].at \in Cell
  BY <1>2, <1>5 DEF Side
<1>7. /\ DOMAIN seen' = Role
      /\ seen'["thief"][2] = snap'["police"]
      /\ Taken("thief") >= 1 => Follow(snap'["police"], seen'["thief"][1], own'["police"].at)
      /\ Taken("police") >= 1 => Follow(snap'["thief"], seen'["police"][2], own'["thief"].at)
      /\ \E s \in [Cell -> 0 .. Emit0 - Rho] : Follow(snap'["thief"], s, own'["thief"].at)
      /\ snap'["police"] = snap["police"]
  BY <1>1, <1>2, <1>4, <1>5, <1>6, TurnFollows
<1>8. /\ counter \in Nat /\ copSteps \in Nat
      /\ Taken("police") >= 1 =>
           \E s \in [Cell -> 0 .. Emit0 - Rho] : Follow(snap["police"], s, own["police"].at)
  BY <1>1, <1>2 DEF StreamInv
<1>9. /\ Taken("thief")' = Taken("thief") + 1 /\ Taken("police")' = Taken("police")
      /\ Taken("thief") = counter /\ Taken("police") = copSteps
  BY <1>1, <1>4 DEF Taken
<1>10. \A r \in Role : Taken(r)' >= 1 =>
         \E s \in [Cell -> 0 .. Emit0 - Rho] : Follow(snap'[r], s, own'[r].at)
  BY <1>5, <1>7, <1>8, <1>9, SidesApart
<1>11. Taken("thief")' >= 2 => Taken("thief") >= 1
  BY <1>8, <1>9
<1> QED BY <1>1, <1>2, <1>4, <1>7, <1>8, <1>9, <1>10, <1>11 DEF StreamInv

LEMMA CopStreams ==
  ASSUME Fading, LabInv, StreamInv, law = "reference", CopTurn
  PROVE  StreamInv'
<1> SUFFICES ASSUME outcome' = Playing PROVE StreamInv'
  BY DEF StreamInv
<1>1. /\ Observe("police") /\ toMove = "police" /\ toMove' = "thief" /\ outcome = Playing
      /\ copSteps' = copSteps + 1 /\ counter' = counter /\ law' = law
  BY DEF CopTurn, match, RecordNothing
<1>2. /\ Opponent("thief") = "police" /\ Opponent("police") = "thief"
      /\ "police" \in Role /\ "thief" \in Role
  BY DEF Opponent, Role
<1>3. own \in [Role -> Side]
  BY DEF LabInv, LabType
<1>4. /\ Emits("police") /\ own' \in [Role -> Side]
      /\ own'["thief"].at = own["thief"].at
  <2> DEFINE decision == Decides("police")
             wall == WallOf("police", decision)
  <2>1. \/ /\ BarrierLegal(own["police"].at, wall, own["police"].walls, own["police"].used)
           /\ Walled(wall)
        \/ StepOk("police", decision.dir) /\ Landed(decision.dir)
    BY DEF CopTurn, Raises, Playing, Raised
  <2> HIDE DEF decision, wall
  <2>2. CASE /\ BarrierLegal(own["police"].at, wall, own["police"].walls, own["police"].used)
             /\ Walled(wall)
    BY <1>2, <1>3, <2>2, WalledAt DEF Walled
  <2>3. CASE StepOk("police", decision.dir) /\ Landed(decision.dir)
    BY <1>2, <1>3, <2>3, SteppedAt, SidesApart DEF Landed
  <2> QED BY <2>1, <2>2, <2>3
<1>5. own'["police"].at \in Cell
  BY <1>2, <1>4 DEF Side
<1>6. /\ DOMAIN seen' = Role
      /\ seen'["police"][2] = snap'["thief"]
      /\ Taken("police") >= 1 => Follow(snap'["thief"], seen'["police"][1], own'["thief"].at)
      /\ Taken("thief") >= 1 => Follow(snap'["police"], seen'["thief"][2], own'["police"].at)
      /\ \E s \in [Cell -> 0 .. Emit0 - Rho] : Follow(snap'["police"], s, own'["police"].at)
      /\ snap'["thief"] = snap["thief"]
  BY <1>1, <1>2, <1>4, <1>5, TurnFollows
<1>7. /\ counter \in Nat /\ copSteps \in Nat /\ counter >= 1
      /\ Taken("thief") >= 1 =>
           \E s \in [Cell -> 0 .. Emit0 - Rho] : Follow(snap["thief"], s, own["thief"].at)
  BY <1>1, <1>2 DEF StreamInv
<1>8. /\ Taken("police")' = Taken("police") + 1 /\ Taken("thief")' = Taken("thief")
      /\ Taken("thief") = counter /\ Taken("police") = copSteps
  BY <1>1 DEF Taken
<1>9. \A r \in Role : Taken(r)' >= 1 =>
        \E s \in [Cell -> 0 .. Emit0 - Rho] : Follow(snap'[r], s, own'[r].at)
  BY <1>4, <1>6, <1>7, <1>8, SidesApart
<1>10. Taken("police")' >= 2 => Taken("police") >= 1
  BY <1>7, <1>8
<1> QED BY <1>1, <1>2, <1>6, <1>7, <1>8, <1>9, <1>10 DEF StreamInv

LEMMA GameStreams ==
  ASSUME NextGame
  PROVE  StreamInv'
<1> SUFFICES ASSUME outcome' = Playing PROVE StreamInv'
  BY DEF StreamInv
<1>1. CASE Len(rows') < 2 * Pairs
  <2>1. counter' = 0 /\ copSteps' = 0 /\ toMove' = "thief" /\ seen' = Seeded
    BY <1>1 DEF NextGame
  <2>2. \A r : Taken(r)' = 0
    BY <2>1 DEF Taken
  <2> QED BY <2>1, <2>2 DEF StreamInv, Seeded
<1>2. CASE ~(Len(rows') < 2 * Pairs)
  <2>1. outcome' = [outcome EXCEPT !.result = "over"]
    BY <1>2 DEF NextGame
  <2>2. "result" \in DOMAIN outcome' /\ outcome'.result = "playing"
    BY DEF Playing
  <2>3. DOMAIN outcome = DOMAIN outcome'
    BY <2>1
  <2> QED BY <2>1, <2>2, <2>3
<1> QED BY <1>1, <1>2

LEMMA StreamInit == Init => StreamInv
<1> SUFFICES ASSUME Init PROVE StreamInv
  OBVIOUS
<1>1. counter = 0 /\ copSteps = 0 /\ toMove = "thief" /\ seen = Seeded
  BY DEF Init
<1>2. \A r : Taken(r) = 0
  BY <1>1 DEF Taken
<1> QED BY <1>1, <1>2 DEF StreamInv, Seeded

LEMMA StreamStep ==
  ASSUME Fading, LabInv, StreamInv, [Next]_vars
  PROVE  StreamInv'
<1>1. law' = law
  BY DEF Next, ThiefTurn, CopTurn, NextGame, match, vars
<1>2. CASE law # "reference"
  BY <1>1, <1>2 DEF StreamInv
<1>3. CASE law = "reference"
  <2>1. CASE UNCHANGED vars
    BY <2>1 DEF StreamInv, Taken, vars, world, match
  <2> QED BY <1>3, <2>1, ThiefStreams, CopStreams, GameStreams DEF Next
<1> QED BY <1>2, <1>3

\* Under the subtractive dialect BeliefV2 never throws its prior away on an
\* honest sender's account, and no refit of a resync would lose the sender:
\* for every board, stamp, decay and grain, and however the two play.
THEOREM HonestStreamsExplained ==
  ASSUME Fading
  PROVE  Spec => [](law = "reference" => HonestStreamIsExplained)
<1>1. Init => LabInv /\ StreamInv
  BY InitEstablishes, StreamInit
<1>2. (LabInv /\ StreamInv) /\ [Next]_vars => (LabInv /\ StreamInv)'
  BY NextKeeps, StreamStep
<1>3. LabInv /\ StreamInv => (law = "reference" => HonestStreamIsExplained)
  <2> SUFFICES ASSUME LabInv, StreamInv, law = "reference", outcome = Playing
               PROVE  LET r == Opponent(toMove)
                          turns == IF r = "thief" THEN counter ELSE copSteps
                      IN  /\ turns >= 2 => ~Resyncs(law, seen[r][2], seen[r][1], {})
                          /\ copSteps >= 1 => own[toMove].at \in Refit(law, seen[r][2], {})
    BY DEF HonestStreamIsExplained
  <2> DEFINE r == Opponent(toMove)
             at == own[toMove].at
  <2>1. LabType /\ Honest(toMove) /\ toMove \in Role /\ r \in Role
    BY DEF LabInv, LabType, Role, Opponent
  <2>2. at \in Cell
    BY <2>1 DEF LabType, Side
  <2>3. /\ counter \in Nat /\ copSteps \in Nat
        /\ copSteps >= 1 => counter >= 1
        /\ Taken(r) >= 1 => seen[r][2] = snap[toMove]
        /\ Taken(r) >= 2 => Follow(snap[toMove], seen[r][1], at)
        /\ Taken(toMove) >= 1 =>
             \E s \in [Cell -> 0 .. Emit0 - Rho] : Follow(snap[toMove], s, at)
    BY <2>1 DEF StreamInv
  <2>4. Taken(r) = (IF r = "thief" THEN counter ELSE copSteps)
    BY DEF Taken
  <2>5. snap[toMove] \in [Cell -> Nat]
    <3>1. Emit0 - Rho \in Nat
      BY Grains, ScentAssumption DEF Fading
    <3>2. snap[toMove] \in [Cell -> 0 .. Emit0 - Rho]
      BY <2>1, HonestSnap
    <3> QED BY <3>1, <3>2
  <2> HIDE DEF r, at
  <2>6. ASSUME Taken(r) >= 2 PROVE ~Resyncs(law, seen[r][2], seen[r][1], {})
    <3>1. Taken(r) \in Nat
      BY <2>3, <2>4
    <3>2. seen[r][2] = snap[toMove] /\ Follow(snap[toMove], seen[r][1], at)
      BY <2>3, <2>6, <3>1
    <3> QED BY <2>2, <2>5, <3>2, TruthExplains
  <2>7. ASSUME copSteps >= 1 PROVE at \in Refit(law, seen[r][2], {})
    <3>1. Taken(r) >= 1 /\ Taken(toMove) >= 1
      BY <2>3, <2>7 DEF Taken
    <3>2. PICK s \in [Cell -> 0 .. Emit0 - Rho] : Follow(snap[toMove], s, at)
      BY <2>3, <3>1
    <3>3. seen[r][2] = snap[toMove]
      BY <2>3, <3>1
    <3> QED BY <2>2, <3>2, <3>3, TruthRefits
  <2> QED BY <2>4, <2>6, <2>7 DEF r, at
<1> QED BY <1>1, <1>2, <1>3, PTL DEF Spec

-----------------------------------------------------------------------------
(* Adding up in another order, and the coin tosses of a fair match.         *)

\* x is the twin of its own twin.
Twins(twin, D) == twin \in [D -> D] /\ \A x \in D : twin[twin[x]] = x

LEMMA SumOfTwins ==
  ASSUME NEW D, IsFiniteSet(D), NEW value \in [D -> Int], NEW other \in [D -> Int],
         NEW twin, Twins(twin, D), \A x \in D : other[x] = value[twin[x]]
  PROVE  SumOf(value) = SumOf(other)
<1> DEFINE f == CHOOSE h : AddsUp(h, D, value)
           g == CHOOSE h : AddsUp(h, D, other)
           Image(T) == {twin[x] : x \in T}
           rank == [T \in SUBSET D |-> Cardinality(T)]
           bad == {T \in SUBSET D : g[T] # f[Image(T)]}
<1>0. SumOf(value) = f[D] /\ SumOf(other) = g[D]
  BY DEF SumOf, MapThenFoldSet, AddsUp, One
<1>1. AddsUp(f, D, value) /\ AddsUp(g, D, other)
  <2>1. Additive(Int)
    BY DEF Additive
  <2>2. \E h : AddsUp(h, D, value)
    BY <2>1, SumExists
  <2>3. \E h : AddsUp(h, D, other)
    BY <2>1, SumExists
  <2> QED BY <2>2, <2>3
<1> HIDE DEF f, g
<1>2. AnyFirst(f, D, value) /\ AnyFirst(g, D, other)
  BY <1>1, SumByAny
<1>3. bad = {}
  <2> SUFFICES ASSUME bad # {} PROVE FALSE
    OBVIOUS
  <2>1. rank \in [SUBSET D -> Nat]
    BY FS_Subset, FS_CardinalityType
  <2>2. PICK T \in bad : \A U \in bad : rank[T] <= rank[U]
    <3>1. bad \in SUBSET (SUBSET D) /\ bad # {}
      OBVIOUS
    <3> HIDE DEF rank, bad
    <3> QED BY <2>1, <3>1, LeastRank
  <2>3. Image({}) = {} /\ {} \in SUBSET D
    OBVIOUS
  <2>4. T \in SUBSET D /\ T # {}
    BY <1>1, <2>3 DEF AddsUp
  <2>5. PICK x \in T : TRUE
    BY <2>4
  <2>6. T \ {x} \in SUBSET D /\ rank[T \ {x}] < rank[T]
    BY <2>4, <2>5, OneLess
  <2>7. g[T \ {x}] = f[Image(T \ {x})]
    <3> HIDE DEF rank, Image
    <3> QED BY <2>1, <2>2, <2>4, <2>6
  <2>8. /\ Image(T) \in SUBSET D /\ twin[x] \in Image(T)
        /\ Image(T \ {x}) = Image(T) \ {twin[x]}
    BY <2>4, <2>5 DEF Twins
  <2>9. g[T] = other[x] + g[T \ {x}]
    BY <1>2, <2>4, <2>5 DEF AnyFirst
  <2>10. f[Image(T)] = value[twin[x]] + f[Image(T) \ {twin[x]}]
    <3> HIDE DEF Image
    <3> QED BY <1>2, <2>8 DEF AnyFirst
  <2>11. g[T] = f[Image(T)]
    <3> HIDE DEF Image
    <3> QED BY <2>4, <2>5, <2>7, <2>8, <2>9, <2>10
  <2> QED BY <2>2, <2>11
<1>4. Image(D) = D
  BY DEF Twins
<1>5. g[D] = f[Image(D)]
  BY <1>3
<1> HIDE DEF Image
<1> QED BY <1>0, <1>4, <1>5

\* Of the outcomes of twice as many even games as there are wins, at least half
\* have that many wins.
LEMMA HalfOrMore ==
  ASSUME NEW wins \in Nat, NEW n \in Nat, n = 2 * wins
  PROVE  2 * UpperTail(wins, n) >= 2 ^ n
<1> DEFINE D == 1 .. n
           Up == {won \in SUBSET D : Cardinality(won) >= wins}
           Low == {won \in SUBSET D : Cardinality(won) < wins}
           rest == [won \in Low |-> D \ won]
<1>1. IsFiniteSet(D) /\ Cardinality(D) = n
  BY FS_Interval
<1>2. IsFiniteSet(SUBSET D) /\ Cardinality(SUBSET D) = 2 ^ n
  BY <1>1, FS_SUBSET
<1>3. \A won \in SUBSET D :
        Cardinality(won) \in Nat /\ Cardinality(D \ won) = n - Cardinality(won)
  <2> SUFFICES ASSUME NEW won \in SUBSET D
               PROVE  Cardinality(won) \in Nat /\ Cardinality(D \ won) = n - Cardinality(won)
    OBVIOUS
  <2>1. IsFiniteSet(won) /\ Cardinality(won) \in Nat /\ D \cap won = won
    BY <1>1, FS_Subset, FS_CardinalityType
  <2>2. Cardinality(D \ won) = Cardinality(D) - Cardinality(D \cap won)
    BY <1>1, <2>1, FS_Difference
  <2> QED BY <1>1, <2>1, <2>2
<1> HIDE DEF D
<1>4. Up \cup Low = SUBSET D /\ Up \cap Low = {}
  <2>1. \A won \in SUBSET D : won \in Up <=> won \notin Low
    <3> SUFFICES ASSUME NEW won \in SUBSET D PROVE won \in Up <=> won \notin Low
      OBVIOUS
    <3>0. Cardinality(won) \in Nat
      BY <1>3, Zenon
    <3>1. Cardinality(won) >= wins <=> ~(Cardinality(won) < wins)
      BY <3>0
    <3> QED BY <3>1, Zenon
  <2>2. Up \subseteq SUBSET D /\ Low \subseteq SUBSET D
    OBVIOUS
  <2> HIDE DEF Up, Low
  <2>3. Up \cup Low = SUBSET D
    BY <2>1, <2>2, Zenon
  <2>4. Up \cap Low = {}
    BY <2>1, <2>2, Zenon
  <2> QED BY <2>3, <2>4
<1>5. IsFiniteSet(Up) /\ IsFiniteSet(Low)
  BY <1>2, <1>4, FS_Subset
<1>6. rest \in Injection(Low, Up)
  <2>1. \A won \in Low : D \ won \in Up
    BY <1>3
  <2>2. \A a, b \in Low : D \ a = D \ b => a = b
    OBVIOUS
  <2> QED BY <2>1, <2>2 DEF Injection, IsInjective
<1> HIDE DEF Up, Low, rest
<1>7. Cardinality(Low) <= Cardinality(Up)
  BY <1>5, <1>6, FS_Injection
<1>8. Cardinality(Up) + Cardinality(Low) = 2 ^ n
  <2>1. Cardinality(Up \cup Low) = Cardinality(Up) + Cardinality(Low) - Cardinality(Up \cap Low)
    BY <1>5, FS_Union
  <2>2. Cardinality(Up \cap Low) = 0
    BY <1>4, FS_EmptySet
  <2>3. Cardinality(Up) \in Nat /\ Cardinality(Low) \in Nat
    BY <1>5, FS_CardinalityType
  <2>4. Cardinality(Up \cup Low) = 2 ^ n
    BY <1>2, <1>4
  <2> QED BY <2>1, <2>2, <2>3, <2>4
<1>9. Cardinality(Up) \in Nat /\ Cardinality(Low) \in Nat
  BY <1>5, FS_CardinalityType
<1>10. UpperTail(wins, n) = Cardinality(Up)
  BY DEF UpperTail, Up, D
<1> QED BY <1>7, <1>8, <1>9, <1>10

\* y is the row of the same game with the agents' roles swapped.
Swapped(x, y) ==
  /\ x.police \in Agent /\ y.police = OtherAgent(x.police)
  /\ x.winner \in Agent /\ y.winner = OtherAgent(x.winner)
  /\ x.winnerRole = y.winnerRole
  /\ x.result = y.result /\ x.result \in {"capture", "survival"}

\* The other game of the same seed.
Twin(n) == [i \in 1 .. 2 * n |-> IF i % 2 = 1 THEN i + 1 ELSE i - 1]

\* The rows of n seeds, each played by a copy against itself.
Mirrored(n) ==
  /\ DOMAIN rows = 1 .. 2 * n
  /\ \A i \in 1 .. 2 * n : Swapped(rows[i], rows[Twin(n)[i]])

LEMMA TwinsArePairs ==
  ASSUME NEW n \in Nat
  PROVE  Twins(Twin(n), 1 .. 2 * n)
<1> DEFINE D == 1 .. 2 * n
<1>1. ASSUME NEW i \in D
      PROVE  Twin(n)[i] \in D /\ Twin(n)[Twin(n)[i]] = i
  <2>1. Twin(n)[i] = IF i % 2 = 1 THEN i + 1 ELSE i - 1
    BY DEF Twin
  <2>2. CASE i % 2 = 1
    <3>1. i + 1 \in D /\ (i + 1) % 2 # 1
      BY <2>2
    <3>2. Twin(n)[i + 1] = i
      BY <3>1 DEF Twin
    <3> QED BY <2>1, <2>2, <3>1, <3>2
  <2>3. CASE i % 2 # 1
    <3>1. i - 1 \in D /\ (i - 1) % 2 = 1
      BY <2>3
    <3>2. Twin(n)[i - 1] = i
      BY <3>1 DEF Twin
    <3> QED BY <2>1, <2>3, <3>1, <3>2
  <2> QED BY <2>2, <2>3
<1>2. Twin(n) = [i \in D |-> Twin(n)[i]]
  BY DEF Twin
<1>3. Twin(n) \in [D -> D]
  BY <1>1, <1>2
<1> QED BY <1>1, <1>3 DEF Twins

\* Either agent wins in one game of a seed what the other wins in its twin.
LEMMA WinsAreEven ==
  ASSUME NEW n \in Nat, Mirrored(n)
  PROVE  /\ DecisiveWins("A") = DecisiveWins("B") /\ DecisiveWins("A") \in Nat
         /\ Decisive = 2 * DecisiveWins("A")
<1> DEFINE D == 1 .. 2 * n
           twin == Twin(n)
           Won(agent) == {i \in DOMAIN rows : rows[i].winner = agent}
<1>1. twin \in [D -> D] /\ (\A i \in D : twin[twin[i]] = i) /\ DOMAIN rows = D
  BY TwinsArePairs DEF Twins, Mirrored
<1>2. \A i \in D : rows[i].winner \in Agent /\ rows[twin[i]].winner = OtherAgent(rows[i].winner)
  BY DEF Mirrored, Swapped
<1>3. IsFiniteSet(D)
  BY FS_Interval
<1> HIDE DEF D, twin
<1>4. \A agent \in Agent :
        Cardinality(Won(agent)) \in Nat /\ IsFiniteSet(Won(agent))
  <2> SUFFICES ASSUME NEW agent \in Agent
               PROVE  Cardinality(Won(agent)) \in Nat /\ IsFiniteSet(Won(agent))
    OBVIOUS
  <2>1. Won(agent) \subseteq D
    BY <1>1
  <2> HIDE DEF Won
  <2> QED BY <1>3, <2>1, FS_Subset, FS_CardinalityType
<1>5. ASSUME NEW a \in Agent, NEW b \in Agent, b = OtherAgent(a)
      PROVE  Cardinality(Won(a)) <= Cardinality(Won(b))
  <2> DEFINE f == [i \in Won(a) |-> twin[i]]
  <2>1. \A i \in Won(a) : twin[i] \in Won(b)
    BY <1>1, <1>2, <1>5
  <2>2. \A i, j \in Won(a) : twin[i] = twin[j] => i = j
    BY <1>1
  <2>3. f \in Injection(Won(a), Won(b))
    <3> HIDE DEF Won
    <3> QED BY <2>1, <2>2 DEF Injection, IsInjective
  <2> HIDE DEF f, Won
  <2> QED BY <1>4, <2>3, FS_Injection
<1>6. Cardinality(Won("A")) = Cardinality(Won("B"))
  <2>1. "A" \in Agent /\ "B" \in Agent /\ "B" = OtherAgent("A") /\ "A" = OtherAgent("B")
    BY DEF Agent, OtherAgent
  <2>2. Cardinality(Won("A")) <= Cardinality(Won("B"))
    BY <1>5, <2>1
  <2>3. Cardinality(Won("B")) <= Cardinality(Won("A"))
    BY <1>5, <2>1
  <2> HIDE DEF Won
  <2> QED BY <1>4, <2>1, <2>2, <2>3
<1>7. {i \in DOMAIN rows : rows[i].winner # "none"} = Won("A") \cup Won("B")
  BY <1>1, <1>2 DEF Agent
<1>8. Won("A") \cap Won("B") = {}
  OBVIOUS
<1> HIDE DEF Won
<1>9. Cardinality(Won("A") \cup Won("B")) = Cardinality(Won("A")) + Cardinality(Won("B"))
  <2>1. "A" \in Agent /\ "B" \in Agent
    BY DEF Agent
  <2>2. Cardinality(Won("A") \cup Won("B"))
          = Cardinality(Won("A")) + Cardinality(Won("B")) - Cardinality(Won("A") \cap Won("B"))
    BY <1>4, <2>1, FS_Union
  <2>3. Cardinality(Won("A") \cap Won("B")) = 0
    BY <1>8, FS_EmptySet
  <2> QED BY <1>4, <2>1, <2>2, <2>3
<1>10. /\ DecisiveWins("A") = Cardinality(Won("A")) /\ DecisiveWins("B") = Cardinality(Won("B"))
       /\ Decisive = Cardinality(Won("A") \cup Won("B"))
  BY <1>7 DEF DecisiveWins, Decisive, Won
<1>11. Cardinality(Won("A")) \in Nat
  BY <1>4 DEF Agent
<1> QED BY <1>6, <1>9, <1>10, <1>11

LEMMA PointsAreEven ==
  ASSUME NEW n \in Nat, Mirrored(n)
  PROVE  PointsOf("A") = PointsOf("B")
<1> DEFINE D == 1 .. 2 * n
           twin == Twin(n)
           Earned(agent) == [i \in DOMAIN rows |->
             ScoreSubgame(rows[i], IF rows[i].police = agent THEN "police" ELSE "thief")]
<1>1. Twins(twin, D) /\ DOMAIN rows = D /\ IsFiniteSet(D)
  BY TwinsArePairs, FS_Interval DEF Mirrored
<1>2. \A i \in D : Swapped(rows[i], rows[twin[i]])
  BY DEF Mirrored
<1> HIDE DEF D, twin
<1>3. ASSUME NEW i \in D, NEW r \in Role PROVE ScoreSubgame(rows[i], r) \in Int
  <2>1. rows[i].result \in {"capture", "survival"}
    BY <1>2 DEF Swapped
  <2> QED BY <2>1, LabAssumption DEF ScoreSubgame
<1>4. Earned("A") \in [D -> Int] /\ Earned("B") \in [D -> Int]
  BY <1>1, <1>3 DEF Role
<1>5. \A i \in D : Earned("B")[i] = Earned("A")[twin[i]]
  <2> SUFFICES ASSUME NEW i \in D PROVE Earned("B")[i] = Earned("A")[twin[i]]
    OBVIOUS
  <2>1. twin[i] \in D /\ Swapped(rows[i], rows[twin[i]])
    BY <1>1, <1>2 DEF Twins
  <2>2. rows[twin[i]].police = "A" <=> rows[i].police = "B"
    BY <2>1 DEF Swapped, Agent, OtherAgent
  <2>3. ASSUME NEW r PROVE ScoreSubgame(rows[i], r) = ScoreSubgame(rows[twin[i]], r)
    BY <2>1 DEF Swapped, ScoreSubgame
  <2> QED BY <1>1, <2>1, <2>2, <2>3
<1>6. PointsOf("A") = SumOf(Earned("A")) /\ PointsOf("B") = SumOf(Earned("B"))
  BY DEF PointsOf
<1> HIDE DEF Earned
<1>7. SumOf(Earned("A")) = SumOf(Earned("B"))
  BY <1>1, <1>4, <1>5, SumOfTwins
<1> QED BY <1>6, <1>7

\* Equal wins, equal points, and no verdict.
LEMMA MirroredIsEven ==
  ASSUME NEW n \in Nat, Mirrored(n)
  PROVE  /\ 2 * Summary.win_rate_A[1] = Summary.win_rate_A[2]
         /\ Summary.points["A"] = Summary.points["B"]
         /\ 2 * Summary.p_value_A[1] >= Summary.p_value_A[2]
<1>1. /\ Summary.win_rate_A = <<DecisiveWins("A"), Decisive>>
      /\ Summary.p_value_A = <<Chance("A"), 2 ^ Decisive>>
      /\ Summary.points["A"] = PointsOf("A") /\ Summary.points["B"] = PointsOf("B")
  BY DEF Summary, Agent
<1>2. DecisiveWins("A") \in Nat /\ Decisive = 2 * DecisiveWins("A") /\ Decisive \in Nat
  BY WinsAreEven
<1>3. 2 * UpperTail(DecisiveWins("A"), Decisive) >= 2 ^ Decisive
  BY <1>2, HalfOrMore
<1>4. Chance("A") = UpperTail(DecisiveWins("A"), Decisive)
  BY DEF Chance
<1>5. 2 * Summary.win_rate_A[1] = Summary.win_rate_A[2]
  BY <1>1, <1>2
<1>6. 2 * Summary.p_value_A[1] >= Summary.p_value_A[2]
  BY <1>1, <1>3, <1>4
<1> QED BY <1>1, <1>5, <1>6, PointsAreEven

-----------------------------------------------------------------------------
(* A game depends on its line-up and its seed alone.                        *)

\* What the turns of a game change, and what they go by.
Now ==
  [own |-> own, field |-> field, snap |-> snap, mode |-> mode, conf |-> conf, seen |-> seen,
   counter |-> counter, copSteps |-> copSteps, toMove |-> toMove, outcome |-> outcome]

Fresh ==
  [own |-> FreshOwn, field |-> NoScent, snap |-> NoScent, mode |-> FreshMode,
   conf |-> FreshConf, seen |-> Seeded, counter |-> 0, copSteps |-> 0,
   toMove |-> "thief", outcome |-> Playing]

Setting == [law |-> law, brains |-> [r \in Role |-> BrainOf(r)], luck |-> luck]

\* The turns as functions of a world w in a setting s.
ModeAfter(w, r) ==
  LET cells == w.snap[Opponent(r)]
  IN  [w.mode EXCEPT ![r] = IF cells = Silent THEN @ ELSE Strongest(cells)]

ConfAfter(w, r) ==
  LET cells == w.snap[Opponent(r)]
  IN  [w.conf EXCEPT ![r] = IF cells = Silent THEN @
         ELSE IF cells[ModeAfter(w, r)[r]] > 1000 THEN 1000 ELSE cells[ModeAfter(w, r)[r]]]

SeenAfter(w, r) == [w.seen EXCEPT ![r] = <<@[2], Parsed(w.snap[Opponent(r)])>>]

DecisionIn(s, w, r) ==
  LET brain == s.brains[r]
      me == w.own[r]
      target == ModeAfter(w, r)[r]
  IN CASE brain = "interceptor" -> InterceptorDecides(me, target, ConfAfter(w, r)[r])
       [] brain = "greedy cop"  -> GreedyPoliceDecides(me, target, s.luck[w.copSteps + 1])
       [] brain = "survivor"    -> SurvivorDecides(me, target)
       [] brain = "decoy"       -> DecoyDecides(me, target)
       [] brain = "greedy"      -> GreedyThiefDecides(me, target)

StepIn(o, r, dir) ==
  [o EXCEPT ![r].at = Shift(@, dir), ![r].visited = @ \cup {Shift(o[r].at, dir)}]

WallIn(o, wall) ==
  [r \in Role |-> [o[r] EXCEPT !.walls = @ \cup {wall},
                              !.used = IF r = "police" THEN @ + 1 ELSE @]]

FieldAfter(s, w, r, o) == [w.field EXCEPT ![r] = Emitted(s.law, @, o[r].at)]
SnapAfter(s, w, r, o) == [w.snap EXCEPT ![r] = Snapshot(FieldAfter(s, w, r, o)[r])]

\* After r has observed and the board is o; f, c, k say what else is new.
Emitting(s, w, r, o, f, c, k) ==
  [own |-> o, field |-> FieldAfter(s, w, r, o), snap |-> SnapAfter(s, w, r, o),
   mode |-> ModeAfter(w, r), conf |-> ConfAfter(w, r), seen |-> SeenAfter(w, r),
   counter |-> f, copSteps |-> c, toMove |-> Opponent(r), outcome |-> k]

Failing(s, w, r, c) ==
  [own |-> w.own, field |-> w.field, snap |-> w.snap,
   mode |-> ModeAfter(w, r), conf |-> ConfAfter(w, r), seen |-> SeenAfter(w, r),
   counter |-> w.counter, copSteps |-> c, toMove |-> Opponent(r), outcome |-> Raised]

ThiefGoes(s, w) ==
  LET dir == DecisionIn(s, w, "thief").dir
      o == StepIn(w.own, "thief", dir)
  IN  IF StepLegal(w.own["thief"].at, dir, w.own["thief"].walls)
      THEN Emitting(s, w, "thief", o, w.counter + 1, w.copSteps,
             IF CaptureByLanding(w.own["police"].at, o["thief"].at) THEN Capture("landing")
             ELSE IF w.counter + 1 >= SurvivalThreshold \/ w.copSteps >= MaxMoves THEN Survival
             ELSE Playing)
      ELSE Failing(s, w, "thief", w.copSteps)

CopGoes(s, w) ==
  LET me == w.own["police"]
      decision == DecisionIn(s, w, "police")
      wall == Shift(me.at, decision.dir)
      thief == w.own["thief"]
      o == StepIn(w.own, "police", decision.dir)
  IN  IF decision.type = "BARRIER"
      THEN IF BarrierLegal(me.at, wall, me.walls, me.used)
           THEN Emitting(s, w, "police", WallIn(w.own, wall), w.counter, w.copSteps + 1,
                  IF CaptureByBarrier(wall, thief.at) THEN Capture("barrier")
                  ELSE IF Jailed(thief.at, thief.walls \cup {wall}) THEN Capture("jailed")
                  ELSE Playing)
           ELSE Failing(s, w, "police", w.copSteps + 1)
      ELSE IF StepLegal(me.at, decision.dir, me.walls)
           THEN Emitting(s, w, "police", o, w.counter, w.copSteps + 1,
                  IF CaptureByLanding(o["police"].at, thief.at) THEN Capture("landing")
                  ELSE Playing)
           ELSE Failing(s, w, "police", w.copSteps + 1)

Goes(s, w) == IF w.toMove = "thief" THEN ThiefGoes(s, w) ELSE CopGoes(s, w)

LEMMA NowIs ==
  /\ Now.own = own /\ Now.field = field /\ Now.snap = snap /\ Now.mode = mode
  /\ Now.conf = conf /\ Now.seen = seen /\ Now.counter = counter /\ Now.copSteps = copSteps
  /\ Now.toMove = toMove /\ Now.outcome = outcome
BY DEF Now

\* What a side believes once it has observed, and what it decides on that.
LEMMA ObservesAlike ==
  ASSUME NEW r \in Role, Observe(r)
  PROVE  /\ mode' = ModeAfter(Now, r) /\ conf' = ConfAfter(Now, r)
         /\ seen' = SeenAfter(Now, r)
<1>1. mode' = ModeAfter(Now, r) /\ seen' = SeenAfter(Now, r)
  BY NowIs DEF Observe, Reads, ModeAfter, SeenAfter
<1>2. conf' = ConfAfter(Now, r)
  <2> DEFINE cells == snap[Opponent(r)]
             p(m) == [conf EXCEPT ![r] = IF cells = Silent THEN @
                                         ELSE IF cells[m[r]] > 1000 THEN 1000 ELSE cells[m[r]]]
  <2>1. conf' = p(mode')
    BY DEF Observe, Reads
  <2>2. ConfAfter(Now, r) = p(ModeAfter(Now, r))
    BY NowIs DEF ConfAfter
  <2> HIDE DEF p
  <2> QED BY <1>1, <2>1, <2>2
<1> QED BY <1>1, <1>2

LEMMA DecidesAlike ==
  ASSUME NEW r \in Role, Observe(r)
  PROVE  Decides(r) = DecisionIn(Setting, Now, r)
<1>1. View(r).state = own[r] /\ View(r).most_likely = mode'[r] /\ View(r).most_likely_p = conf'[r]
  BY DEF View
<1>2. Setting.brains[r] = BrainOf(r) /\ Setting.luck = luck
  BY DEF Setting
<1> QED BY <1>1, <1>2, ObservesAlike, NowIs DEF Decides, DecisionIn

LEMMA ThiefTurnGoes == ThiefTurn => Now' = Goes(Setting, Now)
<1> SUFFICES ASSUME ThiefTurn PROVE Now' = Goes(Setting, Now)
  OBVIOUS
<1> DEFINE dir == Decides("thief").dir
<1>1. "thief" \in Role /\ Observe("thief") /\ toMove = "thief" /\ outcome = Playing
  BY DEF ThiefTurn, Role
<1>2. DecisionIn(Setting, Now, "thief").dir = dir
  BY <1>1, DecidesAlike
<1>3. /\ mode' = ModeAfter(Now, "thief") /\ conf' = ConfAfter(Now, "thief")
      /\ seen' = SeenAfter(Now, "thief")
  BY <1>1, ObservesAlike
<1>4. toMove' = "police" /\ copSteps' = copSteps /\ Opponent("thief") = "police"
  BY DEF ThiefTurn, Opponent
<1>5. IF StepOk("thief", dir)
      THEN /\ Stepped("thief", dir) /\ RecordValidMove /\ Emits("thief")
           /\ outcome' = ThiefVerdict(own'["thief"].at, counter + 1)
      ELSE Raises /\ RecordNothing
  BY DEF ThiefTurn
<1> HIDE DEF dir
<1>6. Goes(Setting, Now) = ThiefGoes(Setting, Now)
  BY <1>1, NowIs DEF Goes
<1>7. CASE StepOk("thief", dir)
  <2> DEFINE o == StepIn(own, "thief", dir)
             k == IF CaptureByLanding(own["police"].at, o["thief"].at) THEN Capture("landing")
                  ELSE IF counter + 1 >= SurvivalThreshold \/ copSteps >= MaxMoves THEN Survival
                  ELSE Playing
  <2>1. own' = o
    BY <1>5, <1>7 DEF Stepped, StepIn
  <2>2. counter' = counter + 1 /\ outcome' = k
    BY <1>5, <1>7, <2>1 DEF RecordValidMove, ThiefVerdict
  <2>3. field' = FieldAfter(Setting, Now, "thief", o)
    BY <1>5, <1>7, <2>1, NowIs DEF Emits, FieldAfter, Setting
  <2>4. snap' = SnapAfter(Setting, Now, "thief", o)
    BY <1>5, <1>7, <2>3, NowIs DEF Emits, SnapAfter
  <2>5. ThiefGoes(Setting, Now) = Emitting(Setting, Now, "thief", o, counter + 1, copSteps, k)
    BY <1>2, <1>7, NowIs DEF ThiefGoes, StepOk
  <2> HIDE DEF o, k
  <2> QED BY <1>3, <1>4, <1>6, <2>1, <2>2, <2>3, <2>4, <2>5 DEF Emitting, Now
<1>8. CASE ~StepOk("thief", dir)
  <2>1. own' = own /\ field' = field /\ snap' = snap /\ counter' = counter /\ outcome' = Raised
    BY <1>5, <1>8 DEF Raises, RecordNothing
  <2>2. ThiefGoes(Setting, Now) = Failing(Setting, Now, "thief", copSteps)
    BY <1>2, <1>8, NowIs DEF ThiefGoes, StepOk
  <2> QED BY <1>3, <1>4, <1>6, <2>1, <2>2, NowIs DEF Failing, Now
<1> QED BY <1>7, <1>8

LEMMA CopTurnGoes == CopTurn => Now' = Goes(Setting, Now)
<1> SUFFICES ASSUME CopTurn PROVE Now' = Goes(Setting, Now)
  OBVIOUS
<1> DEFINE me == own["police"]
           decision == Decides("police")
           wall == Shift(me.at, decision.dir)
<1>1. "police" \in Role /\ Observe("police") /\ toMove = "police" /\ outcome = Playing
  BY DEF CopTurn, Role
<1>2. DecisionIn(Setting, Now, "police") = decision
  BY <1>1, DecidesAlike
<1>3. /\ mode' = ModeAfter(Now, "police") /\ conf' = ConfAfter(Now, "police")
      /\ seen' = SeenAfter(Now, "police")
  BY <1>1, ObservesAlike
<1>4. /\ toMove' = "thief" /\ copSteps' = copSteps + 1 /\ counter' = counter
      /\ Opponent("police") = "thief"
  BY DEF CopTurn, Opponent, RecordNothing
<1>5. \/ /\ decision.type = "BARRIER" /\ BarrierLegal(me.at, wall, me.walls, me.used)
         /\ Walled(wall)
      \/ /\ decision.type = "BARRIER" /\ ~BarrierLegal(me.at, wall, me.walls, me.used)
         /\ Raises
      \/ /\ decision.type # "BARRIER" /\ StepOk("police", decision.dir)
         /\ Landed(decision.dir)
      \/ /\ decision.type # "BARRIER" /\ ~StepOk("police", decision.dir)
         /\ Raises
  BY DEF CopTurn, WallOf
<1>6. Goes(Setting, Now) = CopGoes(Setting, Now)
  BY <1>1, NowIs DEF Goes
<1> HIDE DEF decision
<1>7. CASE decision.type = "BARRIER" /\ BarrierLegal(me.at, wall, me.walls, me.used)
  <2> DEFINE o == WallIn(own, wall)
             k == IF CaptureByBarrier(wall, own["thief"].at) THEN Capture("barrier")
                  ELSE IF Jailed(own["thief"].at, own["thief"].walls \cup {wall})
                  THEN Capture("jailed") ELSE Playing
  <2>0. Walled(wall)
    BY <1>5, <1>7
  <2>1. own' = o
    BY <2>0 DEF Walled, Built, WallIn
  <2>2. outcome' = k
    BY <2>0 DEF Walled
  <2>3. field' = FieldAfter(Setting, Now, "police", o)
    BY <2>0, <2>1, NowIs DEF Walled, Emits, FieldAfter, Setting
  <2>4. snap' = SnapAfter(Setting, Now, "police", o)
    BY <2>0, <2>3, NowIs DEF Walled, Emits, SnapAfter
  <2>5. CopGoes(Setting, Now) = Emitting(Setting, Now, "police", o, counter, copSteps + 1, k)
    BY <1>2, <1>7, NowIs DEF CopGoes
  <2> HIDE DEF o, k
  <2> QED BY <1>3, <1>4, <1>6, <2>1, <2>2, <2>3, <2>4, <2>5 DEF Emitting, Now
<1>8. CASE decision.type # "BARRIER" /\ StepOk("police", decision.dir)
  <2> DEFINE o == StepIn(own, "police", decision.dir)
             k == IF CaptureByLanding(o["police"].at, own["thief"].at)
                  THEN Capture("landing") ELSE Playing
  <2>0. Landed(decision.dir)
    BY <1>5, <1>8
  <2>1. own' = o
    BY <2>0 DEF Landed, Stepped, StepIn
  <2>2. outcome' = k
    BY <2>0, <2>1 DEF Landed
  <2>3. field' = FieldAfter(Setting, Now, "police", o)
    BY <2>0, <2>1, NowIs DEF Landed, Emits, FieldAfter, Setting
  <2>4. snap' = SnapAfter(Setting, Now, "police", o)
    BY <2>0, <2>3, NowIs DEF Landed, Emits, SnapAfter
  <2>5. CopGoes(Setting, Now) = Emitting(Setting, Now, "police", o, counter, copSteps + 1, k)
    BY <1>2, <1>8, NowIs DEF CopGoes, StepOk
  <2> HIDE DEF o, k
  <2> QED BY <1>3, <1>4, <1>6, <2>1, <2>2, <2>3, <2>4, <2>5 DEF Emitting, Now
<1>9. CASE Raises
  <2>1. own' = own /\ field' = field /\ snap' = snap /\ outcome' = Raised
    BY <1>9 DEF Raises
  <2>2. CASE \/ decision.type = "BARRIER" /\ ~BarrierLegal(me.at, wall, me.walls, me.used)
             \/ decision.type # "BARRIER" /\ ~StepOk("police", decision.dir)
    <3>1. CopGoes(Setting, Now) = Failing(Setting, Now, "police", copSteps + 1)
      BY <1>2, <2>2, NowIs DEF CopGoes, StepOk
    <3> QED BY <1>3, <1>4, <1>6, <2>1, <3>1, NowIs DEF Failing, Now
  <2> QED BY <1>5, <1>7, <1>8, <2>2
<1> QED BY <1>5, <1>7, <1>8, <1>9

\* The worlds a game from there goes through, up to the n-th.
Trace(s, from, w, n) ==
  /\ DOMAIN w = 0 .. n /\ w[0] = from
  /\ \A i \in 0 .. n - 1 : w[i].outcome = Playing /\ w[i + 1] = Goes(s, w[i])

\* The game has come to this world.
Reached(s, from, here) == \E n \in Nat : \E w : Trace(s, from, w, n) /\ w[n] = here

\* The game ends as it does in the row, and has come to this world.
Repeats(s, from, here, row) ==
  \E n \in Nat : \E w : \E i \in 0 .. n :
    /\ Trace(s, from, w, n) /\ w[i] = here
    /\ w[n].outcome.result = row.result /\ w[n].outcome.winner = row.winnerRole
    /\ w[n].outcome # Playing

LEMMA ReachedFirst ==
  ASSUME NEW s, NEW from
  PROVE  Reached(s, from, from)
<1> DEFINE w == [i \in 0 .. 0 |-> from]
<1>1. Trace(s, from, w, 0) /\ w[0] = from
  BY DEF Trace
<1> QED BY <1>1 DEF Reached

LEMMA ReachedNext ==
  ASSUME NEW s, NEW from, NEW here, Reached(s, from, here), here.outcome = Playing
  PROVE  Reached(s, from, Goes(s, here))
<1>1. PICK n \in Nat : \E w : Trace(s, from, w, n) /\ w[n] = here
  BY DEF Reached
<1>2. PICK w : Trace(s, from, w, n) /\ w[n] = here
  BY <1>1
<1> DEFINE v == [i \in 0 .. n + 1 |-> IF i = n + 1 THEN Goes(s, here) ELSE w[i]]
<1>3. DOMAIN v = 0 .. n + 1 /\ v[0] = from /\ v[n + 1] = Goes(s, here)
  BY <1>2 DEF Trace
<1>4. ASSUME NEW i \in 0 .. (n + 1) - 1
      PROVE  v[i].outcome = Playing /\ v[i + 1] = Goes(s, v[i])
  <2>1. v[i] = w[i] /\ i \in 0 .. n
    OBVIOUS
  <2>2. CASE i = n
    BY <1>2, <1>3, <2>1, <2>2
  <2>3. CASE i # n
    <3>1. i \in 0 .. n - 1 /\ v[i + 1] = w[i + 1]
      BY <2>1, <2>3
    <3> QED BY <1>2, <2>1, <3>1 DEF Trace
  <2> QED BY <2>2, <2>3
<1> HIDE DEF v
<1>5. Trace(s, from, v, n + 1) /\ v[n + 1] = Goes(s, here) /\ n + 1 \in Nat
  BY <1>3, <1>4 DEF Trace
<1> QED BY <1>5 DEF Reached

\* A game that has ended is begun again: it is bound to end so again.
LEMMA RepeatsFirst ==
  ASSUME NEW s, NEW from, NEW here, Reached(s, from, here), here.outcome # Playing,
         NEW row, row.result = here.outcome.result, row.winnerRole = here.outcome.winner
  PROVE  Repeats(s, from, from, row)
<1>1. PICK n \in Nat : \E w : Trace(s, from, w, n) /\ w[n] = here
  BY DEF Reached
<1>2. PICK w : Trace(s, from, w, n) /\ w[n] = here
  BY <1>1
<1>3. 0 \in 0 .. n /\ w[0] = from
  BY <1>2 DEF Trace
<1> QED BY <1>2, <1>3 DEF Repeats

LEMMA RepeatsNext ==
  ASSUME NEW s, NEW from, NEW here, NEW row, Repeats(s, from, here, row),
         here.outcome = Playing
  PROVE  Repeats(s, from, Goes(s, here), row)
<1>1. PICK n \in Nat : \E w : \E i \in 0 .. n :
        /\ Trace(s, from, w, n) /\ w[i] = here
        /\ w[n].outcome.result = row.result /\ w[n].outcome.winner = row.winnerRole
        /\ w[n].outcome # Playing
  BY DEF Repeats
<1>2. PICK w : \E i \in 0 .. n :
        /\ Trace(s, from, w, n) /\ w[i] = here
        /\ w[n].outcome.result = row.result /\ w[n].outcome.winner = row.winnerRole
        /\ w[n].outcome # Playing
  BY <1>1
<1>3. PICK i \in 0 .. n :
        /\ Trace(s, from, w, n) /\ w[i] = here
        /\ w[n].outcome.result = row.result /\ w[n].outcome.winner = row.winnerRole
        /\ w[n].outcome # Playing
  BY <1>2
<1>4. i \in 0 .. n - 1 /\ i + 1 \in 0 .. n
  BY <1>3
<1>5. w[i + 1] = Goes(s, here)
  BY <1>3, <1>4 DEF Trace
<1> QED BY <1>3, <1>4, <1>5 DEF Repeats

LEMMA RepeatsLast ==
  ASSUME NEW s, NEW from, NEW here, NEW row, Repeats(s, from, here, row),
         here.outcome # Playing
  PROVE  here.outcome.result = row.result /\ here.outcome.winner = row.winnerRole
<1>1. PICK n \in Nat : \E w : \E i \in 0 .. n :
        /\ Trace(s, from, w, n) /\ w[i] = here
        /\ w[n].outcome.result = row.result /\ w[n].outcome.winner = row.winnerRole
        /\ w[n].outcome # Playing
  BY DEF Repeats
<1>2. PICK w : \E i \in 0 .. n :
        /\ Trace(s, from, w, n) /\ w[i] = here
        /\ w[n].outcome.result = row.result /\ w[n].outcome.winner = row.winnerRole
        /\ w[n].outcome # Playing
  BY <1>1
<1>3. PICK i \in 0 .. n :
        /\ Trace(s, from, w, n) /\ w[i] = here
        /\ w[n].outcome.result = row.result /\ w[n].outcome.winner = row.winnerRole
        /\ w[n].outcome # Playing
  BY <1>2
<1>4. i = n
  <2>1. i \in 0 .. n - 1 => w[i].outcome = Playing
    BY <1>3 DEF Trace
  <2> QED BY <1>3, <2>1
<1> QED BY <1>3, <1>4

-----------------------------------------------------------------------------
(* The two games of a seed.                                                 *)

GameOutcome ==
  {Playing, Raised, Survival} \cup {Capture(kind) : kind \in {"landing", "barrier", "jailed"}}

Row ==
  [police : Agent, result : {"capture", "survival"}, winnerRole : Role, winner : Agent,
   steps : Nat, copSteps : Nat, kind : {"none", "landing", "barrier", "jailed"}]

\* The games of the first n seeds were mirrored.
Paired(n) == \A k \in 1 .. n : Swapped(rows[2 * k - 1], rows[2 * k])

MatchType ==
  /\ lead \in Agent /\ pair \in Nat /\ pair <= Pairs
  /\ rows \in Seq(Row) /\ counter \in Nat /\ copSteps \in Nat
  /\ outcome.result # "over" => outcome \in GameOutcome

\* Between two copies of one agent, B's game of a seed is A's over again.
MirrorInv ==
  /\ spec["A"] = spec["B"] /\ MatchType
  /\ IF outcome.result = "over"
     THEN Len(rows) = 2 * pair /\ Paired(pair)
     ELSE /\ pair >= 1
          /\ Len(rows) = IF lead = "A" THEN 2 * pair - 2 ELSE 2 * pair - 1
          /\ Paired(pair - 1)
          /\ lead = "A" => Reached(Setting, Fresh, Now)
          /\ lead = "B" => /\ Repeats(Setting, Fresh, Now, rows[2 * pair - 1])
                           /\ rows[2 * pair - 1].police = "A"
                           /\ rows[2 * pair - 1].winner
                                = IF rows[2 * pair - 1].winnerRole = "police" THEN "A" ELSE "B"

LEMMA MirrorInit == Init /\ spec["A"] = spec["B"] => MirrorInv
<1> SUFFICES ASSUME Init, spec["A"] = spec["B"] PROVE MirrorInv
  OBVIOUS
<1>1. MatchType
  BY LabAssumption DEF Init, MatchType, Agent, GameOutcome
<1>2. Now = Fresh
  BY DEF Init, Now, Fresh
<1>3. Reached(Setting, Fresh, Now)
  BY <1>2, ReachedFirst
<1>4. /\ outcome.result # "over" /\ pair = 1 /\ lead = "A" /\ Len(rows) = 0
      /\ Paired(0)
  BY DEF Init, Playing, Paired
<1> QED BY <1>1, <1>3, <1>4 DEF MirrorInv

\* The verdicts of a turn.
LEMMA TurnVerdicts ==
  ASSUME MatchType, ThiefTurn \/ CopTurn
  PROVE  /\ counter' \in Nat /\ copSteps' \in Nat /\ outcome' \in GameOutcome
         /\ outcome = Playing /\ UNCHANGED match
<1>1. CASE ThiefTurn
  <2>1. outcome' \in GameOutcome
    BY <1>1 DEF ThiefTurn, ThiefVerdict, Raises, GameOutcome
  <2>2. counter' \in Nat /\ copSteps' \in Nat
    BY <1>1 DEF ThiefTurn, RecordValidMove, RecordNothing, MatchType
  <2> QED BY <1>1, <2>1, <2>2 DEF ThiefTurn
<1>2. CASE CopTurn
  <2>1. outcome' \in GameOutcome
    BY <1>2 DEF CopTurn, Walled, Landed, Raises, GameOutcome
  <2>2. counter' \in Nat /\ copSteps' \in Nat
    BY <1>2 DEF CopTurn, RecordNothing, MatchType
  <2> QED BY <1>2, <2>1, <2>2 DEF CopTurn
<1> QED BY <1>1, <1>2

LEMMA OutcomesNamed ==
  /\ Playing.result = "playing" /\ Raised.result = "raised"
  /\ \A o \in GameOutcome :
       /\ o.result # "over"
       /\ o.result \in {"capture", "survival"} =>
            /\ o # Playing /\ o.kind \in {"none", "landing", "barrier", "jailed"}
            /\ o.winner = IF o.result = "capture" THEN "police" ELSE "thief"
BY DEF GameOutcome, Playing, Raised, Survival, Capture

LEMMA MirrorTurn ==
  ASSUME MirrorInv, ThiefTurn \/ CopTurn
  PROVE  MirrorInv'
<1>1. /\ counter' \in Nat /\ copSteps' \in Nat /\ outcome' \in GameOutcome
      /\ outcome = Playing /\ UNCHANGED match
  BY TurnVerdicts DEF MirrorInv
<1>2. outcome.result # "over" /\ outcome'.result # "over"
  BY <1>1, OutcomesNamed
<1>3. Now' = Goes(Setting, Now) /\ Now.outcome = Playing
  BY <1>1, ThiefTurnGoes, CopTurnGoes, NowIs
<1>4. Setting' = Setting /\ Fresh' = Fresh
  BY <1>1 DEF match, Setting, Fresh, BrainOf, FreshOwn, FreshSide, FreshMode, FreshConf, Seeded,
     NoScent
<1>5. MatchType'
  BY <1>1 DEF MirrorInv, MatchType, match
<1>6. \A n : Paired(n)' <=> Paired(n)
  BY <1>1 DEF Paired, match
<1>7. Reached(Setting, Fresh, Now) => Reached(Setting', Fresh', Now')
  BY <1>3, <1>4, ReachedNext
<1>8. \A row : Repeats(Setting, Fresh, Now, row) => Repeats(Setting', Fresh', Now', row)
  BY <1>3, <1>4, RepeatsNext
<1>9. rows' = rows /\ pair' = pair /\ lead' = lead /\ spec' = spec
  BY <1>1 DEF match
<1> QED BY <1>1, <1>2, <1>5, <1>6, <1>7, <1>8, <1>9 DEF MirrorInv

LEMMA RowTyped ==
  ASSUME MatchType, outcome.result \in {"capture", "survival"}
  PROVE  /\ RowOf \in Row
         /\ RowOf.police = lead /\ RowOf.result = outcome.result
         /\ RowOf.winnerRole = outcome.winner
         /\ RowOf.winnerRole = IF RowOf.result = "capture" THEN "police" ELSE "thief"
         /\ RowOf.winner = IF RowOf.winnerRole = "police" THEN lead ELSE OtherAgent(lead)
         /\ outcome # Playing
<1>1. outcome \in GameOutcome
  BY DEF MatchType
<1>2. /\ outcome # Playing /\ outcome.kind \in {"none", "landing", "barrier", "jailed"}
      /\ outcome.winner = IF outcome.result = "capture" THEN "police" ELSE "thief"
  BY <1>1, OutcomesNamed
<1>3. RowOf.winner = CASE outcome.winner = "police" -> lead
                       [] outcome.winner = "thief"  -> OtherAgent(lead)
                       [] OTHER                     -> "none"
  BY DEF RowOf
<1>4. RowOf.winner = IF outcome.winner = "police" THEN lead ELSE OtherAgent(lead)
  BY <1>2, <1>3
<1>5. /\ RowOf = [police |-> RowOf.police, result |-> RowOf.result,
                  winnerRole |-> RowOf.winnerRole, winner |-> RowOf.winner,
                  steps |-> RowOf.steps, copSteps |-> RowOf.copSteps, kind |-> RowOf.kind]
      /\ RowOf.police = lead /\ RowOf.result = outcome.result
      /\ RowOf.winnerRole = outcome.winner
      /\ RowOf.steps = counter /\ RowOf.copSteps = copSteps /\ RowOf.kind = outcome.kind
  BY DEF RowOf
<1>6. /\ RowOf.police \in Agent /\ RowOf.result \in {"capture", "survival"}
      /\ RowOf.winnerRole \in Role /\ RowOf.winner \in Agent
      /\ RowOf.steps \in Nat /\ RowOf.copSteps \in Nat
      /\ RowOf.kind \in {"none", "landing", "barrier", "jailed"}
  BY <1>2, <1>4, <1>5 DEF MatchType, Agent, OtherAgent, Role
<1>7. RowOf \in Row
  <2> HIDE DEF Row
  <2>1. [police |-> RowOf.police, result |-> RowOf.result,
         winnerRole |-> RowOf.winnerRole, winner |-> RowOf.winner,
         steps |-> RowOf.steps, copSteps |-> RowOf.copSteps, kind |-> RowOf.kind] \in Row
    BY <1>6 DEF Row
  <2> QED BY <1>5, <2>1
<1> QED BY <1>2, <1>4, <1>5, <1>7

\* A row more.
LEMMA RowAdded ==
  ASSUME MatchType, NEW row \in Row
  PROVE  /\ Append(rows, row) \in Seq(Row) /\ Len(Append(rows, row)) = Len(rows) + 1
         /\ Len(rows) \in Nat
         /\ \A i \in 1 .. Len(rows) : Append(rows, row)[i] = rows[i]
         /\ Append(rows, row)[Len(rows) + 1] = row
<1>1. rows \in Seq(Row)
  BY DEF MatchType
<1>2. Len(rows) \in Nat /\ DOMAIN rows = 1 .. Len(rows)
  BY <1>1, LenProperties
<1>3. /\ Append(rows, row) \in Seq(Row) /\ Len(Append(rows, row)) = Len(rows) + 1
      /\ \A i \in 1 .. Len(rows) : Append(rows, row)[i] = rows[i]
      /\ Append(rows, row)[Len(rows) + 1] = row
  BY <1>1, AppendProperties
<1> QED BY <1>2, <1>3

\* What NextGame makes of a world: the first one of a game, on the same coins
\* if the seed is the same.
LEMMA NextIsFresh ==
  ASSUME NextGame, Len(Append(rows, RowOf)) < 2 * Pairs
  PROVE  /\ Now' = Fresh' /\ rows' = Append(rows, RowOf) /\ lead' = OtherAgent(lead)
         /\ pair' = (IF lead = "B" THEN pair + 1 ELSE pair)
         /\ counter' = 0 /\ copSteps' = 0 /\ outcome' = Playing /\ UNCHANGED <<law, start, spec>>
         /\ lead = "A" => luck' = luck
<1>1. /\ rows' = Append(rows, RowOf) /\ Len(rows') < 2 * Pairs
      /\ own' = FreshOwn /\ field' = NoScent /\ snap' = NoScent
      /\ mode' = FreshMode /\ conf' = FreshConf /\ seen' = Seeded
      /\ counter' = 0 /\ copSteps' = 0
      /\ toMove' = "thief" /\ outcome' = Playing
      /\ lead' = OtherAgent(lead)
      /\ pair' = IF lead = "B" THEN pair + 1 ELSE pair
      /\ NextSeed /\ UNCHANGED <<law, start, spec>>
  BY DEF NextGame
<1>2. FreshOwn' = FreshOwn /\ FreshMode' = FreshMode /\ FreshConf' = FreshConf
      /\ Seeded' = Seeded /\ NoScent' = NoScent
  BY <1>1 DEF FreshOwn, FreshSide, FreshMode, FreshConf, Seeded, NoScent
<1>3. Now' = Fresh'
  BY <1>1, <1>2 DEF Now, Fresh
<1>4. lead = "A" => luck' = luck
  BY <1>1 DEF NextSeed
<1> QED BY <1>1, <1>3, <1>4

\* The coins and the classes of B's game are those of A's.
LEMMA SameSetting ==
  ASSUME NextGame, lead = "A", spec["A"] = spec["B"], Len(Append(rows, RowOf)) < 2 * Pairs
  PROVE  Setting' = Setting /\ Fresh' = Fresh
<1>1. lead' = "B" /\ luck' = luck /\ UNCHANGED <<law, start, spec>>
  BY NextIsFresh DEF OtherAgent
<1>2. \A r \in Role : BrainOf(r)' = BrainOf(r)
  BY <1>1 DEF BrainOf, OtherAgent, Role
<1>3. Setting' = Setting
  BY <1>1, <1>2 DEF Setting
<1>4. Fresh' = Fresh
  BY <1>1 DEF Fresh, FreshOwn, FreshSide, FreshMode, FreshConf, Seeded, NoScent
<1> QED BY <1>3, <1>4

LEMMA MirrorAfterA ==
  ASSUME MirrorInv, NextGame, lead = "A"
  PROVE  MirrorInv'
<1>0. MatchType /\ outcome.result \in {"capture", "survival"} /\ outcome.result # "over"
  BY DEF MirrorInv, NextGame
<1>1. /\ pair >= 1 /\ pair \in Nat /\ pair <= Pairs /\ Pairs \in Nat /\ Len(rows) = 2 * pair - 2
      /\ Paired(pair - 1) /\ Reached(Setting, Fresh, Now)
  BY <1>0, LabAssumption DEF MirrorInv, MatchType
<1>2. /\ RowOf \in Row /\ RowOf.police = "A" /\ RowOf.result = outcome.result
      /\ RowOf.winnerRole = outcome.winner /\ outcome # Playing
      /\ RowOf.winner = IF RowOf.winnerRole = "police" THEN "A" ELSE "B"
  BY <1>0, RowTyped DEF OtherAgent
<1>3. /\ Append(rows, RowOf) \in Seq(Row) /\ Len(Append(rows, RowOf)) = 2 * pair - 1
      /\ \A i \in 1 .. 2 * pair - 2 : Append(rows, RowOf)[i] = rows[i]
      /\ Append(rows, RowOf)[2 * pair - 1] = RowOf
  BY <1>0, <1>1, <1>2, RowAdded
<1>4. Len(Append(rows, RowOf)) < 2 * Pairs
  BY <1>1, <1>3
<1>5. /\ Now' = Fresh' /\ rows' = Append(rows, RowOf) /\ lead' = "B" /\ pair' = pair
      /\ counter' = 0 /\ copSteps' = 0 /\ outcome' = Playing /\ UNCHANGED <<law, start, spec>>
  BY <1>4, NextIsFresh DEF OtherAgent
<1>6. Setting' = Setting /\ Fresh' = Fresh
  BY <1>4, SameSetting DEF MirrorInv
<1>7. Repeats(Setting, Fresh, Fresh, RowOf)
  BY <1>1, <1>2, NowIs, RepeatsFirst
<1>8. Repeats(Setting', Fresh', Now', rows'[2 * pair' - 1])
  BY <1>3, <1>5, <1>6, <1>7
<1>9. MatchType'
  BY <1>1, <1>3, <1>5 DEF MatchType, Agent, GameOutcome
<1>10. Paired(pair - 1)'
  BY <1>1, <1>3, <1>5 DEF Paired
<1>11. outcome'.result # "over" /\ pair' >= 1 /\ Len(rows') = 2 * pair' - 1
  BY <1>1, <1>3, <1>5, OutcomesNamed DEF Playing
<1> QED BY <1>2, <1>3, <1>5, <1>8, <1>9, <1>10, <1>11 DEF MirrorInv

\* B's game of a seed ends as A's did.
LEMMA SwappedRows ==
  ASSUME MirrorInv, lead = "B",
         outcome.result \in {"capture", "survival"}
  PROVE  Swapped(rows[2 * pair - 1], RowOf)
<1> DEFINE first == rows[2 * pair - 1]
<1>1. /\ MatchType /\ outcome.result # "over"
      /\ pair >= 1 /\ pair \in Nat /\ Len(rows) = 2 * pair - 1
      /\ Repeats(Setting, Fresh, Now, first) /\ first.police = "A"
      /\ first.winner = IF first.winnerRole = "police" THEN "A" ELSE "B"
  BY DEF MirrorInv, MatchType
<1>2. /\ RowOf.police = "B" /\ RowOf.result = outcome.result
      /\ RowOf.winnerRole = outcome.winner /\ outcome # Playing
      /\ RowOf.winner = IF RowOf.winnerRole = "police" THEN "B" ELSE "A"
  BY <1>1, RowTyped DEF OtherAgent
<1>3. outcome.result = first.result /\ outcome.winner = first.winnerRole
  BY <1>1, <1>2, NowIs, RepeatsLast
<1> QED BY <1>1, <1>2, <1>3 DEF Swapped, Agent, OtherAgent

LEMMA MirrorAfterB ==
  ASSUME MirrorInv, NextGame, lead = "B"
  PROVE  MirrorInv'
<1>0. MatchType /\ outcome.result \in {"capture", "survival"} /\ outcome.result # "over"
  BY DEF MirrorInv, NextGame
<1>1. /\ pair >= 1 /\ pair \in Nat /\ pair <= Pairs /\ Pairs \in Nat /\ Len(rows) = 2 * pair - 1
      /\ Paired(pair - 1)
  BY <1>0, LabAssumption DEF MirrorInv, MatchType
<1>2. RowOf \in Row /\ Swapped(rows[2 * pair - 1], RowOf)
  BY <1>0, RowTyped, SwappedRows
<1>3. /\ Append(rows, RowOf) \in Seq(Row) /\ Len(Append(rows, RowOf)) = 2 * pair
      /\ \A i \in 1 .. 2 * pair - 1 : Append(rows, RowOf)[i] = rows[i]
      /\ Append(rows, RowOf)[2 * pair] = RowOf
  BY <1>0, <1>1, <1>2, RowAdded
<1>4. rows' = Append(rows, RowOf) /\ spec'["A"] = spec'["B"]
  BY DEF NextGame, MirrorInv
<1>5. \A k \in 1 .. pair : Swapped(rows'[2 * k - 1], rows'[2 * k])
  <2> SUFFICES ASSUME NEW k \in 1 .. pair PROVE Swapped(rows'[2 * k - 1], rows'[2 * k])
    OBVIOUS
  <2>1. CASE k = pair
    BY <1>1, <1>2, <1>3, <1>4, <2>1
  <2>2. CASE k # pair
    <3>1. k \in 1 .. pair - 1 /\ 2 * k - 1 \in 1 .. 2 * pair - 1 /\ 2 * k \in 1 .. 2 * pair - 1
      BY <1>1, <2>2
    <3> QED BY <1>1, <1>3, <1>4, <3>1 DEF Paired
  <2> QED BY <2>1, <2>2
<1>6. CASE Len(Append(rows, RowOf)) < 2 * Pairs
  <2>1. /\ Now' = Fresh' /\ lead' = "A" /\ pair' = pair + 1
        /\ counter' = 0 /\ copSteps' = 0 /\ outcome' = Playing
    BY <1>6, NextIsFresh DEF OtherAgent
  <2>2. Reached(Setting', Fresh', Now')
    BY <2>1, ReachedFirst
  <2>3. MatchType'
    BY <1>1, <1>3, <1>4, <1>6, <2>1 DEF MatchType, Agent, GameOutcome
  <2>4. outcome'.result # "over" /\ pair' >= 1 /\ Len(rows') = 2 * pair' - 2
    BY <1>1, <1>3, <1>4, <2>1, OutcomesNamed
  <2>5. Paired(pair - 1)'
    BY <1>1, <1>5, <2>1 DEF Paired
  <2> QED BY <1>4, <2>1, <2>2, <2>3, <2>4, <2>5 DEF MirrorInv
<1>7. CASE ~(Len(Append(rows, RowOf)) < 2 * Pairs)
  <2>1. /\ outcome' = [outcome EXCEPT !.result = "over"]
        /\ UNCHANGED <<counter, copSteps, pair, lead>>
    BY <1>4, <1>7 DEF NextGame
  <2>2. outcome'.result = "over"
    <3>1. outcome \in GameOutcome
      BY <1>0 DEF MatchType
    <3>2. "result" \in DOMAIN outcome
      BY <3>1 DEF GameOutcome, Playing, Raised, Survival, Capture
    <3> QED BY <2>1, <3>2
  <2>3. MatchType'
    BY <1>0, <1>3, <1>4, <2>1, <2>2 DEF MatchType
  <2>4. Paired(pair)' /\ Len(rows') = 2 * pair'
    BY <1>3, <1>4, <1>5, <2>1 DEF Paired
  <2> QED BY <1>4, <2>2, <2>3, <2>4 DEF MirrorInv
<1> QED BY <1>6, <1>7

LEMMA MirrorStep == MirrorInv /\ [Next]_vars => MirrorInv'
<1> SUFFICES ASSUME MirrorInv, [Next]_vars PROVE MirrorInv'
  OBVIOUS
<1>1. CASE ThiefTurn \/ CopTurn
  BY <1>1, MirrorTurn
<1>2. CASE NextGame
  <2>1. lead = "A" \/ lead = "B"
    BY DEF MirrorInv, MatchType, Agent
  <2> QED BY <1>2, <2>1, MirrorAfterA, MirrorAfterB
<1>3. CASE UNCHANGED vars
  <2>1. UNCHANGED <<law, start, spec, luck, pair, lead, own, field, snap, mode, conf, seen,
                    counter, copSteps, toMove, outcome, rows>>
    BY <1>3 DEF vars, world, match
  <2>2. Setting' = Setting /\ Fresh' = Fresh /\ Now' = Now
    BY <2>1 DEF Setting, Fresh, Now, BrainOf, FreshOwn, FreshSide, FreshMode, FreshConf, Seeded,
       NoScent
  <2>3. MatchType' /\ \A n : Paired(n)' <=> Paired(n)
    BY <2>1 DEF MirrorInv, MatchType, Paired
  <2> QED BY <2>1, <2>2, <2>3 DEF MirrorInv
<1> QED BY <1>1, <1>2, <1>3 DEF Next

LEMMA PairedIsMirrored ==
  ASSUME MirrorInv, outcome.result = "over"
  PROVE  Mirrored(pair)
<1>1. pair \in Nat /\ rows \in Seq(Row) /\ Len(rows) = 2 * pair /\ Paired(pair)
  BY DEF MirrorInv, MatchType
<1>2. DOMAIN rows = 1 .. 2 * pair
  BY <1>1, LenProperties
<1>3. ASSUME NEW i \in 1 .. 2 * pair PROVE Swapped(rows[i], rows[Twin(pair)[i]])
  <2>1. Twin(pair)[i] = IF i % 2 = 1 THEN i + 1 ELSE i - 1
    BY DEF Twin
  <2>2. CASE i % 2 = 1
    <3>1. PICK k \in 1 .. pair : i = 2 * k - 1
      <4>1. (i + 1) \div 2 \in 1 .. pair /\ i = 2 * ((i + 1) \div 2) - 1
        BY <1>1, <2>2
      <4> QED BY <4>1
    <3>2. i + 1 = 2 * k
      BY <3>1
    <3> QED BY <1>1, <2>1, <2>2, <3>1, <3>2 DEF Paired
  <2>3. CASE i % 2 # 1
    <3>1. PICK k \in 1 .. pair : i = 2 * k
      <4>1. i \div 2 \in 1 .. pair /\ i = 2 * (i \div 2)
        BY <1>1, <2>3
      <4> QED BY <4>1
    <3>2. i - 1 = 2 * k - 1
      BY <3>1
    <3>3. Swapped(rows[2 * k - 1], rows[2 * k])
      BY <1>1 DEF Paired
    <3>4. \A x, y : Swapped(x, y) => Swapped(y, x)
      BY DEF Swapped, Agent, OtherAgent
    <3> QED BY <2>1, <2>3, <3>1, <3>2, <3>3, <3>4
  <2> QED BY <2>2, <2>3
<1> QED BY <1>2, <1>3 DEF Mirrored

\* The promotion test is fair: an agent against a copy of itself wins exactly
\* half of the games with equal points, and the p-value is a half at least, for
\* every dialect, board, weight and number of seeds.
THEOREM MirrorsAreEven == Spec => []MirrorMatchIsEven
<1>1. Init => (spec["A"] = spec["B"] => MirrorInv)
  BY MirrorInit
<1>2. (spec["A"] = spec["B"] => MirrorInv) /\ [Next]_vars
        => (spec["A"] = spec["B"] => MirrorInv)'
  <2>1. [Next]_vars => spec' = spec
    BY DEF Next, ThiefTurn, CopTurn, NextGame, vars, match
  <2> QED BY <2>1, MirrorStep
<1>3. (spec["A"] = spec["B"] => MirrorInv) => MirrorMatchIsEven
  <2> SUFFICES ASSUME MirrorInv, outcome.result = "over"
               PROVE  /\ 2 * Summary.win_rate_A[1] = Summary.win_rate_A[2]
                      /\ Summary.points["A"] = Summary.points["B"]
                      /\ 2 * Summary.p_value_A[1] >= Summary.p_value_A[2]
    BY DEF MirrorMatchIsEven
  <2>1. pair \in Nat
    BY DEF MirrorInv, MatchType
  <2> QED BY <2>1, PairedIsMirrored, MirroredIsEven
<1> QED BY <1>1, <1>2, <1>3, PTL DEF Spec
=============================================================================

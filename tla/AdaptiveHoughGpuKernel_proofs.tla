--------------------- MODULE AdaptiveHoughGpuKernel_proofs ---------------------
(***************************************************************************)
(* What holds of the search of AdaptiveHoughGpuKernel for every event, any *)
(* precision, any wedges and any size of its two buffers.  The sections on *)
(* the stack and the sections done with are one tiling of the part of the  *)
(* accumulator that the wedge searches, whatever is counted in them; the   *)
(* rest follows from where the tiles lie and how often they were halved.   *)
(* That every point is searched is about the wedges alone, and that sort   *)
(* sorts and the check of the order of crossings keeps tracks about the    *)
(* operators of CrossingsSorter.                                           *)
(***************************************************************************)
EXTENDS AdaptiveHoughGpuKernel, SequenceTheorems, FiniteSetTheorems, WellFoundedInduction, TLAPS

-----------------------------------------------------------------------------
(* The inductive invariant.                                                *)

Sections ==
    [xSize : Nat, ySize : Nat, xBegin : Int, yBegin : Int, divisionLevel : Nat,
     indices : {<<>>}, counts : {0}]

Tiles ==
    [xBegin : Int, yBegin : Int, xSize : Nat, ySize : Nat,
     why : {"few", "parallel", "cell"}]

\* The part of the accumulator the present wedge searches.
Region == InitialSection(wedge - 1)

KernelTypeOK ==
    /\ kernelPc \in {"Called", "Searching", "Returned", "Aborted"}
    /\ kernelPc # "Called" => precision \in Precisions
    /\ wedge \in Nat
    /\ sections \in Seq(Sections)
    /\ closed \in SUBSET Tiles
    /\ accepted \in Seq(Sections)
    /\ DOMAIN solutions = 1 .. MaxSolutions
    /\ kernelPc = "Called" => sections = <<>> /\ wedgePoints = <<>>
    /\ wedge = 0 => sections = <<>> /\ closed = {} /\ wedgePoints = <<>>

\* c lies in d.
Within(c, d) ==
    /\ d.xBegin <= c.xBegin /\ c.xBegin + c.xSize <= d.xBegin + d.xSize
    /\ d.yBegin <= c.yBegin /\ c.yBegin + c.ySize <= d.yBegin + d.ySize

\* The sections on the stack and the closed ones do not overlap, and lie in the region.
StackIsTiled ==
    /\ \A i \in 1 .. Len(sections) :
           /\ Within(sections[i], Region)
           /\ \A j \in 1 .. Len(sections) : i # j => ~ Overlap(sections[i], sections[j])
           /\ \A c \in closed : ~ Overlap(sections[i], c) /\ ~ Overlap(c, sections[i])
    /\ \A c \in closed :
           /\ Within(c, Region)
           /\ \A d \in closed \ {c} : ~ Overlap(c, d)

\* A section is the whole range of q/pt, or on one side of q/pt = 0.
OnOneSide(s) ==
    \/ s.yBegin >= 0
    \/ s.yBegin + s.ySize <= 0
    \/ s.yBegin = Q_OVER_PT_BEGIN /\ s.ySize = Q_OVER_PT_END - Q_OVER_PT_BEGIN

SidesAreSeparate == \A i \in 1 .. Len(sections) : OnOneSide(sections[i])

SlotsInOrder == Len(accepted) <= MaxSolutions /\ SlotsHoldAcceptedCells

KernelInv ==
    /\ KernelTypeOK
    /\ StackIsTiled
    /\ SidesAreSeparate
    /\ SlotsInOrder

-----------------------------------------------------------------------------
(* How often a section can be halved.                                      *)

\* The region of every wedge has these sizes.
FullX == 2 * PhiReg(0).width
FullY == Q_OVER_PT_END - Q_OVER_PT_BEGIN

\* h[n] is at least the number of times n is halved until it is no more than limit.
CountsHalvings(h, limit) ==
    /\ h \in [Nat -> Nat]
    /\ \A n \in Nat : n > limit => h[n] >= h[n \div 2] + 1

\* Places a section that can be halved x times in x and y times in y needs on the
\* stack besides its own: three for each cut into four, one for each in two.
Needs(x, y) == x + y + IF x < y THEN x ELSE y

\* A section at place i of the stack finds the places it needs above it.
StackGrowsTo(depth, hx, hy) ==
    \A i \in 1 .. Len(sections) :
        i + Needs(hx[sections[i].xSize], hy[sections[i].ySize]) <= depth

StackBounded(depth, hx, hy) ==
    /\ CountsHalvings(hx, precision.x) /\ CountsHalvings(hy, precision.pt)
    /\ 1 + Needs(hx[FullX], hy[FullY]) <= depth
    /\ StackGrowsTo(depth, hx, hy)

StackInv == kernelPc # "Called" => \E hx, hy : StackBounded(MAX_SECTIONS_BUFFER_SIZE, hx, hy)

\* The buffer has a place for the region and for what halving it may need, whatever
\* the precision.
BufferSuffices ==
    \A p \in Precisions : \E hx, hy :
        /\ CountsHalvings(hx, p.x) /\ CountsHalvings(hy, p.pt)
        /\ 1 + Needs(hx[FullX], hy[FullY]) <= MAX_SECTIONS_BUFFER_SIZE

-----------------------------------------------------------------------------
(* Where halving is exact, nothing of the region is lost.                  *)

\* Halving stays within sizes, and is exact there, as long as it goes on.
HalvedExactly(sizes, limit) ==
    /\ sizes \subseteq Nat
    /\ \A n \in sizes : n > limit => n % 2 = 0 /\ n \div 2 \in sizes

\* The sizes that one precision lets a section have.
HalvedSizes(xs, ys, p) ==
    /\ HalvedExactly(xs, p.x) /\ HalvedExactly(ys, p.pt)
    /\ FullX \in xs /\ FullY \in ys

SizesAreHalved(xs, ys) ==
    \A i \in 1 .. Len(sections) : sections[i].xSize \in xs /\ sections[i].ySize \in ys

SizesInv ==
    kernelPc # "Called" =>
        \E xs, ys : HalvedSizes(xs, ys, precision) /\ SizesAreHalved(xs, ys)

\* The source halves doubles, which is exact; so is it in the model where the unit
\* of the accumulator is a small enough part of the region.
HalvingIsExact == \A p \in Precisions : \E xs, ys : HalvedSizes(xs, ys, p)

\* Every unit square of the region is in a section that is done with, or waits.
RegionIsCovered ==
    kernelPc = "Searching" /\ wedgePoints # <<>> =>
        \A x, y \in Int :
            Covers(Region, x, y) =>
                \/ \E c \in closed : Covers(c, x, y)
                \/ \E i \in 1 .. Len(sections) : Covers(sections[i], x, y)

-----------------------------------------------------------------------------
(* Sections, and the region of a wedge.                                    *)

\* What the assumptions say of single constants.
LEMMA ConstantFacts ==
    /\ PHI_BEGIN \in Int /\ PHI_END \in Int /\ PHI_BEGIN < PHI_END
    /\ Q_OVER_PT_BEGIN \in Int /\ Q_OVER_PT_END \in Int
    /\ Q_OVER_PT_BEGIN < Q_OVER_PT_END /\ Q_OVER_PT_BEGIN = -Q_OVER_PT_END
    /\ N_PHI_WEDGE \in Nat \ {0} /\ N_ETA_WEDGE \in Nat \ {0}
    /\ MAX_SECTIONS_BUFFER_SIZE \in Nat \ {0} /\ MaxSolutions \in Nat
    /\ excess_wedge_phi_width \in Nat /\ MinQOverPt \in Nat \ {0}
    /\ INVALID_PHI \in Int /\ INVALID_PHI < 2 * (PHI_BEGIN - excess_wedge_phi_width)
<1>1. /\ {PHI_BEGIN, PHI_END, Q_OVER_PT_BEGIN, Q_OVER_PT_END} \subseteq Int
      /\ PHI_BEGIN < PHI_END /\ Q_OVER_PT_BEGIN < Q_OVER_PT_END
    BY SorterAssumption, Zenon
<1>2. /\ PHI_BEGIN \in Int /\ PHI_END \in Int /\ Q_OVER_PT_BEGIN \in Int /\ Q_OVER_PT_END \in Int
    BY <1>1
<1>3. /\ N_PHI_WEDGE \in Nat \ {0} /\ N_ETA_WEDGE \in Nat \ {0}
      /\ MAX_SECTIONS_BUFFER_SIZE \in Nat \ {0} /\ MaxSolutions \in Nat
      /\ excess_wedge_phi_width \in Nat /\ MinQOverPt \in Nat \ {0}
      /\ Q_OVER_PT_BEGIN = -Q_OVER_PT_END
      /\ INVALID_PHI \in Int /\ INVALID_PHI < 2 * (PHI_BEGIN - excess_wedge_phi_width)
    BY KernelAssumption, Zenon
<1> QED BY <1>1, <1>2, <1>3, Zenon

\* Half of a size.
LEMMA HalfFacts ==
    ASSUME NEW n \in Nat
    PROVE  /\ n \div 2 \in Nat /\ n \div 1 = n
           /\ 2 * (n \div 2) <= n /\ n <= 2 * (n \div 2) + 1
           /\ n % 2 = 0 => n = 2 * (n \div 2)
    BY Z3

\* A natural number divided by one is one.
LEMMA QuotientFacts ==
    ASSUME NEW n \in Nat, NEW d \in Nat \ {0}
    PROVE  n \div d \in Nat
    BY Z3

\* The product of natural numbers is one.
LEMMA ProductFacts ==
    ASSUME NEW n \in Nat, NEW d \in Nat
    PROVE  n * d \in Nat
    BY Z3

\* The fields of a section.
LEMMA FieldFacts ==
    ASSUME NEW s \in Sections
    PROVE  /\ s.xSize \in Nat /\ s.ySize \in Nat /\ s.xBegin \in Int /\ s.yBegin \in Int
           /\ s.divisionLevel \in Nat /\ s.divisionLevel + 1 \in Nat
    BY DEF Sections

\* c is a section with these borders.
HasBorders(c, x, y, a, b) ==
    /\ c \in Sections
    /\ c.xSize = x /\ c.ySize = y /\ c.xBegin = a /\ c.yBegin = b

\* What the constructor makes.
LEMMA SectionFacts ==
    ASSUME NEW x \in Nat, NEW y \in Nat, NEW a \in Int, NEW b \in Int, NEW level \in Nat
    PROVE  HasBorders(Section(x, y, a, b, level), x, y, a, b)
    BY DEF Section, Sections, HasBorders

\* The region of every wedge is a section of the same size, which begins where the
\* range of angles does, or later.
LEMMA RegionFacts ==
    ASSUME NEW k \in Nat
    PROVE  /\ InitialSection(k) \in Sections
           /\ InitialSection(k).xSize = FullX /\ InitialSection(k).ySize = FullY
           /\ InitialSection(k).xBegin >= PHI_BEGIN - excess_wedge_phi_width
           /\ InitialSection(k).yBegin = Q_OVER_PT_BEGIN
<1> DEFINE w == (PHI_END - PHI_BEGIN) \div N_PHI_WEDGE
           n == k \div N_ETA_WEDGE
           half == w \div 2
           begin == PHI_BEGIN + w * n - excess_wedge_phi_width
<1>1. /\ PHI_END - PHI_BEGIN \in Nat /\ PHI_BEGIN \in Int
      /\ Q_OVER_PT_BEGIN \in Int /\ FullY \in Nat
      /\ N_PHI_WEDGE \in Nat \ {0} /\ N_ETA_WEDGE \in Nat \ {0}
      /\ excess_wedge_phi_width \in Nat
    BY ConstantFacts DEF FullY
<1>2. w \in Nat /\ n \in Nat
    BY <1>1, QuotientFacts
<1> HIDE DEF w, n
<1>3. half \in Nat /\ w * n \in Nat
    BY <1>2, HalfFacts, ProductFacts
<1>4. /\ PhiReg(k).width = half + excess_wedge_phi_width
      /\ PhiReg(0).width = half + excess_wedge_phi_width
      /\ PhiReg(k).center = PHI_BEGIN + w * n + half
    BY DEF PhiReg, Reg, w, n
<1> HIDE DEF half
<1>5. /\ PhiReg(k).center - PhiReg(k).width = begin
      /\ 2 * PhiReg(k).width = FullX /\ FullX \in Nat
    BY <1>1, <1>3, <1>4 DEF FullX
<1>6. begin \in Int /\ begin >= PHI_BEGIN - excess_wedge_phi_width
    BY <1>1, <1>3
<1> HIDE DEF begin
<1>7. InitialSection(k) = Section(FullX, FullY, begin, Q_OVER_PT_BEGIN, 0)
    BY <1>5 DEF InitialSection, FullY
<1>8. HasBorders(InitialSection(k), FullX, FullY, begin, Q_OVER_PT_BEGIN)
    BY <1>1, <1>5, <1>6, <1>7, SectionFacts
<1> QED BY <1>6, <1>8 DEF HasBorders
-----------------------------------------------------------------------------
(* The parts of a section.                                                 *)

\* Where the quarters and the halves of a section lie.
LEMMA PartFacts ==
    ASSUME NEW s \in Sections
    PROVE  LET x == s.xSize \div 2
               y == s.ySize \div 2
               a == s.xBegin + s.xSize - x
               b == s.yBegin + s.ySize - y
           IN  /\ HasBorders(bottomLeft(s, 2, 2), x, y, s.xBegin, s.yBegin)
               /\ HasBorders(topLeft(s, 2, 2), x, y, s.xBegin, b)
               /\ HasBorders(topRight(s, 2, 2), x, y, a, b)
               /\ HasBorders(bottomRight(s, 2, 2), x, y, a, s.yBegin)
               /\ HasBorders(left(s), x, s.ySize, s.xBegin, s.yBegin)
               /\ HasBorders(right(s), x, s.ySize, a, s.yBegin)
               /\ HasBorders(bottom(s), s.xSize, y, s.xBegin, s.yBegin)
               /\ HasBorders(top(s), s.xSize, y, s.xBegin, b)
<1> DEFINE x == s.xSize \div 2
           y == s.ySize \div 2
           a == s.xBegin + s.xSize - x
           b == s.yBegin + s.ySize - y
           level == s.divisionLevel + 1
<1>1. /\ x \in Nat /\ y \in Nat /\ level \in Nat
      /\ s.xSize \in Nat /\ s.xSize \div 1 = s.xSize
      /\ s.ySize \in Nat /\ s.ySize \div 1 = s.ySize
      /\ s.xBegin \in Int /\ s.yBegin \in Int
    BY HalfFacts, FieldFacts
<1>2. a \in Int /\ b \in Int
    <2> HIDE DEF x, y
    <2> QED BY <1>1
<1>3. /\ bottomLeft(s, 2, 2) = Section(x, y, s.xBegin, s.yBegin, level)
      /\ topLeft(s, 2, 2) = Section(x, y, s.xBegin, b, level)
      /\ topRight(s, 2, 2) = Section(x, y, a, b, level)
      /\ bottomRight(s, 2, 2) = Section(x, y, a, s.yBegin, level)
    BY DEF bottomLeft, topLeft, topRight, bottomRight
<1>4. /\ left(s) = Section(x, s.ySize, s.xBegin, s.yBegin, level)
      /\ right(s) = Section(x, s.ySize, a, s.yBegin, level)
      /\ bottom(s) = Section(s.xSize, y, s.xBegin, s.yBegin, level)
      /\ top(s) = Section(s.xSize, y, s.xBegin, b, level)
    BY <1>1 DEF left, right, bottom, top, bottomLeft, topLeft, bottomRight
<1> HIDE DEF x, y, a, b, level
<1>5. ASSUME NEW w \in Nat, NEW h \in Nat, NEW u \in Int, NEW v \in Int
      PROVE  HasBorders(Section(w, h, u, v, level), w, h, u, v)
    BY <1>1, SectionFacts
<1>6. /\ HasBorders(bottomLeft(s, 2, 2), x, y, s.xBegin, s.yBegin)
      /\ HasBorders(topLeft(s, 2, 2), x, y, s.xBegin, b)
      /\ HasBorders(topRight(s, 2, 2), x, y, a, b)
      /\ HasBorders(bottomRight(s, 2, 2), x, y, a, s.yBegin)
    BY <1>1, <1>2, <1>3, <1>5
<1>7. /\ HasBorders(left(s), x, s.ySize, s.xBegin, s.yBegin)
      /\ HasBorders(right(s), x, s.ySize, a, s.yBegin)
      /\ HasBorders(bottom(s), s.xSize, y, s.xBegin, s.yBegin)
      /\ HasBorders(top(s), s.xSize, y, s.xBegin, b)
    BY <1>1, <1>2, <1>4, <1>5
<1> QED BY <1>6, <1>7 DEF x, y, a, b

\* parts are sections cut out of s, which do not overlap and are on the sides it is on.
PartsOf(s, parts) ==
    /\ parts \in Seq(Sections)
    /\ \A i \in 1 .. Len(parts) :
           /\ Within(parts[i], s)
           /\ OnOneSide(s) => OnOneSide(parts[i])
           /\ \A j \in 1 .. Len(parts) : i # j => ~ Overlap(parts[i], parts[j])

\* A part by itself.
IsPart(p, s) == p \in Sections /\ Within(p, s) /\ (OnOneSide(s) => OnOneSide(p))
Apart(p, q) == ~ Overlap(p, q) /\ ~ Overlap(q, p)

\* Two parts that are apart make a cut.
LEMMA TwoParts ==
    ASSUME NEW s, NEW p, NEW q, IsPart(p, s), IsPart(q, s), Apart(p, q)
    PROVE  PartsOf(s, <<p, q>>)
<1> DEFINE parts == <<p, q>>
<1>1. parts \in Seq(Sections) /\ Len(parts) = 2 /\ parts[1] = p /\ parts[2] = q
    BY DEF IsPart
<1> HIDE DEF parts
<1>2. \A i \in 1 .. 2 : i = 1 \/ i = 2
    OBVIOUS
<1>3. \A i \in 1 .. 2 : IsPart(parts[i], s)
    BY <1>1, <1>2
<1>4. \A i, j \in 1 .. 2 : i # j => ~ Overlap(parts[i], parts[j])
    BY <1>1, <1>2 DEF Apart
<1> QED BY <1>1, <1>3, <1>4 DEF PartsOf, IsPart, parts

FourParts(s) == <<bottomLeft(s, 2, 2), topLeft(s, 2, 2), topRight(s, 2, 2), bottomRight(s, 2, 2)>>

\* Four parts that are apart make a cut.
LEMMA FourPartsOf ==
    ASSUME NEW s, NEW p, NEW q, NEW r, NEW t,
           IsPart(p, s), IsPart(q, s), IsPart(r, s), IsPart(t, s),
           Apart(p, q), Apart(p, r), Apart(p, t), Apart(q, r), Apart(q, t), Apart(r, t)
    PROVE  PartsOf(s, <<p, q, r, t>>)
<1> DEFINE parts == <<p, q, r, t>>
<1>1. /\ parts \in Seq(Sections) /\ Len(parts) = 4
      /\ parts[1] = p /\ parts[2] = q /\ parts[3] = r /\ parts[4] = t
    BY DEF IsPart
<1> HIDE DEF parts
<1>2. \A i \in 1 .. 4 : i = 1 \/ i = 2 \/ i = 3 \/ i = 4
    OBVIOUS
<1>3. \A i \in 1 .. 4 : IsPart(parts[i], s)
    BY <1>1, <1>2
<1>4. \A i, j \in 1 .. 4 : i # j => ~ Overlap(parts[i], parts[j])
    BY <1>1, <1>2 DEF Apart
<1> QED BY <1>1, <1>3, <1>4 DEF PartsOf, IsPart, parts

\* The parts a section is cut into are parts of it.
LEMMA CutsArePartsOf ==
    ASSUME NEW s \in Sections
    PROVE  /\ PartsOf(s, FourParts(s))
           /\ PartsOf(s, <<left(s), right(s)>>)
           /\ PartsOf(s, <<bottom(s), top(s)>>)
<1> DEFINE x == s.xSize \div 2
           y == s.ySize \div 2
           a == s.xBegin + s.xSize - x
           b == s.yBegin + s.ySize - y
<1>1. /\ x \in Nat /\ 2 * x <= s.xSize /\ y \in Nat /\ 2 * y <= s.ySize
      /\ s.xSize \in Nat /\ s.ySize \in Nat /\ s.xBegin \in Int /\ s.yBegin \in Int
    BY HalfFacts, FieldFacts
<1>2. /\ Q_OVER_PT_END \in Nat /\ Q_OVER_PT_BEGIN = -Q_OVER_PT_END
      /\ s.ySize = Q_OVER_PT_END - Q_OVER_PT_BEGIN => s.ySize = 2 * y
    <2>1. Q_OVER_PT_END \in Nat /\ Q_OVER_PT_BEGIN = -Q_OVER_PT_END
        BY ConstantFacts
    <2>2. s.ySize = 2 * Q_OVER_PT_END => s.ySize = 2 * y
        BY <1>1, <2>1, HalfFacts
    <2> QED BY <2>1, <2>2
<1>3. /\ HasBorders(bottomLeft(s, 2, 2), x, y, s.xBegin, s.yBegin)
      /\ HasBorders(topLeft(s, 2, 2), x, y, s.xBegin, b)
      /\ HasBorders(topRight(s, 2, 2), x, y, a, b)
      /\ HasBorders(bottomRight(s, 2, 2), x, y, a, s.yBegin)
      /\ HasBorders(left(s), x, s.ySize, s.xBegin, s.yBegin)
      /\ HasBorders(right(s), x, s.ySize, a, s.yBegin)
      /\ HasBorders(bottom(s), s.xSize, y, s.xBegin, s.yBegin)
      /\ HasBorders(top(s), s.xSize, y, s.xBegin, b)
    BY PartFacts
<1> HIDE DEF x, y
<1>4. ASSUME NEW p, NEW w \in Nat, NEW h \in Nat, NEW u \in Int, NEW v \in Int,
             HasBorders(p, w, h, u, v),
             \/ w = s.xSize /\ u = s.xBegin
             \/ w = x /\ u = s.xBegin
             \/ w = x /\ u = a,
             \/ h = s.ySize /\ v = s.yBegin
             \/ h = y /\ v = s.yBegin
             \/ h = y /\ v = b
      PROVE  IsPart(p, s)
    <2>1. Within(p, s)
        BY <1>1, <1>4 DEF Within, HasBorders
    <2>2. ASSUME s.yBegin >= 0 PROVE v >= 0
        BY <1>1, <1>4, <2>2
    <2>3. ASSUME s.yBegin + s.ySize <= 0 PROVE v + h <= 0
        BY <1>1, <1>4, <2>3
    <2>4. ASSUME s.yBegin = Q_OVER_PT_BEGIN, s.ySize = Q_OVER_PT_END - Q_OVER_PT_BEGIN
          PROVE  \/ v + h <= 0 \/ v >= 0
                 \/ v = Q_OVER_PT_BEGIN /\ h = Q_OVER_PT_END - Q_OVER_PT_BEGIN
        BY <1>1, <1>2, <1>4, <2>4
    <2>5. OnOneSide(s) => OnOneSide(p)
        BY <1>4, <2>2, <2>3, <2>4 DEF OnOneSide, HasBorders
    <2> QED BY <1>4, <2>1, <2>5 DEF IsPart, HasBorders
<1> DEFINE bl == bottomLeft(s, 2, 2)
           tl == topLeft(s, 2, 2)
           tr == topRight(s, 2, 2)
           br == bottomRight(s, 2, 2)
<1>5. a \in Int /\ b \in Int
    BY <1>1
<1>6. /\ IsPart(bl, s) /\ IsPart(tl, s) /\ IsPart(tr, s) /\ IsPart(br, s)
      /\ IsPart(left(s), s) /\ IsPart(right(s), s) /\ IsPart(bottom(s), s) /\ IsPart(top(s), s)
    <2> HIDE DEF a, b
    <2> QED BY <1>1, <1>3, <1>4, <1>5
<1>7. /\ Apart(bl, tl) /\ Apart(bl, tr) /\ Apart(bl, br)
      /\ Apart(tl, tr) /\ Apart(tl, br) /\ Apart(tr, br)
    BY <1>1, <1>3 DEF Apart, Overlap, HasBorders
<1>8. Apart(left(s), right(s)) /\ Apart(bottom(s), top(s))
    BY <1>1, <1>3 DEF Apart, Overlap, HasBorders
<1> HIDE DEF bl, tl, tr, br
<1>9. PartsOf(s, <<bl, tl, tr, br>>)
    BY <1>6, <1>7, FourPartsOf
<1>10. PartsOf(s, <<left(s), right(s)>>) /\ PartsOf(s, <<bottom(s), top(s)>>)
    BY <1>6, <1>8, TwoParts
<1> QED BY <1>9, <1>10 DEF bl, tl, tr, br, FourParts

-----------------------------------------------------------------------------
(* Counting lines does not move a section.                                 *)

SameBorders(c, s) ==
    /\ DOMAIN c = DOMAIN s
    /\ c.xBegin = s.xBegin /\ c.xSize = s.xSize
    /\ c.yBegin = s.yBegin /\ c.ySize = s.ySize

\* What a count writes into a section is not where it lies.
LEMMA CountedFacts ==
    ASSUME NEW s, {"xBegin", "xSize", "yBegin", "ySize"} \subseteq DOMAIN s,
           NEW indices, NEW counts, NEW number
    PROVE  SameBorders(Counted(s, indices, counts, number).section, s)
    BY DEF Counted, SameBorders

\* The count that fillAccumulatorSection makes leaves the section where it is.
LEMMA CountingKeepsBorders ==
    ASSUME NEW s \in Sections
    PROVE  SameBorders(CountOf(s).section, s)
<1>1. {"xBegin", "xSize", "yBegin", "ySize"} \subseteq DOMAIN s
    BY DEF Sections
<1> DEFINE hits(t) == FirstLines(t, LAMBDA p : TRUE)
           ofSide(t) == FirstLines(t, LAMBDA p : isPhiOnTheRightSide(t, p.phi))
           counter(t) == WithoutOutliers(ofSide(t))
<1>2. ASSUME NEW t PROVE countHits(t) = Counted(t, hits(t), CountsOf(Len(hits(t))), Len(hits(t)))
    BY DEF countHits
<1>3. ASSUME NEW t
      PROVE  \/ countHits_checkOrder(t) = Counted(t, ofSide(t), t.counts, 0)
             \/ countHits_checkOrder(t) = Counted(t, ofSide(t), 0, 0)
             \/ countHits_checkOrder(t) = Counted(t, ofSide(t), CountsOf(counter(t)), counter(t))
    BY DEF countHits_checkOrder
<1> HIDE DEF hits, right, counter
<1>4. SameBorders(countHits(s).section, s)
    BY <1>1, <1>2, CountedFacts
<1> DEFINE t == countHits(s).section
<1>5. {"xBegin", "xSize", "yBegin", "ySize"} \subseteq DOMAIN t
    BY <1>1, <1>4 DEF SameBorders
<1> HIDE DEF t
<1>6. SameBorders(countHits_checkOrder(t).section, t)
    BY <1>3, <1>5, CountedFacts
<1>7. \/ CountOf(s) = countHits(s)
      \/ CountOf(s) = countHits_checkOrder(t)
    BY DEF CountOf, t
<1> QED BY <1>4, <1>6, <1>7 DEF SameBorders, t

-----------------------------------------------------------------------------
(* The stack.                                                              *)

\* The top of the stack, and what is below it.
LEMMA TopFacts ==
    ASSUME NEW stack \in Seq(Sections), stack # <<>>
    PROVE  /\ Len(stack) \in Nat \ {0}
           /\ Last(stack) = stack[Len(stack)] /\ Last(stack) \in Sections
           /\ Front(stack) \in Seq(Sections) /\ Len(Front(stack)) = Len(stack) - 1
           /\ \A i \in 1 .. Len(stack) - 1 : Front(stack)[i] = stack[i]
<1>1. Len(stack) \in Nat \ {0} /\ \A i \in 1 .. Len(stack) : stack[i] \in Sections
    OBVIOUS
<1>2. Last(stack) = stack[Len(stack)] /\ Last(stack) \in Sections
    BY <1>1 DEF Last
<1> DEFINE m == Len(stack) - 1
<1>3. m \in Int /\ m \in Nat /\ 1 \in Int /\ \A i \in 1 .. m : stack[i] \in Sections
    BY <1>1
<1> HIDE DEF m
<1>4. /\ SubSeq(stack, 1, m) \in Seq(Sections)
      /\ Len(SubSeq(stack, 1, m)) = IF 1 <= m THEN m - 1 + 1 ELSE 0
      /\ \A i \in 1 .. m - 1 + 1 : SubSeq(stack, 1, m)[i] = stack[1 + i - 1]
    BY ONLY <1>3, SubSeqProperties
<1>5. /\ SubSeq(stack, 1, m) \in Seq(Sections) /\ Len(SubSeq(stack, 1, m)) = m
      /\ \A i \in 1 .. m : SubSeq(stack, 1, m)[i] = stack[i]
    BY <1>3, <1>4
<1> QED BY <1>1, <1>2, <1>5 DEF Front, m

\* What lies within a section overlaps nothing that the section does not.
LEMMA WithinFacts ==
    ASSUME NEW p \in Sections, NEW s \in Sections, Within(p, s),
           NEW c \in Sections \cup Tiles
    PROVE  /\ ~ Overlap(s, c) => ~ Overlap(p, c)
           /\ ~ Overlap(c, s) => ~ Overlap(c, p)
           /\ Within(s, c) => Within(p, c)
<1>1. \A d \in Sections \cup Tiles :
          d.xSize \in Nat /\ d.ySize \in Nat /\ d.xBegin \in Int /\ d.yBegin \in Int
    BY DEF Sections, Tiles
<1> QED BY <1>1 DEF Within, Overlap

-----------------------------------------------------------------------------
(* What a step of the search does to the stack.                            *)

\* The parts that come in the place of s; none of them if there is no room and
\* ASSURE_THAT throws.
Cut(s, parts) ==
    \/ parts = <<>> /\ kernelPc' = "Aborted"
    \/ Wide(s) /\ High(s) /\ parts = FourParts(s)
    \/ Wide(s) /\ ~ High(s) /\ parts = <<left(s), right(s)>>
    \/ ~ Wide(s) /\ High(s) /\ parts = <<bottom(s), top(s)>>

CutsTop(s, parts) ==
    /\ Cut(s, parts)
    /\ sections' = Front(sections) \o parts
    /\ UNCHANGED <<solutions, closed, accepted>>

\* s is done with; it may have become a solution.
ClosesTop(s) ==
    /\ \E why \in {"few", "parallel", "cell"} : Close(s, why)
    /\ sections' = Front(sections)
    /\ \/ UNCHANGED <<solutions, accepted>>
       \/ Accept(s) /\ addSolution(CountOf(s).section)

\* A step of the search cuts the top of the stack into its parts or is done with it.
LEMMA SearchStep ==
    ASSUME KernelTypeOK, fillAccumulatorSection, NEW s, s = Last(sections)
    PROVE  /\ sections # <<>> /\ s \in Sections
           /\ kernelPc = "Searching" /\ kernelPc' \in {"Searching", "Aborted"}
           /\ UNCHANGED <<precision, wedge, wedgePoints>>
           /\ (\E parts : CutsTop(s, parts) /\ PartsOf(s, parts)) \/ ClosesTop(s)
<1>1. /\ kernelPc = "Searching" /\ sections # <<>>
      /\ UNCHANGED <<precision, wedge, wedgePoints>>
      /\ Reject(s) \/ SplitIntoFour(s) \/ SplitInX(s) \/ SplitInY(s) \/ ExamineCell(s)
    BY DEF fillAccumulatorSection, kernelInput
<1>2. s \in Sections
    BY <1>1, TopFacts DEF KernelTypeOK
<1>3. ASSUME NEW parts, Push(parts), PartsOf(s, parts),
             \/ Wide(s) /\ High(s) /\ parts = FourParts(s)
             \/ Wide(s) /\ ~ High(s) /\ parts = <<left(s), right(s)>>
             \/ ~ Wide(s) /\ High(s) /\ parts = <<bottom(s), top(s)>>
      PROVE  /\ kernelPc' \in {"Searching", "Aborted"}
             /\ \E pushed : CutsTop(s, pushed) /\ PartsOf(s, pushed)
    <2>1. /\ kernelPc' \in {"Searching", "Aborted"}
          /\ UNCHANGED <<solutions, closed, accepted>>
        BY <1>1, <1>3 DEF Push
    <2>2. CASE sections' = Front(sections) \o parts
        BY <1>3, <2>1, <2>2 DEF CutsTop, Cut
    <2>3. CASE kernelPc' = "Aborted" /\ sections' = Front(sections) \o <<>>
        <3>1. PartsOf(s, <<>>)
            BY DEF PartsOf
        <3> QED BY <2>1, <2>3, <3>1 DEF CutsTop, Cut
    <2>4. \/ sections' = Front(sections) \o parts
          \/ kernelPc' = "Aborted" /\ sections' = Front(sections) \o <<>>
        BY <1>3 DEF Push
    <2> QED BY <2>1, <2>2, <2>3, <2>4
<1>4. CASE SplitIntoFour(s)
    BY <1>1, <1>2, <1>3, <1>4, CutsArePartsOf DEF SplitIntoFour, FourParts
<1>5. CASE SplitInX(s)
    BY <1>1, <1>2, <1>3, <1>5, CutsArePartsOf DEF SplitInX
<1>6. CASE SplitInY(s)
    BY <1>1, <1>2, <1>3, <1>6, CutsArePartsOf DEF SplitInY
<1>7. CASE Reject(s)
    <2>1. \E why \in {"few", "parallel", "cell"} : Close(s, why)
        BY <1>7 DEF Reject
    <2> QED BY <1>1, <1>2, <1>7, <2>1 DEF Reject, ClosesTop
<1>8. CASE ExamineCell(s)
    <2>1. Close(s, "cell") /\ sections' = Front(sections)
        BY <1>8 DEF ExamineCell
    <2>2. \/ UNCHANGED <<solutions, accepted>>
          \/ Accept(s) /\ addSolution(CountOf(s).section)
        BY <1>8 DEF ExamineCell
    <2>3. kernelPc' \in {"Searching", "Aborted"}
        BY <1>1, <1>8 DEF ExamineCell, addSolution
    <2> QED BY <1>1, <1>2, <2>1, <2>2, <2>3 DEF ClosesTop
<1> QED BY <1>1, <1>4, <1>5, <1>6, <1>7, <1>8

\* The stack after its top has been replaced by parts of it.
TopReplaced(s, parts, after) ==
    /\ after \in Seq(Sections)
    /\ s \in Sections /\ s = sections[Len(sections)] /\ Len(sections) \in Nat \ {0}
    /\ \A i \in 1 .. Len(sections) : sections[i] \in Sections
    /\ Len(parts) \in Nat
    /\ Len(after) = Len(sections) - 1 + Len(parts)
    /\ \A i \in 1 .. Len(after) :
           \/ /\ i \in 1 .. Len(sections) - 1 /\ after[i] = sections[i]
           \/ /\ i - (Len(sections) - 1) \in 1 .. Len(parts)
              /\ after[i] = parts[i - (Len(sections) - 1)]

\* The places of the stack after the parts have come on what is below the top.
LEMMA ReplacedFacts ==
    ASSUME KernelTypeOK, sections # <<>>, NEW parts \in Seq(Sections)
    PROVE  TopReplaced(Last(sections), parts, Front(sections) \o parts)
<1> DEFINE n == Len(sections) - 1
           front == Front(sections)
           after == front \o parts
           s == Last(sections)
<1>1. sections \in Seq(Sections)
    BY DEF KernelTypeOK
<1>2. /\ s \in Sections /\ s = sections[Len(sections)] /\ Len(sections) \in Nat \ {0}
      /\ front \in Seq(Sections) /\ Len(front) = n
      /\ \A i \in 1 .. n : front[i] = sections[i]
    BY <1>1, TopFacts
<1>3. \A i \in 1 .. Len(sections) : sections[i] \in Sections
    BY <1>1
<1>4. n \in Nat /\ n = Len(sections) - 1 /\ Len(parts) \in Nat
    BY <1>2
<1> HIDE DEF n, front, s
<1>5. /\ after \in Seq(Sections) /\ Len(after) = Len(front) + Len(parts)
      /\ \A i \in 1 .. Len(front) + Len(parts) :
             after[i] = IF i <= Len(front) THEN front[i] ELSE parts[i - Len(front)]
    BY ONLY <1>2, parts \in Seq(Sections), ConcatProperties
<1> HIDE DEF after
<1>6. /\ Len(after) = n + Len(parts)
      /\ \A i \in 1 .. Len(after) :
             \/ i \in 1 .. n /\ after[i] = sections[i]
             \/ i - n \in 1 .. Len(parts) /\ after[i] = parts[i - n]
    BY ONLY <1>2, <1>4, <1>5
<1>7. TopReplaced(s, parts, after)
    BY <1>2, <1>3, <1>4, <1>5, <1>6 DEF TopReplaced
<1> QED BY <1>7 DEF s, after, front

\* The parts of a section tile what it tiled.
LEMMA CuttingTiles ==
    ASSUME KernelTypeOK, StackIsTiled, SidesAreSeparate, sections # <<>>,
           NEW s, s = Last(sections), NEW parts, PartsOf(s, parts),
           sections' = Front(sections) \o parts, UNCHANGED <<closed, wedge>>
    PROVE  sections' \in Seq(Sections) /\ StackIsTiled' /\ SidesAreSeparate'
<1>1. /\ sections \in Seq(Sections) /\ parts \in Seq(Sections)
      /\ closed \subseteq Sections \cup Tiles
    BY DEF KernelTypeOK, PartsOf
<1> DEFINE n == Len(sections) - 1
           after == sections'
<1>2. TopReplaced(s, parts, after)
    BY <1>1, ReplacedFacts
<1>3. Region' = Region /\ Region \in Sections \cup Tiles
    <2>1. wedge - 1 \in Nat
        BY DEF KernelTypeOK
    <2> QED BY <2>1, RegionFacts DEF Region, InitialSection
<1> HIDE DEF after
<1>4. /\ n \in Nat /\ Len(sections) = n + 1 /\ n + 1 \in 1 .. Len(sections)
      /\ s = sections[n + 1] /\ s \in Sections
      /\ \A i \in 1 .. n : i \in 1 .. Len(sections) /\ i # n + 1 /\ sections[i] \in Sections
      /\ \A i \in 1 .. Len(after) :
             \/ i \in 1 .. n /\ after[i] = sections[i]
             \/ i - n \in 1 .. Len(parts) /\ after[i] = parts[i - n]
    <2>1. /\ s \in Sections /\ s = sections[Len(sections)] /\ Len(sections) \in Nat \ {0}
          /\ \A i \in 1 .. Len(sections) : sections[i] \in Sections
          /\ \A i \in 1 .. Len(after) :
                 \/ i \in 1 .. n /\ after[i] = sections[i]
                 \/ i - n \in 1 .. Len(parts) /\ after[i] = parts[i - n]
        BY <1>2 DEF TopReplaced
    <2>2. n \in Nat /\ Len(sections) = n + 1
        BY <2>1
    <2> HIDE DEF n
    <2>3. \A i \in 1 .. n : i \in 1 .. Len(sections) /\ i # n + 1
        BY <2>2
    <2>4. n + 1 \in 1 .. Len(sections)
        BY <2>2
    <2> QED BY <2>1, <2>2, <2>3, <2>4
<1> HIDE DEF n
<1>5. \A j \in 1 .. Len(parts) : parts[j] \in Sections /\ Within(parts[j], s)
    BY <1>1 DEF PartsOf
\* What was so of s is so of each of its parts.
<1>6. ASSUME NEW j \in 1 .. Len(parts), NEW c \in Sections \cup Tiles
      PROVE  /\ ~ Overlap(s, c) => ~ Overlap(parts[j], c)
             /\ ~ Overlap(c, s) => ~ Overlap(c, parts[j])
             /\ Within(s, c) => Within(parts[j], c)
    <2> DEFINE p == parts[j]
    <2>1. p \in Sections /\ Within(p, s)
        BY <1>5
    <2> HIDE DEF p
    <2>2. /\ ~ Overlap(s, c) => ~ Overlap(p, c)
          /\ ~ Overlap(c, s) => ~ Overlap(c, p)
          /\ Within(s, c) => Within(p, c)
        BY <1>4, <2>1, WithinFacts
    <2> QED BY <2>2 DEF p
<1>7. ASSUME NEW i \in 1 .. Len(after)
      PROVE  /\ Within(after[i], Region)
             /\ OnOneSide(after[i])
             /\ \A c \in closed : ~ Overlap(after[i], c) /\ ~ Overlap(c, after[i])
    <2>1. CASE i \in 1 .. n /\ after[i] = sections[i]
        BY <1>4, <2>1 DEF StackIsTiled, SidesAreSeparate
    <2>2. CASE i - n \in 1 .. Len(parts) /\ after[i] = parts[i - n]
        <3>1. /\ Within(s, Region) /\ OnOneSide(s)
              /\ \A c \in closed : ~ Overlap(s, c) /\ ~ Overlap(c, s)
            BY <1>4 DEF StackIsTiled, SidesAreSeparate
        <3>2. OnOneSide(after[i])
            BY <2>2, <3>1 DEF PartsOf
        <3> DEFINE j == i - n
        <3>3. j \in 1 .. Len(parts) /\ after[i] = parts[j]
            BY <2>2
        <3> HIDE DEF j
        <3>4. Within(after[i], Region)
            BY <1>3, <1>6, <3>1, <3>3
        <3>5. \A c \in closed : ~ Overlap(after[i], c) /\ ~ Overlap(c, after[i])
            BY <1>1, <1>6, <3>1, <3>3
        <3> QED BY <3>2, <3>4, <3>5
    <2> QED BY <1>4, <2>1, <2>2
<1>8. ASSUME NEW i \in 1 .. Len(after), NEW j \in 1 .. Len(after), i # j
      PROVE  ~ Overlap(after[i], after[j])
    <2>0. \A k \in 1 .. n : k - n \notin 1 .. Len(parts)
        BY <1>4
    <2>1. CASE i \in 1 .. n /\ j \in 1 .. n
        <3>1. after[i] = sections[i] /\ after[j] = sections[j]
            BY <1>4, <2>0, <2>1
        <3> QED BY <1>4, <1>8, <2>1, <3>1 DEF StackIsTiled
    <2>2. CASE i \in 1 .. n /\ j \notin 1 .. n
        <3> DEFINE k == j - n
        <3>1. k \in 1 .. Len(parts) /\ after[j] = parts[k] /\ after[i] = sections[i]
            BY <1>4, <2>0, <2>2
        <3> HIDE DEF k
        <3>2. ~ Overlap(sections[i], s)
            BY <1>4, <2>2 DEF StackIsTiled
        <3> QED BY <1>4, <1>6, <2>2, <3>1, <3>2
    <2>3. CASE i \notin 1 .. n /\ j \in 1 .. n
        <3> DEFINE k == i - n
        <3>1. k \in 1 .. Len(parts) /\ after[i] = parts[k] /\ after[j] = sections[j]
            BY <1>4, <2>0, <2>3
        <3> HIDE DEF k
        <3>2. ~ Overlap(s, sections[j])
            BY <1>4, <2>3 DEF StackIsTiled
        <3> QED BY <1>4, <1>6, <2>3, <3>1, <3>2
    <2>4. CASE i \notin 1 .. n /\ j \notin 1 .. n
        <3>1. /\ i - n \in 1 .. Len(parts) /\ after[i] = parts[i - n]
              /\ j - n \in 1 .. Len(parts) /\ after[j] = parts[j - n]
              /\ i - n # j - n
            BY <1>4, <1>8, <2>4
        <3> QED BY <3>1 DEF PartsOf
    <2> QED BY <2>1, <2>2, <2>3, <2>4
<1>9. \A c \in closed : Within(c, Region) /\ \A d \in closed \ {c} : ~ Overlap(c, d)
    BY DEF StackIsTiled
<1>10. closed' = closed
    OBVIOUS
<1>11. StackIsTiled'
    BY <1>3, <1>7, <1>8, <1>9, <1>10 DEF StackIsTiled, after
<1>12. SidesAreSeparate'
    BY <1>7 DEF SidesAreSeparate, after
<1> QED BY <1>2, <1>11, <1>12 DEF TopReplaced, after

\* The tile that remains of a section done with.
Tile(s, why) ==
    [xBegin |-> s.xBegin, yBegin |-> s.yBegin, xSize |-> s.xSize, ySize |-> s.ySize, why |-> why]

\* A section done with goes from one side of the tiling to the other.
LEMMA ClosingTiles ==
    ASSUME KernelTypeOK, StackIsTiled, SidesAreSeparate, sections # <<>>,
           NEW s, s = Last(sections), NEW why \in {"few", "parallel", "cell"}, Close(s, why),
           sections' = Front(sections), UNCHANGED wedge
    PROVE  /\ sections' \in Seq(Sections) /\ closed' \in SUBSET Tiles
           /\ StackIsTiled' /\ SidesAreSeparate'
<1> DEFINE n == Len(sections) - 1
           after == sections'
           tile == Tile(s, why)
<1>1. /\ sections \in Seq(Sections) /\ closed \subseteq Tiles
    BY DEF KernelTypeOK
<1>2. /\ s \in Sections /\ s = sections[n + 1] /\ n \in Nat /\ Len(sections) = n + 1
      /\ after \in Seq(Sections) /\ Len(after) = n
      /\ \A i \in 1 .. n : after[i] = sections[i]
    BY <1>1, TopFacts
<1>3. /\ tile \in Tiles /\ closed' = closed \cup {tile}
      /\ tile.xBegin = s.xBegin /\ tile.yBegin = s.yBegin
      /\ tile.xSize = s.xSize /\ tile.ySize = s.ySize
    BY <1>2 DEF Close, Tile, Tiles, Sections
<1>4. Region' = Region
    BY DEF Region, InitialSection
<1> HIDE DEF n, after, tile
<1>5. \A c : /\ Overlap(tile, c) <=> Overlap(s, c)
             /\ Overlap(c, tile) <=> Overlap(c, s)
             /\ Within(tile, c) <=> Within(s, c)
    BY <1>3 DEF Overlap, Within
<1>6. \A i \in 1 .. n : i \in 1 .. Len(sections) /\ i # n + 1 /\ after[i] = sections[i]
    BY <1>2
<1>7. n + 1 \in 1 .. Len(sections)
    BY <1>2
<1>8. ASSUME NEW i \in 1 .. n
      PROVE  /\ Within(after[i], Region) /\ OnOneSide(after[i])
             /\ \A j \in 1 .. n : i # j => ~ Overlap(after[i], after[j])
             /\ \A c \in closed \cup {tile} : ~ Overlap(after[i], c) /\ ~ Overlap(c, after[i])
    <2>1. /\ Within(sections[i], Region) /\ OnOneSide(sections[i])
          /\ \A j \in 1 .. Len(sections) : i # j => ~ Overlap(sections[i], sections[j])
          /\ \A c \in closed : ~ Overlap(sections[i], c) /\ ~ Overlap(c, sections[i])
          /\ ~ Overlap(s, sections[i])
        BY <1>2, <1>6, <1>7 DEF StackIsTiled, SidesAreSeparate
    <2> QED BY <1>2, <1>5, <1>6, <1>7, <2>1
<1>9. ASSUME NEW c \in closed \cup {tile}
      PROVE  Within(c, Region) /\ \A d \in (closed \cup {tile}) \ {c} : ~ Overlap(c, d)
    <2>1. /\ Within(s, Region)
          /\ \A d \in closed : ~ Overlap(s, d) /\ ~ Overlap(d, s)
        BY <1>2, <1>7 DEF StackIsTiled
    <2>2. CASE c \in closed
        BY <1>5, <2>1, <2>2 DEF StackIsTiled
    <2>3. CASE c = tile
        BY <1>5, <2>1, <2>3
    <2> QED BY <2>2, <2>3
<1>10. StackIsTiled'
    BY <1>2, <1>3, <1>4, <1>8, <1>9 DEF StackIsTiled, after
<1>11. SidesAreSeparate'
    BY <1>2, <1>8 DEF SidesAreSeparate, after
<1> QED BY <1>1, <1>2, <1>3, <1>10, <1>11 DEF after

-----------------------------------------------------------------------------
(* The solutions.                                                          *)

\* The slots that are free are those after the last that was filled, so the search
\* for one, from the beginning, finds the next; what it writes there does not look
\* like a free slot, since no angle of the region is INVALID_PHI.
LEMMA AcceptingFillsSlots ==
    ASSUME KernelTypeOK, StackIsTiled, SidesAreSeparate, SlotsInOrder, sections # <<>>,
           NEW s, s = Last(sections), Accept(s), addSolution(CountOf(s).section)
    PROVE  /\ accepted' \in Seq(Sections) /\ DOMAIN solutions' = 1 .. MaxSolutions
           /\ SlotsInOrder'
<1> DEFINE n == Len(accepted)
           c == CountOf(s).section
<1>1. s \in Sections /\ s = sections[Len(sections)] /\ Len(sections) \in 1 .. Len(sections)
    BY TopFacts DEF KernelTypeOK
<1>2. /\ s.xSize \in Nat /\ s.ySize \in Nat /\ s.xBegin \in Int /\ s.yBegin \in Int
      /\ Within(s, Region) /\ OnOneSide(s)
    BY <1>1, FieldFacts DEF StackIsTiled, SidesAreSeparate
<1>3. accepted \in Seq(Sections) /\ n \in 0 .. MaxSolutions /\ MaxSolutions \in Nat
    BY ConstantFacts DEF KernelTypeOK, SlotsInOrder
<1>4. SameBorders(c, s)
    BY <1>1, CountingKeepsBorders
<1> HIDE DEF n, c
<1>5. IsStraight(c) <=> IsStraight(s)
    BY <1>4 DEF IsStraight, SameBorders
<1>6. CASE IsStraight(s) \/ n = MaxSolutions
    <2>1. accepted' = accepted
        BY <1>6 DEF Accept, n
    <2>2. FreeSlots = {} \/ IsStraight(c)
        BY <1>3, <1>5, <1>6 DEF FreeSlots, SlotsInOrder, SlotsHoldAcceptedCells, n
    <2>3. solutions' = solutions
        BY <2>2 DEF addSolution, c
    <2> QED BY <2>1, <2>3 DEF KernelTypeOK, SlotsInOrder, SlotsHoldAcceptedCells, IsFreeSlot
<1>7. CASE ~ IsStraight(s) /\ n # MaxSolutions
    <2>1. accepted' = Append(accepted, s)
        BY <1>7 DEF Accept, n
    <2>2. n + 1 \in 1 .. MaxSolutions
        BY <1>3, <1>7
    <2>3. FreeSlots = n + 1 .. MaxSolutions
        BY <1>3 DEF FreeSlots, SlotsInOrder, SlotsHoldAcceptedCells, n
    <2>4. FirstFreeSlot = n + 1
        BY <1>3, <2>2, <2>3 DEF FirstFreeSlot
    <2>5. solutions' = [solutions EXCEPT ![n + 1] = SolutionOf(c)]
        BY <1>5, <1>7, <2>2, <2>3, <2>4 DEF addSolution, c
    <2> DEFINE solution == SolutionOf(c)
    <2>6. /\ solution.phi = 2 * s.xBegin + s.xSize
          /\ solution.pt[2] = Abs(2 * s.yBegin + s.ySize)
          /\ solution.q = IF 2 * s.yBegin + s.ySize < 0 THEN -1 ELSE 1
        BY <1>4 DEF SolutionOf, SameBorders
    <2> HIDE DEF solution
    <2>7. solution.phi # INVALID_PHI
        <3>1. wedge - 1 \in Nat
            BY DEF KernelTypeOK
        <3>2. s.xBegin >= Region.xBegin /\ Region.xBegin \in Int
              /\ Region.xBegin >= PHI_BEGIN - excess_wedge_phi_width
            BY <1>2, <3>1, RegionFacts, FieldFacts DEF Region, Within
        <3>3. /\ INVALID_PHI < 2 * (PHI_BEGIN - excess_wedge_phi_width)
              /\ PHI_BEGIN \in Int /\ excess_wedge_phi_width \in Nat /\ INVALID_PHI \in Int
            BY ConstantFacts
        <3> QED BY <1>2, <2>6, <3>2, <3>3
    <2>8. solution.q = 1 <=> s.yBegin >= 0
        <3>1. 2 * s.yBegin + s.ySize # 0
            <4>1. Abs(0) = 0
                BY DEF Abs
            <4>2. 0 < 2 * MinQOverPt
                BY ConstantFacts
            <4> QED BY <1>7, <4>1, <4>2 DEF IsStraight
        <3>2. s.yBegin = Q_OVER_PT_BEGIN /\ s.ySize = Q_OVER_PT_END - Q_OVER_PT_BEGIN
                  => 2 * s.yBegin + s.ySize = 0
            BY ConstantFacts
        <3>3. s.yBegin >= 0 \/ s.yBegin + s.ySize <= 0
            BY <1>2, <3>1, <3>2 DEF OnOneSide
        <3> QED BY <1>2, <2>6, <3>1, <3>3
    <2>9. /\ accepted' \in Seq(Sections) /\ Len(accepted') = n + 1
          /\ accepted'[n + 1] = s
          /\ \A k \in 1 .. n : accepted'[k] = accepted[k]
        BY <1>1, <1>3, <2>1 DEF n
    <2>10. /\ DOMAIN solutions' = 1 .. MaxSolutions /\ solutions'[n + 1] = solution
           /\ \A k \in (1 .. MaxSolutions) \ {n + 1} : solutions'[k] = solutions[k]
        BY <2>2, <2>5 DEF KernelTypeOK, solution
    <2>11. ASSUME NEW k \in 1 .. MaxSolutions
           PROVE  IF k > n + 1 THEN solutions'[k].phi = INVALID_PHI
                  ELSE /\ solutions'[k].phi # INVALID_PHI
                       /\ solutions'[k].phi = 2 * accepted'[k].xBegin + accepted'[k].xSize
                       /\ solutions'[k].pt[2] = Abs(2 * accepted'[k].yBegin + accepted'[k].ySize)
                       /\ solutions'[k].q = 1 <=> accepted'[k].yBegin >= 0
        <3>1. CASE k = n + 1
            BY <1>3, <2>6, <2>7, <2>8, <2>9, <2>10, <3>1
        <3>2. CASE k > n + 1
            <4>1. solutions'[k] = solutions[k] /\ k > n
                BY <1>3, <2>10, <3>2
            <4> QED BY <3>2, <4>1 DEF SlotsInOrder, SlotsHoldAcceptedCells, IsFreeSlot, n
        <3>3. CASE k <= n
            <4>1. solutions'[k] = solutions[k] /\ accepted'[k] = accepted[k] /\ ~ (k > n + 1)
                BY <1>3, <2>9, <2>10, <3>3
            <4> QED BY <3>3, <4>1 DEF SlotsInOrder, SlotsHoldAcceptedCells, IsFreeSlot, n
        <3> QED BY <1>3, <3>1, <3>2, <3>3
    <2>12. Len(accepted') <= MaxSolutions
        BY <2>2, <2>9
    <2> QED BY <2>9, <2>10, <2>11, <2>12 DEF SlotsInOrder, SlotsHoldAcceptedCells, IsFreeSlot
<1> QED BY <1>3, <1>6, <1>7

-----------------------------------------------------------------------------
(* The invariant of the search.                                            *)

\* Before the call there is no tile and no solution.
LEMMA KernelInitInv == KernelInit => KernelInv
<1> SUFFICES ASSUME KernelInit PROVE KernelInv
    OBVIOUS
<1>1. sections = <<>> /\ closed = {} /\ accepted = <<>>
    BY DEF KernelInit
<1>2. KernelTypeOK
    <2>1. <<>> \in Seq(Sections)
        OBVIOUS
    <2> QED BY <2>1 DEF KernelInit, KernelTypeOK
<1>3. StackIsTiled /\ SidesAreSeparate
    BY <1>1 DEF StackIsTiled, SidesAreSeparate
<1>4. SlotsInOrder
    <2>1. Len(accepted) = 0 /\ MaxSolutions \in Nat
        BY <1>1, ConstantFacts
    <2>2. \A k \in 1 .. MaxSolutions : solutions[k].phi = INVALID_PHI
        BY DEF KernelInit, NoSolution
    <2> QED BY <2>1, <2>2 DEF SlotsInOrder, SlotsHoldAcceptedCells, IsFreeSlot
<1> QED BY <1>2, <1>3, <1>4 DEF KernelInv

\* A wedge is begun with one section, the region.
LEMMA EnterWedgeKeeps ==
    ASSUME KernelInv, EnterWedge
    PROVE  KernelInv'
<1> USE DEF KernelInv
<1>1. /\ kernelPc = "Searching" /\ wedge' = wedge + 1 /\ closed' = {}
      /\ sections' = <<>> \/ sections' = <<InitialSection(wedge)>>
      /\ UNCHANGED <<kernelPc, precision, solutions, accepted>>
    BY DEF EnterWedge, kernelInput
<1>2. wedge \in Nat /\ wedge + 1 - 1 = wedge /\ wedge' # 0
    BY <1>1 DEF KernelTypeOK
<1>3. /\ InitialSection(wedge) \in Sections
      /\ InitialSection(wedge).ySize = FullY /\ InitialSection(wedge).yBegin = Q_OVER_PT_BEGIN
    BY <1>2, RegionFacts
<1>4. Region' = InitialSection(wedge)
    BY <1>1, <1>2 DEF Region, InitialSection
<1> DEFINE region == InitialSection(wedge)
           after == sections'
<1>5. region \in Sections /\ Within(region, region) /\ OnOneSide(region)
    BY <1>3, FieldFacts DEF Within, OnOneSide, FullY
<1> HIDE DEF region, after
<1>6. after \in Seq(Sections) /\ \A i \in 1 .. Len(after) : i = 1 /\ after[i] = region
    <2>1. CASE after = <<>>
        BY <2>1
    <2>2. CASE after = <<region>>
        BY <1>5, <2>2
    <2> QED BY <1>1, <2>1, <2>2 DEF after, region
<1>7. KernelTypeOK'
    BY <1>1, <1>2, <1>6 DEF KernelTypeOK, after
<1>8. StackIsTiled' /\ SidesAreSeparate'
    BY <1>1, <1>4, <1>5, <1>6 DEF StackIsTiled, SidesAreSeparate, after, region
<1>9. SlotsInOrder'
    BY <1>1 DEF SlotsInOrder, SlotsHoldAcceptedCells, IsFreeSlot
<1> QED BY <1>7, <1>8, <1>9

\* A section is cut, dropped or examined.
LEMMA SearchStepKeeps ==
    ASSUME KernelInv, fillAccumulatorSection
    PROVE  KernelInv'
<1> USE DEF KernelInv
<1> DEFINE s == Last(sections)
<1>1. s = Last(sections)
    OBVIOUS
<1> HIDE DEF s
<1>2. /\ sections # <<>> /\ s \in Sections
      /\ kernelPc = "Searching" /\ kernelPc' \in {"Searching", "Aborted"}
      /\ UNCHANGED <<precision, wedge, wedgePoints>>
      /\ (\E parts : CutsTop(s, parts) /\ PartsOf(s, parts)) \/ ClosesTop(s)
    BY <1>1, SearchStep
<1>3. ASSUME NEW parts, CutsTop(s, parts), PartsOf(s, parts)
      PROVE  KernelInv'
    <2>1. sections' = Front(sections) \o parts /\ UNCHANGED <<solutions, closed, accepted>>
        BY <1>3 DEF CutsTop
    <2>2. sections' \in Seq(Sections) /\ StackIsTiled' /\ SidesAreSeparate'
        BY <1>1, <1>2, <1>3, <2>1, CuttingTiles
    <2>3. KernelTypeOK'
        BY <1>2, <2>1, <2>2 DEF KernelTypeOK
    <2>4. SlotsInOrder'
        BY <2>1 DEF SlotsInOrder, SlotsHoldAcceptedCells, IsFreeSlot
    <2> QED BY <2>2, <2>3, <2>4
<1>4. ASSUME ClosesTop(s)
      PROVE  KernelInv'
    <2>1. PICK why \in {"few", "parallel", "cell"} : Close(s, why)
        BY <1>4 DEF ClosesTop
    <2>2. /\ sections' = Front(sections)
          /\ \/ UNCHANGED <<solutions, accepted>>
             \/ Accept(s) /\ addSolution(CountOf(s).section)
        BY <1>4 DEF ClosesTop
    <2>3. /\ sections' \in Seq(Sections) /\ closed' \in SUBSET Tiles
          /\ StackIsTiled' /\ SidesAreSeparate'
        BY <1>1, <1>2, <2>1, <2>2, ClosingTiles
    <2>4. /\ accepted' \in Seq(Sections) /\ DOMAIN solutions' = 1 .. MaxSolutions
          /\ SlotsInOrder'
        <3>1. CASE UNCHANGED <<solutions, accepted>>
            BY <3>1 DEF KernelTypeOK, SlotsInOrder, SlotsHoldAcceptedCells, IsFreeSlot
        <3>2. CASE Accept(s) /\ addSolution(CountOf(s).section)
            BY <1>1, <1>2, <3>2, AcceptingFillsSlots
        <3> QED BY <2>2, <3>1, <3>2
    <2>5. wedge # 0
        BY <1>2 DEF KernelTypeOK
    <2>6. KernelTypeOK'
        BY <1>2, <2>3, <2>4, <2>5 DEF KernelTypeOK
    <2> QED BY <2>3, <2>4, <2>6
<1> QED BY <1>2, <1>3, <1>4

\* The other steps leave the tiling and the solutions alone.
LEMMA OtherStepKeeps ==
    ASSUME KernelInv, CallKernel \/ LastWedgeDone \/ UNCHANGED kernelVars
    PROVE  KernelInv'
<1>1. /\ UNCHANGED <<wedge, wedgePoints, sections, solutions, closed, accepted>>
      /\ kernelPc' = "Searching" \/ kernelPc' = "Returned" \/ kernelPc' = kernelPc
      /\ kernelPc' # "Called" => precision' \in Precisions
      /\ kernelPc' = "Called" => kernelPc = "Called"
    BY DEF CallKernel, LastWedgeDone, kernelVars, kernelInput, KernelInv, KernelTypeOK
<1>2. Region' = Region
    BY <1>1 DEF Region, InitialSection
<1>3. StackIsTiled' /\ SidesAreSeparate' /\ SlotsInOrder'
    BY <1>1, <1>2 DEF KernelInv, StackIsTiled, SidesAreSeparate, SlotsInOrder,
                     SlotsHoldAcceptedCells, IsFreeSlot
<1>4. KernelTypeOK'
    BY <1>1 DEF KernelInv, KernelTypeOK
<1> QED BY <1>3, <1>4 DEF KernelInv

\* The invariant holds of every search.
LEMMA KernelInvHolds == KernelSpec => []KernelInv
<1>1. KernelInv /\ [KernelNext]_kernelVars => KernelInv'
    BY EnterWedgeKeeps, SearchStepKeeps, OtherStepKeeps DEF KernelNext, KernelStep
<1> QED BY <1>1, KernelInitInv, PTL DEF KernelSpec

\* The slots of the buffer hold the accepted cells in the order of the search: the
\* slots that addSolution takes are found from the front, and every one it fills
\* looks taken from then on (AdaptiveHoughGpuKernel.cpp:402-432).
THEOREM SlotsAlwaysHoldAcceptedCells == KernelSpec => []SlotsHoldAcceptedCells
<1>1. KernelInv => SlotsHoldAcceptedCells
    BY DEF KernelInv, SlotsInOrder
<1> QED BY <1>1, KernelInvHolds, PTL

\* At any time, for any precision and any counts of lines, the sections on the
\* stack and those done with do not overlap and lie in the region of the wedge: no
\* place of the accumulator is searched twice (AdaptiveHoughGpuKernel.cpp:119-180).
THEOREM SectionsNeverOverlap == KernelSpec => []StackIsTiled
<1>1. KernelInv => StackIsTiled
    BY DEF KernelInv
<1> QED BY <1>1, KernelInvHolds, PTL

-----------------------------------------------------------------------------
(* The size of the stack.                                                  *)

\* The sizes of the parts a section is cut into, by which of its sizes are halved.
PartSizes(s, parts, x, y) ==
    \A i \in 1 .. Len(parts) : parts[i].xSize = x /\ parts[i].ySize = y

\* A cut halves the sizes that are over the precision.
LEMMA CutSizes ==
    ASSUME NEW s \in Sections, NEW parts, Cut(s, parts)
    PROVE  \/ Len(parts) = 0
           \/ /\ s.xSize > precision.x /\ s.ySize > precision.pt
              /\ Len(parts) = 4 /\ PartSizes(s, parts, s.xSize \div 2, s.ySize \div 2)
           \/ /\ s.xSize > precision.x
              /\ Len(parts) = 2 /\ PartSizes(s, parts, s.xSize \div 2, s.ySize)
           \/ /\ s.ySize > precision.pt
              /\ Len(parts) = 2 /\ PartSizes(s, parts, s.xSize, s.ySize \div 2)
<1> DEFINE x == s.xSize \div 2
           y == s.ySize \div 2
           a == s.xBegin + s.xSize - x
           b == s.yBegin + s.ySize - y
           bl == bottomLeft(s, 2, 2)
           tl == topLeft(s, 2, 2)
           tr == topRight(s, 2, 2)
           br == bottomRight(s, 2, 2)
<1>1. /\ HasBorders(bl, x, y, s.xBegin, s.yBegin)
      /\ HasBorders(tl, x, y, s.xBegin, b)
      /\ HasBorders(tr, x, y, a, b)
      /\ HasBorders(br, x, y, a, s.yBegin)
      /\ HasBorders(left(s), x, s.ySize, s.xBegin, s.yBegin)
      /\ HasBorders(right(s), x, s.ySize, a, s.yBegin)
      /\ HasBorders(bottom(s), s.xSize, y, s.xBegin, s.yBegin)
      /\ HasBorders(top(s), s.xSize, y, s.xBegin, b)
    BY PartFacts
<1> HIDE DEF x, y, a, b, bl, tl, tr, br
<1>2. CASE parts = <<>>
    BY <1>2
<1>3. CASE Wide(s) /\ High(s) /\ parts = FourParts(s)
    <2>1. parts = <<bl, tl, tr, br>>
        BY <1>3 DEF FourParts, bl, tl, tr, br
    <2>2. /\ Len(parts) = 4 /\ parts[1] = bl /\ parts[2] = tl /\ parts[3] = tr /\ parts[4] = br
          /\ \A i \in 1 .. 4 : i = 1 \/ i = 2 \/ i = 3 \/ i = 4
        BY <2>1
    <2>3. PartSizes(s, parts, x, y)
        BY <1>1, <2>2 DEF PartSizes, HasBorders
    <2> QED BY <1>3, <2>2, <2>3 DEF Wide, High, x, y
<1>4. ASSUME NEW p, NEW q, parts = <<p, q>>, NEW w, NEW h,
             p.xSize = w, q.xSize = w, p.ySize = h, q.ySize = h
      PROVE  Len(parts) = 2 /\ PartSizes(s, parts, w, h)
    <2>1. /\ Len(parts) = 2 /\ parts[1] = p /\ parts[2] = q
          /\ \A i \in 1 .. 2 : i = 1 \/ i = 2
        BY <1>4
    <2> QED BY <1>4, <2>1 DEF PartSizes
<1>5. CASE Wide(s) /\ ~ High(s) /\ parts = <<left(s), right(s)>>
    <2>1. Len(parts) = 2 /\ PartSizes(s, parts, x, s.ySize)
        BY <1>1, <1>4, <1>5 DEF HasBorders
    <2> QED BY <1>5, <2>1 DEF Wide, x
<1>6. CASE ~ Wide(s) /\ High(s) /\ parts = <<bottom(s), top(s)>>
    <2>1. Len(parts) = 2 /\ PartSizes(s, parts, s.xSize, y)
        BY <1>1, <1>4, <1>6 DEF HasBorders
    <2> QED BY <1>6, <2>1 DEF High, y
<1> QED BY <1>2, <1>3, <1>5, <1>6 DEF Cut, x, y

\* Halving a size lowers what it needs by what the cut puts on the stack.
LEMMA NeedsFacts ==
    ASSUME NEW x \in Nat, NEW y \in Nat, NEW a \in Nat, NEW b \in Nat
    PROVE  /\ x >= a + 1 /\ y >= b + 1 => Needs(x, y) >= Needs(a, b) + 3
           /\ x >= a + 1 => Needs(x, y) >= Needs(a, y) + 1
           /\ y >= b + 1 => Needs(x, y) >= Needs(x, b) + 1
           /\ Needs(x, y) \in Nat
    BY DEF Needs

\* After a step every section still finds its places.
LEMMA StackStepKeeps ==
    ASSUME KernelInv, fillAccumulatorSection, NEW depth \in Nat, NEW hx, NEW hy,
           StackBounded(depth, hx, hy)
    PROVE  StackBounded(depth, hx, hy)'
<1> DEFINE s == Last(sections)
           n == Len(sections) - 1
           need(x, y) == Needs(hx[x], hy[y])
<1>1. s = Last(sections) /\ KernelTypeOK
    BY DEF KernelInv
<1> HIDE DEF s
<1>2. /\ sections # <<>> /\ s \in Sections /\ precision' = precision
      /\ (\E parts : CutsTop(s, parts) /\ PartsOf(s, parts)) \/ ClosesTop(s)
    BY <1>1, SearchStep
<1>3. /\ s = sections[n + 1] /\ n \in Nat /\ Len(sections) = n + 1
      /\ n + 1 \in 1 .. Len(sections) /\ \A i \in 1 .. n : i \in 1 .. Len(sections)
      /\ Len(Front(sections)) = n
      /\ \A i \in 1 .. n : Front(sections)[i] = sections[i]
    BY <1>1, <1>2, TopFacts DEF KernelTypeOK
<1>4. /\ s.xSize \in Nat /\ s.ySize \in Nat
      /\ s.xSize \div 2 \in Nat /\ s.ySize \div 2 \in Nat
    BY <1>2, FieldFacts, HalfFacts
<1>5. /\ CountsHalvings(hx, precision.x) /\ CountsHalvings(hy, precision.pt)
      /\ 1 + Needs(hx[FullX], hy[FullY]) <= depth
      /\ \A i \in 1 .. Len(sections) :
             i + need(sections[i].xSize, sections[i].ySize) <= depth
    BY DEF StackBounded, StackGrowsTo
<1> HIDE DEF n
<1>6. hx \in [Nat -> Nat] /\ hy \in [Nat -> Nat]
    BY <1>5 DEF CountsHalvings
<1>7. SUFFICES \A i \in 1 .. Len(sections') :
                   i + need(sections'[i].xSize, sections'[i].ySize) <= depth
    BY <1>2, <1>5 DEF StackBounded, StackGrowsTo, FullX, FullY, PhiReg, Reg
<1>8. ASSUME NEW parts, CutsTop(s, parts), PartsOf(s, parts)
      PROVE  \A i \in 1 .. Len(sections') :
                 i + need(sections'[i].xSize, sections'[i].ySize) <= depth
    <2>1. Cut(s, parts) /\ sections' = Front(sections) \o parts
        BY <1>8 DEF CutsTop
    <2>2. TopReplaced(s, parts, sections')
        BY <1>1, <1>2, <1>8, <2>1, ReplacedFacts DEF PartsOf
    <2>3. \A i \in 1 .. Len(sections') :
              \/ i \in 1 .. n /\ sections'[i] = sections[i]
              \/ i - n \in 1 .. Len(parts) /\ sections'[i] = parts[i - n]
        BY <2>2 DEF TopReplaced, n
    <2>4. n + 1 + need(s.xSize, s.ySize) <= depth
        BY <1>3, <1>5
    <2> DEFINE X == hx[s.xSize]
               Y == hy[s.ySize]
               A == hx[s.xSize \div 2]
               B == hy[s.ySize \div 2]
    <2>5. /\ X \in Nat /\ Y \in Nat /\ A \in Nat /\ B \in Nat
          /\ s.xSize > precision.x => X >= A + 1
          /\ s.ySize > precision.pt => Y >= B + 1
        BY <1>4, <1>5, <1>6 DEF CountsHalvings
    <2> HIDE DEF X, Y, A, B
    <2>6. /\ X >= A + 1 /\ Y >= B + 1 => Needs(X, Y) >= Needs(A, B) + 3
          /\ X >= A + 1 => Needs(X, Y) >= Needs(A, Y) + 1
          /\ Y >= B + 1 => Needs(X, Y) >= Needs(X, B) + 1
          /\ Needs(X, Y) \in Nat /\ Needs(A, B) \in Nat
          /\ Needs(A, Y) \in Nat /\ Needs(X, B) \in Nat
        BY <2>5, NeedsFacts
    <2>7. n + 1 + Needs(X, Y) <= depth
        BY <2>4 DEF X, Y
    <2>8. ASSUME NEW i \in 1 .. Len(parts)
          PROVE  n + i + need(parts[i].xSize, parts[i].ySize) <= depth
        <3>1. \/ i <= 4 /\ Needs(X, Y) >= Needs(A, B) + 3
                 /\ need(parts[i].xSize, parts[i].ySize) = Needs(A, B)
              \/ i <= 2 /\ Needs(X, Y) >= Needs(A, Y) + 1
                 /\ need(parts[i].xSize, parts[i].ySize) = Needs(A, Y)
              \/ i <= 2 /\ Needs(X, Y) >= Needs(X, B) + 1
                 /\ need(parts[i].xSize, parts[i].ySize) = Needs(X, B)
            <4>1. CASE Len(parts) = 0
                BY <4>1
            <4>2. CASE /\ s.xSize > precision.x /\ s.ySize > precision.pt
                       /\ Len(parts) = 4
                       /\ PartSizes(s, parts, s.xSize \div 2, s.ySize \div 2)
                BY <2>5, <2>6, <4>2 DEF PartSizes, A, B
            <4>3. CASE /\ s.xSize > precision.x /\ Len(parts) = 2
                       /\ PartSizes(s, parts, s.xSize \div 2, s.ySize)
                BY <2>5, <2>6, <4>3 DEF PartSizes, A, Y
            <4>4. CASE /\ s.ySize > precision.pt /\ Len(parts) = 2
                       /\ PartSizes(s, parts, s.xSize, s.ySize \div 2)
                BY <2>5, <2>6, <4>4 DEF PartSizes, X, B
            <4> QED BY <1>2, <2>1, <4>1, <4>2, <4>3, <4>4, CutSizes
        <3> HIDE DEF need
        <3>2. i \in Nat
            OBVIOUS
        <3> QED BY <1>3, <2>6, <2>7, <3>1, <3>2
    <2> TAKE i \in 1 .. Len(sections')
    <2>9. CASE i \in 1 .. n /\ sections'[i] = sections[i]
        BY <1>3, <1>5, <2>9
    <2>10. CASE i - n \in 1 .. Len(parts) /\ sections'[i] = parts[i - n]
        <3>1. n + (i - n) = i
            BY <1>3
        <3> QED BY <2>8, <2>10, <3>1
    <2> QED BY <2>3, <2>9, <2>10
<1>9. CASE ClosesTop(s)
    BY <1>3, <1>5, <1>9 DEF ClosesTop
<1> QED BY <1>2, <1>8, <1>9

\* Where the buffer suffices, the stack fits, in the build that checks it and in the
\* one that does not.
LEMMA StackInvHolds ==
    ASSUME BufferSuffices
    PROVE  KernelSpec => []StackInv
<1> DEFINE depth == MAX_SECTIONS_BUFFER_SIZE
<1>1. depth \in Nat
    BY ConstantFacts
<1>2. KernelInit => StackInv
    BY DEF KernelInit, StackInv
<1>3. ASSUME KernelInv, KernelInv', StackInv, [KernelNext]_kernelVars
      PROVE  StackInv'
    <2>1. CASE fillAccumulatorSection
        <3>1. kernelPc = "Searching"
            BY <2>1 DEF fillAccumulatorSection
        <3>2. PICK hx, hy : StackBounded(depth, hx, hy)
            BY <1>3, <3>1 DEF StackInv
        <3>3. StackBounded(depth, hx, hy)'
            BY <1>1, <1>3, <2>1, <3>2, StackStepKeeps
        <3> QED BY <3>3 DEF StackInv
    <2>2. CASE CallKernel
        <3>1. precision' \in Precisions /\ sections' = <<>>
            BY <1>3, <2>2 DEF CallKernel, KernelInv, KernelTypeOK
        <3>2. PICK hx, hy : /\ CountsHalvings(hx, precision'.x)
                            /\ CountsHalvings(hy, precision'.pt)
                            /\ 1 + Needs(hx[FullX], hy[FullY]) <= depth
            BY <3>1 DEF BufferSuffices
        <3>3. StackBounded(depth, hx, hy)'
            BY <3>1, <3>2 DEF StackBounded, StackGrowsTo, FullX, FullY, PhiReg, Reg
        <3> QED BY <3>3 DEF StackInv
    <2>3. CASE EnterWedge
        <3>1. /\ kernelPc = "Searching" /\ precision' = precision /\ wedge \in Nat
              /\ sections' = <<>> \/ sections' = <<InitialSection(wedge)>>
            BY <1>3, <2>3 DEF EnterWedge, kernelInput, KernelInv, KernelTypeOK
        <3>2. PICK hx, hy : StackBounded(depth, hx, hy)
            BY <1>3, <3>1 DEF StackInv
        <3>3. InitialSection(wedge).xSize = FullX /\ InitialSection(wedge).ySize = FullY
            BY <3>1, RegionFacts
        <3> DEFINE region == InitialSection(wedge)
        <3> HIDE DEF region
        <3>4. \A i \in 1 .. Len(sections') : i = 1 /\ sections'[i] = region
            <4>1. CASE sections' = <<>>
                BY <4>1
            <4>2. CASE sections' = <<region>>
                BY <4>2
            <4> QED BY <3>1, <4>1, <4>2 DEF region
        <3>5. /\ CountsHalvings(hx, precision.x) /\ CountsHalvings(hy, precision.pt)
              /\ 1 + Needs(hx[FullX], hy[FullY]) <= depth
            BY <3>2 DEF StackBounded
        <3>6. \A i \in 1 .. Len(sections') :
                  i + Needs(hx[sections'[i].xSize], hy[sections'[i].ySize]) <= depth
            BY <3>3, <3>4, <3>5 DEF region
        <3>7. StackBounded(depth, hx, hy)'
            BY <3>1, <3>5, <3>6 DEF StackBounded, StackGrowsTo, FullX, FullY, PhiReg, Reg
        <3> QED BY <3>7 DEF StackInv
    <2>4. CASE LastWedgeDone \/ UNCHANGED kernelVars
        <3>1. /\ kernelPc' # "Called" => kernelPc # "Called"
              /\ UNCHANGED <<precision, sections>>
            BY <2>4 DEF LastWedgeDone, kernelVars, kernelInput
        <3>2. \A hx, hy : StackBounded(depth, hx, hy)' <=> StackBounded(depth, hx, hy)
            BY <3>1 DEF StackBounded, StackGrowsTo, FullX, FullY, PhiReg, Reg
        <3> QED BY <1>3, <3>1, <3>2 DEF StackInv
    <2> QED BY <1>3, <2>1, <2>2, <2>3, <2>4 DEF KernelNext, KernelStep
<1> QED BY <1>2, <1>3, KernelInvHolds, PTL DEF KernelSpec

\* The stack never grows past its array, of which the build with SYCL makes no
\* check (AdaptiveHoughGpuKernel.cpp:147-176), if the array has a place for the
\* region and three for every time both its sizes can be halved, one where only one
\* can.
THEOREM SectionsAlwaysFitBuffer ==
    ASSUME BufferSuffices
    PROVE  KernelSpec => []SectionsFitBuffer
<1>1. KernelInv /\ StackInv => SectionsFitBuffer
    <2> SUFFICES ASSUME KernelInv, StackInv PROVE SectionsFitBuffer
        OBVIOUS
    <2>1. sections \in Seq(Sections) /\ Len(sections) \in Nat
        BY DEF KernelInv, KernelTypeOK
    <2>2. MAX_SECTIONS_BUFFER_SIZE \in Nat
        BY ConstantFacts
    <2>3. CASE sections = <<>>
        BY <2>2, <2>3 DEF SectionsFitBuffer
    <2>4. CASE sections # <<>>
        <3> DEFINE n == Len(sections)
                   s == sections[n]
        <3>1. n \in 1 .. Len(sections) /\ s \in Sections
            BY <2>1, <2>4
        <3>2. kernelPc # "Called"
            BY <2>4 DEF KernelInv, KernelTypeOK
        <3>3. PICK hx, hy : StackBounded(MAX_SECTIONS_BUFFER_SIZE, hx, hy)
            BY <3>2 DEF StackInv
        <3>4. /\ n + Needs(hx[s.xSize], hy[s.ySize]) <= MAX_SECTIONS_BUFFER_SIZE
              /\ hx \in [Nat -> Nat] /\ hy \in [Nat -> Nat]
            BY <3>1, <3>3 DEF StackBounded, StackGrowsTo, CountsHalvings
        <3>5. s.xSize \in Nat /\ s.ySize \in Nat
            BY <3>1, FieldFacts
        <3> HIDE DEF s
        <3>6. Needs(hx[s.xSize], hy[s.ySize]) \in Nat
            BY <3>4, <3>5, NeedsFacts
        <3> QED BY <2>1, <2>2, <3>4, <3>6 DEF SectionsFitBuffer
    <2> QED BY <2>3, <2>4
<1> QED BY <1>1, KernelInvHolds, StackInvHolds, PTL

-----------------------------------------------------------------------------
(* The whole region is searched.                                           *)

\* Where the sizes over the precision are even, the parts cover what s covers.
LEMMA CutCovers ==
    ASSUME NEW s \in Sections, NEW parts, Cut(s, parts), kernelPc' # "Aborted",
           s.xSize > precision.x => s.xSize % 2 = 0,
           s.ySize > precision.pt => s.ySize % 2 = 0,
           NEW px \in Int, NEW py \in Int, Covers(s, px, py)
    PROVE  \E i \in 1 .. Len(parts) : Covers(parts[i], px, py)
<1> DEFINE x == s.xSize \div 2
           y == s.ySize \div 2
           a == s.xBegin + s.xSize - x
           b == s.yBegin + s.ySize - y
           bl == bottomLeft(s, 2, 2)
           tl == topLeft(s, 2, 2)
           tr == topRight(s, 2, 2)
           br == bottomRight(s, 2, 2)
<1>1. /\ x \in Nat /\ y \in Nat
      /\ s.xSize \in Nat /\ s.ySize \in Nat /\ s.xBegin \in Int /\ s.yBegin \in Int
      /\ s.xSize > precision.x => s.xSize = 2 * x
      /\ s.ySize > precision.pt => s.ySize = 2 * y
    BY HalfFacts, FieldFacts
<1>2. /\ HasBorders(bl, x, y, s.xBegin, s.yBegin)
      /\ HasBorders(tl, x, y, s.xBegin, b)
      /\ HasBorders(tr, x, y, a, b)
      /\ HasBorders(br, x, y, a, s.yBegin)
      /\ HasBorders(left(s), x, s.ySize, s.xBegin, s.yBegin)
      /\ HasBorders(right(s), x, s.ySize, a, s.yBegin)
      /\ HasBorders(bottom(s), s.xSize, y, s.xBegin, s.yBegin)
      /\ HasBorders(top(s), s.xSize, y, s.xBegin, b)
    BY PartFacts
<1> HIDE DEF x, y, bl, tl, tr, br
<1>3. /\ s.xBegin <= px /\ px < s.xBegin + s.xSize
      /\ s.yBegin <= py /\ py < s.yBegin + s.ySize
    BY DEF Covers
<1>4. CASE Wide(s) /\ High(s) /\ parts = FourParts(s)
    <2>1. Covers(bl, px, py) \/ Covers(tl, px, py) \/ Covers(tr, px, py) \/ Covers(br, px, py)
        BY <1>1, <1>2, <1>3, <1>4 DEF Covers, HasBorders, Wide, High
    <2>2. parts = <<bl, tl, tr, br>>
        BY <1>4 DEF FourParts, bl, tl, tr, br
    <2>3. /\ Len(parts) = 4 /\ parts[1] = bl /\ parts[2] = tl /\ parts[3] = tr /\ parts[4] = br
          /\ 1 \in 1 .. 4 /\ 2 \in 1 .. 4 /\ 3 \in 1 .. 4 /\ 4 \in 1 .. 4
        BY <2>2
    <2> QED BY <2>1, <2>3
<1>5. ASSUME NEW p, NEW q, parts = <<p, q>>, Covers(p, px, py) \/ Covers(q, px, py)
      PROVE  \E i \in 1 .. Len(parts) : Covers(parts[i], px, py)
    <2>1. /\ Len(parts) = 2 /\ parts[1] = p /\ parts[2] = q
          /\ 1 \in 1 .. 2 /\ 2 \in 1 .. 2
        BY <1>5
    <2> QED BY <1>5, <2>1
<1>6. CASE Wide(s) /\ ~ High(s) /\ parts = <<left(s), right(s)>>
    <2>1. Covers(left(s), px, py) \/ Covers(right(s), px, py)
        BY <1>1, <1>2, <1>3, <1>6 DEF Covers, HasBorders, Wide
    <2> QED BY <1>5, <1>6, <2>1
<1>7. CASE ~ Wide(s) /\ High(s) /\ parts = <<bottom(s), top(s)>>
    <2>1. Covers(bottom(s), px, py) \/ Covers(top(s), px, py)
        BY <1>1, <1>2, <1>3, <1>7 DEF Covers, HasBorders, High
    <2> QED BY <1>5, <1>7, <2>1
<1> QED BY <1>4, <1>6, <1>7 DEF Cut

\* The parts of a section have sizes that halving allows.
LEMMA SearchKeepsSizes ==
    ASSUME KernelInv, fillAccumulatorSection, NEW xs, NEW ys,
           HalvedSizes(xs, ys, precision), SizesAreHalved(xs, ys)
    PROVE  SizesAreHalved(xs, ys)'
<1> DEFINE s == Last(sections)
           n == Len(sections) - 1
<1>1. s = Last(sections) /\ KernelTypeOK
    BY DEF KernelInv
<1> HIDE DEF s
<1>2. /\ sections # <<>> /\ s \in Sections
      /\ (\E parts : CutsTop(s, parts) /\ PartsOf(s, parts)) \/ ClosesTop(s)
    BY <1>1, SearchStep
<1>3. /\ s = sections[n + 1] /\ n \in Nat /\ Len(sections) = n + 1
      /\ n + 1 \in 1 .. Len(sections) /\ \A i \in 1 .. n : i \in 1 .. Len(sections)
      /\ Len(Front(sections)) = n
      /\ \A i \in 1 .. n : Front(sections)[i] = sections[i]
    BY <1>1, <1>2, TopFacts DEF KernelTypeOK
<1> HIDE DEF n
<1>4. s.xSize \in xs /\ s.ySize \in ys
    BY <1>3 DEF SizesAreHalved
<1>5. /\ s.xSize > precision.x => s.xSize \div 2 \in xs
      /\ s.ySize > precision.pt => s.ySize \div 2 \in ys
    BY <1>4 DEF HalvedSizes, HalvedExactly
<1>6. ASSUME NEW parts, CutsTop(s, parts), PartsOf(s, parts)
      PROVE  SizesAreHalved(xs, ys)'
    <2>1. Cut(s, parts) /\ sections' = Front(sections) \o parts
        BY <1>6 DEF CutsTop
    <2>2. TopReplaced(s, parts, sections')
        BY <1>1, <1>2, <1>6, <2>1, ReplacedFacts DEF PartsOf
    <2>3. \A i \in 1 .. Len(sections') :
              \/ i \in 1 .. n /\ sections'[i] = sections[i]
              \/ i - n \in 1 .. Len(parts) /\ sections'[i] = parts[i - n]
        BY <2>2 DEF TopReplaced, n
    <2>4. \A i \in 1 .. Len(parts) : parts[i].xSize \in xs /\ parts[i].ySize \in ys
        BY <1>2, <1>4, <1>5, <2>1, CutSizes DEF PartSizes
    <2>5. \A i \in 1 .. n : sections[i].xSize \in xs /\ sections[i].ySize \in ys
        BY <1>3 DEF SizesAreHalved
    <2> QED BY <2>3, <2>4, <2>5 DEF SizesAreHalved
<1>7. CASE ClosesTop(s)
    BY <1>3, <1>7 DEF ClosesTop, SizesAreHalved
<1> QED BY <1>2, <1>6, <1>7

\* Where halving is exact, every section has a size it allows.
LEMMA SizesInvHolds ==
    ASSUME HalvingIsExact
    PROVE  KernelSpec => []SizesInv
<1>1. KernelInit => SizesInv
    BY DEF KernelInit, SizesInv
<1>2. ASSUME KernelInv, SizesInv, [KernelNext]_kernelVars
      PROVE  SizesInv'
    <2>0. ASSUME NEW xs, NEW ys, NEW p
          PROVE  HalvedSizes(xs, ys, p)' <=> HalvedSizes(xs, ys, p')
        BY DEF HalvedSizes, HalvedExactly, FullX, FullY, PhiReg, Reg
    <2>1. CASE fillAccumulatorSection
        <3>1. kernelPc = "Searching" /\ precision' = precision
            BY <2>1 DEF fillAccumulatorSection, kernelInput
        <3>2. PICK xs, ys : HalvedSizes(xs, ys, precision) /\ SizesAreHalved(xs, ys)
            BY <1>2, <3>1 DEF SizesInv
        <3>3. SizesAreHalved(xs, ys)'
            BY <1>2, <2>1, <3>2, SearchKeepsSizes
        <3> QED BY <3>1, <3>2, <3>3 DEF SizesInv, HalvedSizes, HalvedExactly, FullX, FullY, PhiReg, Reg
    <2>2. CASE CallKernel
        <3>1. precision' \in Precisions /\ sections' = <<>>
            BY <1>2, <2>2 DEF CallKernel, KernelInv, KernelTypeOK
        <3>2. PICK xs, ys : HalvedSizes(xs, ys, precision')
            BY <3>1 DEF HalvingIsExact
        <3>3. SizesAreHalved(xs, ys)'
            BY <3>1 DEF SizesAreHalved
        <3> QED BY <3>2, <3>3 DEF SizesInv, HalvedSizes, HalvedExactly, FullX, FullY, PhiReg, Reg
    <2>3. CASE EnterWedge
        <3>1. /\ kernelPc = "Searching" /\ precision' = precision /\ wedge \in Nat
              /\ sections' = <<>> \/ sections' = <<InitialSection(wedge)>>
            BY <1>2, <2>3 DEF EnterWedge, kernelInput, KernelInv, KernelTypeOK
        <3>2. PICK xs, ys : HalvedSizes(xs, ys, precision)
            BY <1>2, <3>1 DEF SizesInv
        <3> DEFINE region == InitialSection(wedge)
        <3>3. region.xSize \in xs /\ region.ySize \in ys
            BY <3>1, <3>2, RegionFacts DEF HalvedSizes
        <3> HIDE DEF region
        <3>4. SizesAreHalved(xs, ys)'
            <4>1. CASE sections' = <<>>
                BY <4>1 DEF SizesAreHalved
            <4>2. CASE sections' = <<region>>
                BY <3>3, <4>2 DEF SizesAreHalved
            <4> QED BY <3>1, <4>1, <4>2 DEF region
        <3> QED BY <3>1, <3>2, <3>4 DEF SizesInv, HalvedSizes, HalvedExactly, FullX, FullY, PhiReg, Reg
    <2>4. CASE LastWedgeDone \/ UNCHANGED kernelVars
        <3>1. /\ kernelPc' # "Called" => kernelPc # "Called"
              /\ UNCHANGED <<precision, sections>>
            BY <2>4 DEF LastWedgeDone, kernelVars, kernelInput
        <3> QED BY <1>2, <3>1 DEF SizesInv, SizesAreHalved, HalvedSizes, HalvedExactly,
                                  FullX, FullY, PhiReg, Reg
    <2> QED BY <1>2, <2>1, <2>2, <2>3, <2>4 DEF KernelNext, KernelStep
<1> QED BY <1>1, <1>2, KernelInvHolds, PTL DEF KernelSpec

\* A step of the search uncovers nothing.
LEMMA SearchKeepsCover ==
    ASSUME KernelInv, SizesInv, RegionIsCovered, fillAccumulatorSection
    PROVE  RegionIsCovered'
<1> DEFINE s == Last(sections)
           n == Len(sections) - 1
           covered(x, y) ==
               \/ \E c \in closed : Covers(c, x, y)
               \/ \E i \in 1 .. Len(sections) : Covers(sections[i], x, y)
           stillCovered(x, y) ==
               \/ \E c \in closed' : Covers(c, x, y)
               \/ \E i \in 1 .. Len(sections') : Covers(sections'[i], x, y)
<1>1. s = Last(sections) /\ KernelTypeOK
    BY DEF KernelInv
<1> HIDE DEF s
<1>2. /\ sections # <<>> /\ s \in Sections /\ kernelPc = "Searching"
      /\ UNCHANGED <<wedge, wedgePoints>>
      /\ (\E parts : CutsTop(s, parts) /\ PartsOf(s, parts)) \/ ClosesTop(s)
    BY <1>1, SearchStep
<1>3. /\ s = sections[n + 1] /\ n \in Nat /\ Len(sections) = n + 1
      /\ n + 1 \in 1 .. Len(sections)
      /\ \A i \in 1 .. Len(sections) : i \in 1 .. n \/ i = n + 1
      /\ Len(Front(sections)) = n
      /\ \A i \in 1 .. n : Front(sections)[i] = sections[i]
    BY <1>1, <1>2, TopFacts DEF KernelTypeOK
<1>4. /\ s.xSize > precision.x => s.xSize % 2 = 0
      /\ s.ySize > precision.pt => s.ySize % 2 = 0
    <2>1. PICK xs, ys : HalvedSizes(xs, ys, precision) /\ SizesAreHalved(xs, ys)
        BY <1>2 DEF SizesInv
    <2>2. s.xSize \in xs /\ s.ySize \in ys
        BY <1>3, <2>1 DEF SizesAreHalved
    <2> QED BY <2>1, <2>2 DEF HalvedSizes, HalvedExactly
<1> HIDE DEF n
<1>5. SUFFICES ASSUME kernelPc' = "Searching", wedgePoints # <<>>,
                      NEW x \in Int, NEW y \in Int, covered(x, y)
               PROVE  stillCovered(x, y)
    <2>1. Region' = Region
        BY <1>2 DEF Region, InitialSection
    <2> QED BY <1>2, <2>1 DEF RegionIsCovered, Covers
<1>6. ASSUME NEW parts, CutsTop(s, parts), PartsOf(s, parts)
      PROVE  stillCovered(x, y)
    <2>1. /\ Cut(s, parts) /\ sections' = Front(sections) \o parts /\ closed' = closed
        BY <1>6 DEF CutsTop
    <2>2. TopReplaced(s, parts, sections')
        BY <1>1, <1>2, <1>6, <2>1, ReplacedFacts DEF PartsOf
    <2>3. /\ Len(parts) \in Nat /\ Len(sections') = n + Len(parts)
          /\ \A i \in 1 .. Len(sections') :
              \/ i \in 1 .. n /\ sections'[i] = sections[i]
              \/ i - n \in 1 .. Len(parts) /\ sections'[i] = parts[i - n]
        BY <2>2 DEF TopReplaced, n
    <2>4. \A i \in 1 .. n : i \in 1 .. Len(sections') /\ sections'[i] = sections[i]
        BY <1>3, <2>3
    <2>5. \A j \in 1 .. Len(parts) :
              n + j \in 1 .. Len(sections') /\ sections'[n + j] = parts[j]
        <3> TAKE j \in 1 .. Len(parts)
        <3>1. n + j \in 1 .. Len(sections') /\ n + j \notin 1 .. n /\ (n + j) - n = j
            BY <1>3, <2>3
        <3> QED BY <2>3, <3>1
    <2>6. CASE \E c \in closed : Covers(c, x, y)
        BY <2>1, <2>6
    <2>7. CASE \E i \in 1 .. n : Covers(sections[i], x, y)
        BY <2>4, <2>7
    <2>8. CASE Covers(s, x, y)
        <3>1. PICK j \in 1 .. Len(parts) : Covers(parts[j], x, y)
            BY <1>2, <1>4, <1>5, <2>1, <2>8, CutCovers
        <3> QED BY <2>5, <3>1
    <2> QED BY <1>3, <1>5, <2>6, <2>7, <2>8
<1>7. ASSUME ClosesTop(s)
      PROVE  stillCovered(x, y)
    <2>1. PICK why \in {"few", "parallel", "cell"} : Close(s, why)
        BY <1>7 DEF ClosesTop
    <2>2. sections' = Front(sections) /\ closed' = closed \cup {Tile(s, why)}
        BY <1>7, <2>1 DEF ClosesTop, Close, Tile
    <2>3. Covers(s, x, y) => Covers(Tile(s, why), x, y)
        BY DEF Covers, Tile
    <2> QED BY <1>3, <1>5, <2>2, <2>3
<1> QED BY <1>2, <1>6, <1>7

\* At any time of the search of a wedge the tiles cover its region.
LEMMA CoverHolds ==
    ASSUME HalvingIsExact
    PROVE  KernelSpec => []RegionIsCovered
<1>1. KernelInit => RegionIsCovered
    BY DEF KernelInit, RegionIsCovered
<1>2. ASSUME KernelInv, SizesInv, RegionIsCovered, [KernelNext]_kernelVars
      PROVE  RegionIsCovered'
    <2>1. CASE fillAccumulatorSection
        BY <1>2, <2>1, SearchKeepsCover
    <2>2. CASE EnterWedge
        <3>1. /\ wedge' = wedge + 1 /\ wedge \in Nat
              /\ sections' = IF wedgePoints' = <<>> THEN <<>> ELSE <<InitialSection(wedge)>>
            BY <1>2, <2>2 DEF EnterWedge, KernelInv, KernelTypeOK
        <3>2. Region' = InitialSection(wedge)
            <4>1. wedge' - 1 = wedge
                BY <3>1
            <4> QED BY <4>1 DEF Region, InitialSection
        <3> DEFINE region == InitialSection(wedge)
        <3>3. ASSUME wedgePoints' # <<>>
              PROVE  1 \in 1 .. Len(sections') /\ sections'[1] = region
            BY <3>1, <3>3
        <3> QED BY <3>2, <3>3 DEF RegionIsCovered, Covers
    <2>3. CASE CallKernel
        <3>1. wedgePoints' = <<>>
            BY <1>2, <2>3 DEF CallKernel, KernelInv, KernelTypeOK
        <3> QED BY <3>1 DEF RegionIsCovered
    <2>4. CASE LastWedgeDone
        BY <2>4 DEF LastWedgeDone, RegionIsCovered
    <2>5. CASE UNCHANGED kernelVars
        <3>1. UNCHANGED <<kernelPc, wedge, wedgePoints, sections, closed>>
            BY <2>5 DEF kernelVars
        <3>2. Region' = Region
            BY <3>1 DEF Region, InitialSection
        <3> QED BY <1>2, <3>1, <3>2 DEF RegionIsCovered, Covers
    <2> QED BY <1>2, <2>1, <2>2, <2>3, <2>4, <2>5 DEF KernelNext, KernelStep
<1> QED BY <1>1, <1>2, KernelInvHolds, SizesInvHolds, PTL DEF KernelSpec

\* When a wedge has been searched, every place of its part of the accumulator was
\* looked at exactly once, if the sizes of the region can be halved as often as the
\* search halves them (AdaptiveHoughGpuKernel.cpp:119-180, AccumulatorSection.h).
THEOREM SearchAlwaysTilesRegion ==
    ASSUME HalvingIsExact
    PROVE  KernelSpec => []SearchTilesRegion
<1>1. KernelInv /\ RegionIsCovered => SearchTilesRegion
    <2> SUFFICES ASSUME KernelInv, RegionIsCovered, WedgeSearched
                 PROVE  /\ \A c \in closed : \A d \in closed \ {c} : ~ Overlap(c, d)
                        /\ \A c \in closed :
                               /\ c.xBegin >= Region.xBegin
                               /\ c.xBegin + c.xSize <= Region.xBegin + Region.xSize
                               /\ c.yBegin >= Region.yBegin
                               /\ c.yBegin + c.ySize <= Region.yBegin + Region.ySize
                        /\ \A x \in Region.xBegin .. Region.xBegin + Region.xSize - 1 :
                               \A y \in Region.yBegin .. Region.yBegin + Region.ySize - 1 :
                                   \E c \in closed : Covers(c, x, y)
        BY DEF SearchTilesRegion, Region
    <2>1. /\ kernelPc = "Searching" /\ wedgePoints # <<>> /\ sections = <<>>
          /\ closed \subseteq Tiles /\ wedge \in Nat /\ wedge # 0
        BY DEF WedgeSearched, KernelInv, KernelTypeOK
    <2>2. Region \in Sections
        <3>1. wedge - 1 \in Nat
            BY <2>1
        <3> QED BY <3>1, RegionFacts DEF Region
    <2>3. /\ Region.xSize \in Nat /\ Region.ySize \in Nat
          /\ Region.xBegin \in Int /\ Region.yBegin \in Int
        BY <2>2, FieldFacts
    <2>4. \A c \in closed :
              /\ c.xBegin \in Int /\ c.xSize \in Nat /\ c.yBegin \in Int /\ c.ySize \in Nat
              /\ Within(c, Region) /\ \A d \in closed \ {c} : ~ Overlap(c, d)
        BY <2>1 DEF KernelInv, StackIsTiled, Tiles
    <2>5. ASSUME NEW x \in Region.xBegin .. Region.xBegin + Region.xSize - 1,
                 NEW y \in Region.yBegin .. Region.yBegin + Region.ySize - 1
          PROVE  \E c \in closed : Covers(c, x, y)
        <3>1. x \in Int /\ y \in Int /\ Covers(Region, x, y)
            BY <2>3 DEF Covers
        <3>2. ~ \E i \in 1 .. Len(sections) : Covers(sections[i], x, y)
            BY <2>1
        <3> QED BY <2>1, <3>1, <3>2 DEF RegionIsCovered
    <2> QED BY <2>3, <2>4, <2>5 DEF Within
<1> QED BY <1>1, KernelInvHolds, CoverHolds, PTL

-----------------------------------------------------------------------------
(* The wedges have every point.                                            *)

\* The wedges fill the range of phi, which reaches +-PI and no other angle again, and the
\* range of eta; no wedge ends at +-PI, and none is narrower in eta than its edges are
\* kept away from eta 0.
WedgesFill ==
    /\ \E half \in Nat \ {0} : PHI_END - PHI_BEGIN = N_PHI_WEDGE * (2 * half)
    /\ -2 * PI < PHI_BEGIN /\ PHI_BEGIN <= -PI /\ PI <= PHI_END /\ PHI_END < 2 * PI
    /\ \E half \in Nat \ {0} :
           /\ ETA_WEDGE_MAX - ETA_WEDGE_MIN = N_ETA_WEDGE * (2 * half)
           /\ half + excess_wedge_eta_width >= MinEta
    /\ \A k \in Wedges : phi_min(WedgeNumber(k)) # -PI /\ phi_max(WedgeNumber(k)) # PI

\* The points of an event.
EventPoints == [r : Nat \ {0}, phi : -PI .. PI, z : Int]

\* C's quotient of a number at least 0, and TLA+'s of any.
LEMMA DivisionFacts ==
    ASSUME NEW a \in Int, NEW b \in Nat \ {0}
    PROVE  /\ a \div b \in Int /\ a % b \in 0 .. b - 1 /\ a = b * (a \div b) + (a % b)
           /\ a >= 0 => a \div b \in Nat
           /\ \A q \in Int, r \in 0 .. b - 1 : a = b * q + r => a \div b = q /\ a % b = r
<1>1. a \div b \in Int /\ a % b \in 0 .. b - 1 /\ a = b * (a \div b) + (a % b)
    BY Z3
<1>2. a >= 0 => a \div b \in Nat
    BY Z3
<1>3. ASSUME NEW q \in Int, NEW r \in 0 .. b - 1, a = b * q + r
      PROVE  a \div b = q /\ a % b = r
    <2> DEFINE p == a \div b  s == a % b
    <2>1. p \in Int /\ s \in 0 .. b - 1 /\ a = b * p + s
        BY <1>1
    <2> HIDE DEF p, s
    <2>2. b * (p - q) = r - s
        BY <1>3, <2>1, Z3
    <2>3. p - q < 1
        BY <2>1, <2>2, Z3
    <2>4. p - q > -1
        BY <2>1, <2>2, Z3
    <2>5. p = q
        BY <2>1, <2>3, <2>4
    <2>6. s = r
        BY <1>3, <2>1, <2>5
    <2> QED BY <2>5, <2>6 DEF p, s
<1> QED BY <1>1, <1>2, <1>3

\* An angle not too far from the range is wrapped by a turn or none.
LEMMA WrapFacts ==
    ASSUME NEW d \in Int, -3 * PI < d, d < 3 * PI
    PROVE  /\ phi_wrap(d) = d \/ phi_wrap(d) = d + 2 * PI \/ phi_wrap(d) = d - 2 * PI
           /\ -PI < phi_wrap(d) /\ phi_wrap(d) <= PI
<1> DEFINE b == 2 * PI  a == PI - d  q == a \div b  r == a % b
<1>1. PI \in Nat \ {0} /\ b \in Nat \ {0} /\ a \in Int
    BY WedgeAssumption
<1>2. q \in Int /\ r \in 0 .. b - 1 /\ a = b * q + r
    BY <1>1, DivisionFacts
<1>3. phi_wrap(d) = PI - r
    BY DEF phi_wrap
<1>4. -b < a /\ a < 2 * b
    BY <1>1
<1>5. d = PI - a /\ b = 2 * PI
    BY <1>1
<1> HIDE DEF b, a, q, r
<1>6. q < 2
    BY <1>1, <1>2, <1>4, Z3
<1>7. q > -2
    BY <1>1, <1>2, <1>4, Z3
<1>8. q = -1 \/ q = 0 \/ q = 1
    BY <1>2, <1>6, <1>7
<1>9. a = r - b \/ a = r \/ a = b + r
    BY <1>1, <1>2, <1>8
<1> QED BY <1>1, <1>2, <1>3, <1>5, <1>9

\* A turn more or less is the same angle.
LEMMA WrapTurn ==
    ASSUME NEW phi \in Int
    PROVE  phi_wrap(phi - 2 * PI) = phi_wrap(phi) /\ phi_wrap(phi + 2 * PI) = phi_wrap(phi)
<1> DEFINE b == 2 * PI
<1>1. PI \in Nat \ {0} /\ b \in Nat \ {0}
    BY WedgeAssumption
<1>2. ASSUME NEW a \in Int PROVE (a + b) % b = a % b
    <2> DEFINE q == a \div b  r == a % b
    <2>1. q \in Int /\ r \in 0 .. b - 1 /\ a = b * q + r
        BY <1>1, DivisionFacts
    <2> HIDE DEF b, q, r
    <2>2. a + b = b * (q + 1) + r
        BY <1>1, <2>1, Z3
    <2>3. a + b \in Int /\ q + 1 \in Int
        BY <1>1, <2>1
    <2>4. (a + b) % b = r
        BY <1>1, <2>1, <2>2, <2>3, DivisionFacts
    <2> QED BY <2>4 DEF r
<1>3. phi_wrap(phi - b) = PI - ((PI - phi + b) % b)
    BY <1>1 DEF phi_wrap
<1>4. phi_wrap(phi + b) = PI - ((PI - phi - b) % b) /\ PI - phi = (PI - phi - b) + b
    BY <1>1 DEF phi_wrap
<1>5. phi_wrap(phi) = PI - ((PI - phi) % b)
    BY DEF phi_wrap
<1> HIDE DEF b
<1>6. PI - phi \in Int /\ PI - phi - b \in Int
    BY <1>1
<1>7. phi_wrap(phi - b) = phi_wrap(phi)
    BY <1>2, <1>3, <1>5, <1>6
<1>8. phi_wrap(phi + b) = phi_wrap(phi)
    <2>1. (PI - phi - b + b) % b = (PI - phi - b) % b
        BY <1>2, <1>6
    <2> QED BY <1>4, <1>5, <2>1
<1> QED BY <1>7, <1>8 DEF b

\* What the assumptions say of the constants of the wedges.
LEMMA WedgeConstants ==
    /\ PI \in Nat \ {0} /\ Tilt \in Nat \ {0} /\ MinEta \in Nat \ {0} /\ ZUnitSquared \in Nat \ {0}
    /\ PHI_BEGIN \in Int /\ PHI_END \in Int /\ PHI_BEGIN < PHI_END
    /\ N_PHI_WEDGE \in Nat \ {0} /\ N_ETA_WEDGE \in Nat \ {0}
    /\ ETA_WEDGE_MIN \in Int /\ ETA_WEDGE_MAX \in Int
    /\ excess_wedge_phi_width \in Nat /\ excess_wedge_eta_width \in Nat
    /\ wedge_z_center \in Int /\ wedge_z_width \in Int
    /\ wedge_z_center - wedge_z_width < 0 /\ wedge_z_center + wedge_z_width > 0
<1>1. /\ PI \in Nat \ {0} /\ Tilt \in Nat \ {0} /\ MinEta \in Nat \ {0}
      /\ ZUnitSquared \in Nat \ {0}
    BY WedgeAssumption
<1>2. PHI_BEGIN \in Int /\ PHI_END \in Int /\ PHI_BEGIN < PHI_END
    BY SorterAssumption
<1>3. /\ N_PHI_WEDGE \in Nat \ {0} /\ N_ETA_WEDGE \in Nat \ {0}
      /\ excess_wedge_phi_width \in Nat /\ excess_wedge_eta_width \in Nat
      /\ {wedge_z_center, wedge_z_width, ETA_WEDGE_MIN, ETA_WEDGE_MAX} \subseteq Int
      /\ wedge_z_width > Abs(wedge_z_center)
    BY KernelAssumption, Zenon
<1>4. /\ wedge_z_center \in Int /\ wedge_z_width \in Int
      /\ ETA_WEDGE_MIN \in Int /\ ETA_WEDGE_MAX \in Int
    BY <1>3
<1>5. wedge_z_center - wedge_z_width < 0 /\ wedge_z_center + wedge_z_width > 0
    BY <1>3, <1>4 DEF Abs
<1> QED BY <1>1, <1>2, <1>3, <1>4, <1>5

\* The wedge with the numbers i in phi and j in eta.
LEMMA WedgeIndex ==
    /\ \A k \in Wedges : /\ k \div N_ETA_WEDGE \in 0 .. N_PHI_WEDGE - 1
                         /\ k % N_ETA_WEDGE \in 0 .. N_ETA_WEDGE - 1
    /\ \A i \in 0 .. N_PHI_WEDGE - 1, j \in 0 .. N_ETA_WEDGE - 1 :
           \E k \in Wedges : k \div N_ETA_WEDGE = i /\ k % N_ETA_WEDGE = j
<1> DEFINE m == N_PHI_WEDGE  n == N_ETA_WEDGE
<1>1. m \in Nat \ {0} /\ n \in Nat \ {0} /\ m * n \in Nat
    BY WedgeConstants
<1>2. Wedges = 0 .. m * n - 1
    BY DEF Wedges
<1> HIDE DEF m, n
<1>3. ASSUME NEW k \in Wedges PROVE k \div n \in 0 .. m - 1 /\ k % n \in 0 .. n - 1
    <2> DEFINE q == k \div n  r == k % n
    <2>1. k \in Int /\ k >= 0 /\ k < m * n
        BY <1>1, <1>2
    <2>2. q \in Nat /\ r \in 0 .. n - 1 /\ k = n * q + r
        BY <1>1, <2>1, DivisionFacts
    <2> HIDE DEF q, r
    <2>3. q < m
        BY <1>1, <2>1, <2>2, Z3
    <2> QED BY <1>1, <2>2, <2>3 DEF q, r
<1>4. ASSUME NEW i \in 0 .. m - 1, NEW j \in 0 .. n - 1
      PROVE  \E k \in Wedges : k \div n = i /\ k % n = j
    <2> DEFINE k == n * i + j
    <2>1. k \in Int /\ k >= 0 /\ k < m * n
        BY <1>1, Z3
    <2>2. k \in Wedges
        BY <1>1, <1>2, <2>1
    <2>3. k = n * i + j /\ i \in Int
        BY <1>1
    <2> HIDE DEF k
    <2>4. k \div n = i /\ k % n = j
        BY <1>1, <2>1, <2>3, DivisionFacts
    <2> QED BY <2>2, <2>4
<1> QED BY <1>3, <1>4 DEF m, n

\* The regions of a wedge, with the halves of what the ranges are cut into.
LEMMA RegionsOfWedge ==
    ASSUME NEW h \in Nat \ {0}, PHI_END - PHI_BEGIN = N_PHI_WEDGE * (2 * h),
           NEW g \in Nat \ {0}, ETA_WEDGE_MAX - ETA_WEDGE_MIN = N_ETA_WEDGE * (2 * g),
           NEW k \in Wedges
    PROVE  /\ PhiReg(k).center = PHI_BEGIN + (2 * h) * (k \div N_ETA_WEDGE) + h
           /\ PhiReg(k).width = h + excess_wedge_phi_width
           /\ EtaReg(k).center = ETA_WEDGE_MIN + g + (2 * g) * (k % N_ETA_WEDGE)
           /\ EtaReg(k).width = g + excess_wedge_eta_width
           /\ k \div N_ETA_WEDGE \in Nat /\ k % N_ETA_WEDGE \in Nat
           /\ PHI_BEGIN + h <= PhiReg(k).center /\ PhiReg(k).center <= PHI_END - h
           /\ PhiReg(k).center \in Int /\ EtaReg(k).center \in Int
<1>1. ASSUME NEW n \in Nat \ {0}, NEW a \in Nat \ {0}
      PROVE  (n * (2 * a)) \div n = 2 * a /\ (2 * a) \div 2 = a
    <2>1. n * (2 * a) \in Int /\ n * (2 * a) = n * (2 * a) + 0 /\ 2 * a \in Int
        OBVIOUS
    <2>2. \A x \in Int : x = n * (2 * a) + 0 => x \div n = 2 * a
        BY <2>1, DivisionFacts
    <2>3. (2 * a) \div 2 = a
        BY Z3
    <2> QED BY <2>1, <2>2, <2>3
<1>2. /\ (PHI_END - PHI_BEGIN) \div N_PHI_WEDGE = 2 * h /\ (2 * h) \div 2 = h
      /\ (ETA_WEDGE_MAX - ETA_WEDGE_MIN) \div N_ETA_WEDGE = 2 * g /\ (2 * g) \div 2 = g
    BY <1>1, WedgeConstants
<1>3. /\ PhiReg(k) = Reg(PHI_BEGIN + (2 * h) * (k \div N_ETA_WEDGE) + h, h + excess_wedge_phi_width)
      /\ EtaReg(k) = Reg(ETA_WEDGE_MIN + g + (2 * g) * (k % N_ETA_WEDGE), g + excess_wedge_eta_width)
    BY <1>2 DEF PhiReg, EtaReg
<1> DEFINE i == k \div N_ETA_WEDGE  j == k % N_ETA_WEDGE
<1>4. i \in 0 .. N_PHI_WEDGE - 1 /\ j \in 0 .. N_ETA_WEDGE - 1 /\ i \in Nat /\ j \in Nat
    BY WedgeIndex, WedgeConstants
<1>5. /\ PhiReg(k).center = PHI_BEGIN + (2 * h) * i + h
      /\ PhiReg(k).width = h + excess_wedge_phi_width
      /\ EtaReg(k).center = ETA_WEDGE_MIN + g + (2 * g) * j
      /\ EtaReg(k).width = g + excess_wedge_eta_width
    BY <1>3 DEF Reg
<1> HIDE DEF i, j
<1>6. /\ (2 * h) * i \in Int /\ (2 * g) * j \in Int /\ (2 * h) * i >= 0
      /\ (2 * h) * i <= N_PHI_WEDGE * (2 * h) - 2 * h
    <2>1. (2 * h) * i \in Int /\ (2 * g) * j \in Int /\ (2 * h) * i >= 0
        BY <1>4, Z3
    <2>2. (2 * h) * i <= (2 * h) * (N_PHI_WEDGE - 1)
        BY <1>4, WedgeConstants, Z3
    <2>3. (2 * h) * (N_PHI_WEDGE - 1) = N_PHI_WEDGE * (2 * h) - 2 * h
        BY WedgeConstants, Z3
    <2> QED BY <2>1, <2>2, <2>3
<1>7. /\ PHI_BEGIN + h <= PhiReg(k).center /\ PhiReg(k).center <= PHI_END - h
      /\ PhiReg(k).center \in Int /\ EtaReg(k).center \in Int
    <2> DEFINE u == (2 * h) * i  v == (2 * g) * j  t == N_PHI_WEDGE * (2 * h)
    <2>1. u \in Int /\ v \in Int /\ u >= 0 /\ u <= t - 2 * h /\ t = PHI_END - PHI_BEGIN
        BY <1>6
    <2>2. PhiReg(k).center = PHI_BEGIN + u + h /\ EtaReg(k).center = ETA_WEDGE_MIN + g + v
        BY <1>5
    <2> HIDE DEF u, v, t
    <2> QED BY <2>1, <2>2, WedgeConstants
<1> QED BY <1>4, <1>5, <1>7 DEF i, j

\* A wedge that has a point searches an angle of it that lies in the wedge.
LEMMA MovedIntoWedge ==
    ASSUME WedgesFill, NEW k \in Wedges, NEW p \in EventPoints,
           in_wedge_r_phi_z(WedgeNumber(k), p.r, p.phi, p.z)
    PROVE  LET phi == MovedPhi(WedgeNumber(k), p.phi)
           IN  /\ phi \in phi_min(WedgeNumber(k)) .. phi_max(WedgeNumber(k))
               /\ phi_wrap(phi) = phi_wrap(p.phi)
<1>1. PICK h \in Nat \ {0} : PHI_END - PHI_BEGIN = N_PHI_WEDGE * (2 * h)
    BY DEF WedgesFill
<1>2. PICK g \in Nat \ {0} : ETA_WEDGE_MAX - ETA_WEDGE_MIN = N_ETA_WEDGE * (2 * g)
    BY DEF WedgesFill
<1> DEFINE c == PhiReg(k).center  w == PhiReg(k).width  phi == p.phi
           low == phi_min(WedgeNumber(k))  high == phi_max(WedgeNumber(k))
           d == phi_dist(phi, c)
<1>3. c \in Int /\ PHI_BEGIN + h <= c /\ c <= PHI_END - h /\ w = h + excess_wedge_phi_width
    BY <1>1, <1>2, RegionsOfWedge
<1>4. phi \in Int /\ -PI <= phi /\ phi <= PI /\ PI \in Nat \ {0}
    BY WedgeConstants DEF EventPoints
<1>5. WedgeNumber(k).phi = PhiReg(k)
    BY DEF WedgeNumber, WedgeOf
<1>6. low = c - w /\ high = c + w /\ d \in -w .. w
    BY <1>5 DEF phi_min, phi_max, in_wedge_r_phi_z
<1>7. w \in Int
    BY <1>3, WedgeConstants
<1>8. low # -PI /\ high # PI /\ -2 * PI < PHI_BEGIN /\ PHI_END < 2 * PI
    BY DEF WedgesFill
<1>9. d = phi_wrap(phi - c)
    BY DEF phi_dist
<1>10. MovedPhi(WedgeNumber(k), phi) = IF low < -PI /\ phi > high THEN phi - 2 * PI
                                       ELSE IF high > PI /\ phi < low THEN phi + 2 * PI
                                       ELSE phi
    BY DEF MovedPhi
<1> HIDE DEF c, w, phi, low, high, d
<1>11. phi - c \in Int /\ -3 * PI < phi - c /\ phi - c < 3 * PI
    BY <1>3, <1>4, <1>8, WedgeConstants
<1>12. d = phi - c \/ d = phi - c + 2 * PI \/ d = phi - c - 2 * PI
    BY <1>9, <1>11, WrapFacts
<1>13. MovedPhi(WedgeNumber(k), phi) \in low .. high
    BY <1>3, <1>4, <1>6, <1>7, <1>8, <1>10, <1>12
<1>14. phi_wrap(MovedPhi(WedgeNumber(k), phi)) = phi_wrap(phi)
    BY <1>4, <1>10, WrapTurn
<1> QED BY <1>13, <1>14 DEF phi, low, high

\* An edge of the wedge is away from eta 0 and at or outside the edge of its interval.
LEMMA EdgesOfWedge ==
    ASSUME NEW c \in Int, NEW w \in Nat, w >= MinEta
    PROVE  LET v == EtaWidth(Reg(c, w))
           IN  /\ v \in Int /\ c - v <= c - w /\ c + v >= c + w
               /\ c - v # 0 /\ c + v # 0 /\ c - v < c + v
<1> DEFINE v == EtaWidth(Reg(c, w))
<1>1. MinEta \in Nat \ {0}
    BY WedgeConstants
<1>2. v = IF -MinEta < c + w /\ c + w < MinEta THEN MinEta - c
          ELSE IF -MinEta < c - w /\ c - w < MinEta THEN MinEta + c
          ELSE w
    BY DEF EtaWidth, Reg
<1> HIDE DEF v
<1>3. /\ v \in Int /\ c - v <= c - w /\ c + v >= c + w
      /\ c - v # 0 /\ c + v # 0 /\ c - v < c + v
    BY <1>1, <1>2
<1> QED BY <1>3 DEF v

\* The sign of what compares a point with a line, by the signs of the line's eta and z.
LEMMA LineSides ==
    ASSUME NEW eta \in Int, NEW z0 \in Int, NEW r \in Nat \ {0}, NEW z \in Int,
           eta # 0, z0 # 0, z0 * (Tilt * z - r * eta) <= 0
    PROVE  LET line == [eta |-> eta, z |-> z0]
           IN  /\ eta * z0 < 0 => IsAbove(line, r, z)
               /\ eta * z0 > 0 => IsBelow(line, r, z)
<1> DEFINE line == [eta |-> eta, z |-> z0]  n == Numerator(line, z)  d == Denominator(line)
           u == ZUnitSquared * z0  m == n - r * d  t == Tilt * z - r * eta
<1>1. Tilt \in Nat \ {0} /\ ZUnitSquared \in Nat \ {0}
    BY WedgeConstants
<1>2. t \in Int /\ u \in Int /\ z0 * t <= 0
    BY <1>1, Z3
<1>3. n \in Int /\ d \in Int /\ m \in Int /\ d = eta * u
    <2>1. n = Tilt * (ZUnitSquared * z * z0 - 1) /\ d = eta * ZUnitSquared * z0
        BY DEF Numerator, Denominator
    <2> HIDE DEF n, d
    <2>2. n \in Int /\ d \in Int /\ eta * ZUnitSquared * z0 = eta * (ZUnitSquared * z0)
        BY <1>1, <2>1, Z3
    <2>3. m \in Int
        BY <2>2, Z3
    <2> QED BY <2>1, <2>2, <2>3
<1>4. m = ZUnitSquared * (z0 * t) - Tilt
    <2>1. n = Tilt * (ZUnitSquared * z * z0 - 1) /\ d = eta * ZUnitSquared * z0
        BY DEF Numerator, Denominator
    <2> HIDE DEF n, d
    <2>2. Tilt * (ZUnitSquared * z * z0 - 1) - r * (eta * ZUnitSquared * z0)
              = ZUnitSquared * (z0 * (Tilt * z - r * eta)) - Tilt
        BY <1>1, Z3
    <2> QED BY <2>1, <2>2
<1>5. IsAbove(line, r, z) <=> n * d > r * d * d
    BY DEF IsAbove
<1>6. IsBelow(line, r, z) <=> n * d < r * d * d
    BY DEF IsBelow
<1> HIDE DEF line, n, d, t
<1>7. ZUnitSquared * (z0 * t) <= 0
    <2> DEFINE e == z0 * t
    <2>1. e \in Int /\ e <= 0
        BY <1>2, Z3
    <2> HIDE DEF e
    <2>2. ZUnitSquared * e <= 0
        BY <1>1, <2>1, Z3
    <2> QED BY <2>2 DEF e
<1>8. m < 0
    <2> DEFINE e == ZUnitSquared * (z0 * t)
    <2>1. e \in Int
        BY <1>1, <1>2, Z3
    <2> HIDE DEF e, m
    <2>2. m = e - Tilt /\ e <= 0
        BY <1>4, <1>7 DEF e
    <2> QED BY <1>1, <2>1, <2>2
<1>9. n * d - r * d * d = d * m
    BY <1>3, Z3
<1>10. n * d \in Int /\ r * d * d \in Int /\ d * m \in Int
    BY <1>3, Z3
<1>11. d = ZUnitSquared * (eta * z0) /\ eta * z0 \in Int
    BY <1>1, <1>3, Z3
<1> HIDE DEF m, u
<1>12. ASSUME eta * z0 < 0 PROVE IsAbove(line, r, z)
    <2> DEFINE e == eta * z0
    <2>1. e \in Int /\ e < 0 /\ d = ZUnitSquared * e
        BY <1>11, <1>12
    <2> HIDE DEF e
    <2>2. d < 0
        BY <1>1, <2>1, Z3
    <2>3. d * m > 0
        BY <1>3, <1>8, <2>2, Z3
    <2>4. n * d > r * d * d
        BY <1>9, <1>10, <2>3
    <2> QED BY <1>5, <2>4
<1>13. ASSUME eta * z0 > 0 PROVE IsBelow(line, r, z)
    <2> DEFINE e == eta * z0
    <2>1. e \in Int /\ e > 0 /\ d = ZUnitSquared * e
        BY <1>11, <1>13
    <2> HIDE DEF e
    <2>2. d > 0
        BY <1>1, <2>1, Z3
    <2>3. d * m < 0
        BY <1>3, <1>8, <2>2, Z3
    <2>4. n * d < r * d * d
        BY <1>9, <1>10, <2>3
    <2> QED BY <1>6, <2>4
<1> QED BY <1>12, <1>13 DEF line

\* The left edge starts at a negative z, the right one at a positive z: each has the
\* points between their etas on its inner side.
LEMMA BetweenEdges ==
    ASSUME NEW left_eta \in Int, NEW right_eta \in Int, left_eta < right_eta,
           left_eta # 0, right_eta # 0,
           NEW left_z \in Int, NEW right_z \in Int, left_z < 0, right_z > 0,
           NEW r \in Nat \ {0}, NEW z \in Int,
           r * left_eta <= Tilt * z, Tilt * z <= r * right_eta
    PROVE  LET left_edge == [eta |-> left_eta, z |-> left_z]
               right_edge == [eta |-> right_eta, z |-> right_z]
           IN  \/ /\ left_eta > 0 /\ right_eta > 0
                  /\ IsAbove(left_edge, r, z) /\ IsBelow(right_edge, r, z)
               \/ /\ left_eta < 0 /\ right_eta > 0
                  /\ IsBelow(left_edge, r, z) /\ IsBelow(right_edge, r, z)
               \/ /\ right_eta < 0
                  /\ IsBelow(left_edge, r, z) /\ IsAbove(right_edge, r, z)
<1> DEFINE left_edge == [eta |-> left_eta, z |-> left_z]
           right_edge == [eta |-> right_eta, z |-> right_z]
<1>1. Tilt * z \in Int /\ r * left_eta \in Int /\ r * right_eta \in Int
    BY WedgeConstants, Z3
<1>2. \A a, b \in Int : (a <= 0 /\ b >= 0) \/ (a >= 0 /\ b <= 0) => a * b <= 0
    BY Z3
<1>3. \A a, b \in Int : (a < 0 /\ b > 0) \/ (a > 0 /\ b < 0) => a * b < 0
    BY Z3
<1>4. \A a, b \in Int : (a < 0 /\ b < 0) \/ (a > 0 /\ b > 0) => a * b > 0
    BY Z3
<1>5. left_z * (Tilt * z - r * left_eta) <= 0 /\ right_z * (Tilt * z - r * right_eta) <= 0
    <2> DEFINE a == Tilt * z - r * left_eta  b == Tilt * z - r * right_eta
    <2>1. a \in Int /\ b \in Int /\ a >= 0 /\ b <= 0
        BY <1>1
    <2> HIDE DEF a, b
    <2>2. left_z * a <= 0 /\ right_z * b <= 0
        BY <1>2, <2>1
    <2> QED BY <2>2 DEF a, b
<1>6. /\ left_eta * left_z < 0 => IsAbove(left_edge, r, z)
      /\ left_eta * left_z > 0 => IsBelow(left_edge, r, z)
    BY <1>5, LineSides
<1>7. /\ right_eta * right_z < 0 => IsAbove(right_edge, r, z)
      /\ right_eta * right_z > 0 => IsBelow(right_edge, r, z)
    BY <1>5, LineSides
<1>8. /\ left_eta > 0 => left_eta * left_z < 0
      /\ left_eta < 0 => left_eta * left_z > 0
      /\ right_eta > 0 => right_eta * right_z > 0
      /\ right_eta < 0 => right_eta * right_z < 0
    BY <1>3, <1>4
<1> HIDE DEF left_edge, right_edge
<1>9. CASE left_eta > 0
    BY <1>6, <1>7, <1>8, <1>9 DEF left_edge, right_edge
<1>10. CASE left_eta < 0 /\ right_eta > 0
    BY <1>6, <1>7, <1>8, <1>10 DEF left_edge, right_edge
<1>11. CASE right_eta < 0
    BY <1>6, <1>7, <1>8, <1>11 DEF left_edge, right_edge
<1> QED BY <1>9, <1>10, <1>11

\* A number from 0 to n * b is in one of n intervals of b.
LEMMA SomeInterval ==
    ASSUME NEW n \in Nat \ {0}, NEW b \in Nat \ {0}, NEW a \in Nat, a <= n * b
    PROVE  \E q \in 0 .. n - 1 : b * q <= a /\ a <= b * q + b
<1> DEFINE q == a \div b  r == a % b
<1>1. q \in Nat /\ r \in 0 .. b - 1 /\ a = b * q + r
    BY DivisionFacts
<1> HIDE DEF q, r
<1>2. CASE q <= n - 1
    <2>1. b * q \in Int
        BY <1>1, Z3
    <2>2. b * q <= a /\ a <= b * q + b
        BY <1>1, <2>1
    <2>3. q \in 0 .. n - 1
        BY <1>1, <1>2
    <2> QED BY <2>2, <2>3
<1>3. CASE q >= n
    <2>1. b * q >= b * n /\ b * n = n * b /\ b * n = b * (n - 1) + b
        BY <1>1, <1>3, Z3
    <2>2. b * q \in Int /\ b * n \in Int /\ b * (n - 1) \in Int
        BY <1>1, Z3
    <2>3. b * (n - 1) <= a /\ a <= b * (n - 1) + b
        BY <1>1, <2>1, <2>2
    <2>4. n - 1 \in 0 .. n - 1
        OBVIOUS
    <2> QED BY <2>3, <2>4
<1> QED BY <1>1, <1>2, <1>3

\* Every angle is in the phi of some wedges of one number.
LEMMA PhiCovers ==
    ASSUME WedgesFill, NEW phi \in -PI .. PI
    PROVE  \E i \in 0 .. N_PHI_WEDGE - 1 :
               \A k \in Wedges : k \div N_ETA_WEDGE = i =>
                   phi_dist(phi, PhiReg(k).center) \in -PhiReg(k).width .. PhiReg(k).width
<1>1. PICK h \in Nat \ {0} : PHI_END - PHI_BEGIN = N_PHI_WEDGE * (2 * h)
    BY DEF WedgesFill
<1>2. PICK g \in Nat \ {0} : ETA_WEDGE_MAX - ETA_WEDGE_MIN = N_ETA_WEDGE * (2 * g)
    BY DEF WedgesFill
<1>3. PI \in Nat \ {0} /\ PHI_BEGIN <= -PI /\ PI <= PHI_END /\ -2 * PI < PHI_BEGIN
    BY WedgeConstants DEF WedgesFill
<1> DEFINE a == phi - PHI_BEGIN
<1>4. a \in Nat /\ a <= N_PHI_WEDGE * (2 * h) /\ 2 * h \in Nat \ {0}
    BY <1>1, <1>3, WedgeConstants
<1>5. PICK i \in 0 .. N_PHI_WEDGE - 1 : (2 * h) * i <= a /\ a <= (2 * h) * i + 2 * h
    BY <1>4, SomeInterval, WedgeConstants
<1>6. ASSUME NEW k \in Wedges, k \div N_ETA_WEDGE = i
      PROVE  phi_dist(phi, PhiReg(k).center) \in -PhiReg(k).width .. PhiReg(k).width
    <2> DEFINE c == PhiReg(k).center  w == PhiReg(k).width  b == (2 * h) * i  d == phi - c
    <2>1. c = PHI_BEGIN + b + h /\ w = h + excess_wedge_phi_width /\ c \in Int
          /\ PHI_BEGIN + h <= c /\ c <= PHI_END - h
        BY <1>1, <1>2, <1>6, RegionsOfWedge
    <2>2. b \in Int
        BY <1>5, Z3
    <2>3. phi_dist(phi, c) = phi_wrap(d)
        BY DEF phi_dist
    <2> HIDE DEF b, c, w
    <2>4. b <= a /\ a <= b + 2 * h
        BY <1>5 DEF b
    <2>5. d \in Int /\ -h <= d /\ d <= h
        BY <1>3, <2>1, <2>2, <2>4, WedgeConstants
    <2>6. w \in Int /\ h <= w
        BY <2>1, WedgeConstants
    <2>7. -3 * PI < d /\ d < 3 * PI
        BY <1>3, <2>1, WedgeConstants DEF WedgesFill
    <2>8. /\ phi_wrap(d) = d \/ phi_wrap(d) = d + 2 * PI \/ phi_wrap(d) = d - 2 * PI
          /\ -PI < phi_wrap(d) /\ phi_wrap(d) <= PI
        BY <2>5, <2>7, WrapFacts
    <2>9. -h <= phi_wrap(d) /\ phi_wrap(d) <= h /\ phi_wrap(d) \in Int
        BY <1>3, <2>5, <2>8
    <2> QED BY <2>3, <2>6, <2>9 DEF c, w
<1> QED BY <1>6

\* Every point in the range of eta is between the edges of the wedges of one number.
LEMMA EtaCovers ==
    ASSUME WedgesFill, NEW p \in EventPoints,
           Tilt * p.z >= p.r * ETA_WEDGE_MIN, Tilt * p.z <= p.r * ETA_WEDGE_MAX
    PROVE  \E j \in 0 .. N_ETA_WEDGE - 1 :
               \A k \in Wedges : k % N_ETA_WEDGE = j =>
                   LET w == WedgeNumber(k)
                   IN  \/ /\ w.left.eta > 0 /\ w.right.eta > 0
                          /\ IsAbove(w.left, p.r, p.z) /\ IsBelow(w.right, p.r, p.z)
                       \/ /\ w.left.eta < 0 /\ w.right.eta > 0
                          /\ IsBelow(w.left, p.r, p.z) /\ IsBelow(w.right, p.r, p.z)
                       \/ /\ w.right.eta < 0
                          /\ IsBelow(w.left, p.r, p.z) /\ IsAbove(w.right, p.r, p.z)
<1>1. PICK h \in Nat \ {0} : PHI_END - PHI_BEGIN = N_PHI_WEDGE * (2 * h)
    BY DEF WedgesFill
<1>2. PICK g \in Nat \ {0} : /\ ETA_WEDGE_MAX - ETA_WEDGE_MIN = N_ETA_WEDGE * (2 * g)
                             /\ g + excess_wedge_eta_width >= MinEta
    BY DEF WedgesFill
<1> DEFINE r == p.r  z == p.z  t == Tilt * z
<1>3. r \in Nat \ {0} /\ z \in Int /\ t \in Int
    BY WedgeConstants, Z3 DEF EventPoints
<1>4. t >= r * ETA_WEDGE_MIN /\ t <= r * ETA_WEDGE_MAX
    OBVIOUS
<1> HIDE DEF r, z, t
<1> DEFINE a == t - r * ETA_WEDGE_MIN  b == r * (2 * g)
<1>5. /\ r * ETA_WEDGE_MIN \in Int /\ r * ETA_WEDGE_MAX \in Int
      /\ r * ETA_WEDGE_MAX - r * ETA_WEDGE_MIN = N_ETA_WEDGE * (r * (2 * g))
    <2>1. r * ETA_WEDGE_MIN \in Int /\ r * ETA_WEDGE_MAX \in Int
        BY <1>3, WedgeConstants, Z3
    <2>2. r * ETA_WEDGE_MAX - r * ETA_WEDGE_MIN = r * (ETA_WEDGE_MAX - ETA_WEDGE_MIN)
        BY <1>3, WedgeConstants, Z3
    <2>3. r * (N_ETA_WEDGE * (2 * g)) = N_ETA_WEDGE * (r * (2 * g))
        BY <1>3, WedgeConstants, Z3
    <2> QED BY <1>2, <2>1, <2>2, <2>3
<1>6. a \in Nat /\ b \in Nat \ {0} /\ a <= N_ETA_WEDGE * b
    <2>1. b \in Nat \ {0}
        BY <1>3, Z3
    <2>2. a \in Int /\ a >= 0
        BY <1>3, <1>4, <1>5
    <2>3. a <= r * ETA_WEDGE_MAX - r * ETA_WEDGE_MIN
        BY <1>3, <1>4, <1>5
    <2> QED BY <1>5, <2>1, <2>2, <2>3
<1>7. PICK j \in 0 .. N_ETA_WEDGE - 1 : b * j <= a /\ a <= b * j + b
    BY <1>6, SomeInterval, WedgeConstants
<1>8. ASSUME NEW k \in Wedges, k % N_ETA_WEDGE = j
      PROVE  LET w == WedgeNumber(k)
             IN  \/ /\ w.left.eta > 0 /\ w.right.eta > 0
                    /\ IsAbove(w.left, r, z) /\ IsBelow(w.right, r, z)
                 \/ /\ w.left.eta < 0 /\ w.right.eta > 0
                    /\ IsBelow(w.left, r, z) /\ IsBelow(w.right, r, z)
                 \/ /\ w.right.eta < 0
                    /\ IsBelow(w.left, r, z) /\ IsAbove(w.right, r, z)
    <2> DEFINE c == ETA_WEDGE_MIN + g + (2 * g) * j  w == g + excess_wedge_eta_width
               v == EtaWidth(EtaReg(k))
    <2>1. EtaReg(k).center = c /\ EtaReg(k).width = w
        BY <1>1, <1>2, <1>8, RegionsOfWedge
    <2>2. EtaReg(k) = Reg(c, w)
        BY <2>1 DEF EtaReg, Reg
    <2>3. (2 * g) * j \in Int
        BY <1>7, Z3
    <2>4. c \in Int /\ w \in Nat /\ w >= MinEta
        BY <1>2, <2>3, WedgeConstants
    <2>5. /\ v \in Int /\ c - v <= c - w /\ c + v >= c + w
          /\ c - v # 0 /\ c + v # 0 /\ c - v < c + v
        BY <2>2, <2>4, EdgesOfWedge
    <2>6. WedgeNumber(k).left = [eta |-> c - v, z |-> wedge_z_center - wedge_z_width]
          /\ WedgeNumber(k).right = [eta |-> c + v, z |-> wedge_z_center + wedge_z_width]
        BY <2>2 DEF WedgeNumber, WedgeOf, Reg
    <2>7. c - w <= ETA_WEDGE_MIN + (2 * g) * j /\ c + w >= ETA_WEDGE_MIN + (2 * g) * j + 2 * g
        BY <2>3, WedgeConstants
    <2> DEFINE x == c - v  y == c + v  i == ETA_WEDGE_MIN + (2 * g) * j
    <2>8. /\ x \in Int /\ y \in Int /\ i \in Int /\ x <= i /\ i + 2 * g <= y
          /\ x < y /\ x # 0 /\ y # 0
        <3>1. i \in Int
            BY <2>3, WedgeConstants
        <3> HIDE DEF c, w, v, i
        <3>2. c - w <= i /\ i + 2 * g <= c + w
            BY <2>7 DEF i
        <3> QED BY <2>4, <2>5, <3>1, <3>2
    <2>9. r * i = r * ETA_WEDGE_MIN + b * j /\ r * (i + 2 * g) = r * ETA_WEDGE_MIN + b * j + b
        <3>1. r * (ETA_WEDGE_MIN + (2 * g) * j) = r * ETA_WEDGE_MIN + (r * (2 * g)) * j
            BY <1>3, <1>7, WedgeConstants, Z3
        <3>2. r * (i + 2 * g) = r * i + r * (2 * g)
            BY <1>3, <2>8, Z3
        <3> QED BY <3>1, <3>2
    <2>10. b * j \in Int
        BY <1>6, <1>7, Z3
    <2>11. r * x \in Int /\ r * y \in Int /\ r * x <= r * i /\ r * (i + 2 * g) <= r * y
        <3> HIDE DEF x, y, i
        <3>1. \A m, n \in Int : m <= n => r * m <= r * n
            BY <1>3, Z3
        <3>2. r * x \in Int /\ r * y \in Int
            BY <1>3, <2>8, Z3
        <3> QED BY <2>8, <3>1, <3>2
    <2>12. r * x <= t /\ t <= r * y
        <3> DEFINE e == r * ETA_WEDGE_MIN  f == b * j  ri == r * i  rg == r * (i + 2 * g)
                   rx == r * x  ry == r * y
        <3>1. e \in Int /\ f \in Int /\ b \in Int
            BY <1>5, <1>6, <2>10
        <3>2. ri = e + f /\ rg = e + f + b /\ f <= t - e /\ t - e <= f + b
            BY <1>7, <2>9
        <3>3. rx \in Int /\ ry \in Int /\ rx <= ri /\ rg <= ry
            BY <2>11
        <3> HIDE DEF e, f, ri, rg, rx, ry, b
        <3>4. rx <= t /\ t <= ry
            BY <1>3, <3>1, <3>2, <3>3
        <3> QED BY <3>4 DEF rx, ry
    <2>13. wedge_z_center - wedge_z_width \in Int /\ wedge_z_center + wedge_z_width \in Int
        BY WedgeConstants
    <2> HIDE DEF x, y
    <2>14. WedgeNumber(k).left = [eta |-> x, z |-> wedge_z_center - wedge_z_width]
           /\ WedgeNumber(k).right = [eta |-> y, z |-> wedge_z_center + wedge_z_width]
        BY <2>6 DEF x, y
    <2>15. WedgeNumber(k).left.eta = x /\ WedgeNumber(k).right.eta = y
        BY <2>14
    <2> HIDE DEF c, w, v, i
    <2>16. r * x <= Tilt * z /\ Tilt * z <= r * y
        BY <2>12 DEF t
    <2> QED BY <1>3, <2>8, <2>13, <2>14, <2>15, <2>16, WedgeConstants, BetweenEdges
<1> QED BY <1>8 DEF r, z

\* A point within the ranges is in the wedge of its two numbers.
LEMMA SomeWedgeHas ==
    ASSUME WedgesFill, NEW p \in EventPoints,
           Tilt * p.z >= p.r * ETA_WEDGE_MIN, Tilt * p.z <= p.r * ETA_WEDGE_MAX
    PROVE  \E k \in Wedges : in_wedge_r_phi_z(WedgeNumber(k), p.r, p.phi, p.z)
<1>1. p.phi \in -PI .. PI
    BY DEF EventPoints
<1>2. PICK i \in 0 .. N_PHI_WEDGE - 1 :
          \A k \in Wedges : k \div N_ETA_WEDGE = i =>
              phi_dist(p.phi, PhiReg(k).center) \in -PhiReg(k).width .. PhiReg(k).width
    BY <1>1, PhiCovers
<1>3. PICK j \in 0 .. N_ETA_WEDGE - 1 :
          \A k \in Wedges : k % N_ETA_WEDGE = j =>
              LET w == WedgeNumber(k)
              IN  \/ /\ w.left.eta > 0 /\ w.right.eta > 0
                     /\ IsAbove(w.left, p.r, p.z) /\ IsBelow(w.right, p.r, p.z)
                  \/ /\ w.left.eta < 0 /\ w.right.eta > 0
                     /\ IsBelow(w.left, p.r, p.z) /\ IsBelow(w.right, p.r, p.z)
                  \/ /\ w.right.eta < 0
                     /\ IsBelow(w.left, p.r, p.z) /\ IsAbove(w.right, p.r, p.z)
    BY EtaCovers
<1>4. PICK k \in Wedges : k \div N_ETA_WEDGE = i /\ k % N_ETA_WEDGE = j
    BY WedgeIndex
<1>5. WedgeNumber(k).phi = PhiReg(k)
    BY DEF WedgeNumber, WedgeOf
<1>6. phi_dist(p.phi, WedgeNumber(k).phi.center)
          \in -WedgeNumber(k).phi.width .. WedgeNumber(k).phi.width
    BY <1>2, <1>4, <1>5
<1>7. in_wedge_r_phi_z(WedgeNumber(k), p.r, p.phi, p.z)
    BY <1>3, <1>4, <1>6 DEF in_wedge_r_phi_z
<1> QED BY <1>7

\* The points are those of an event from the call of the kernel on.
PointsAreOfEvent == kernelPc = "Searching" => points \in Events

\* Where the wedges fill the ranges of the detector, as the constants of the code make
\* them, a point that the kernel is called with and whose eta is in range is searched
\* by a wedge at least, under an angle that is the point's and in the wedge.
THEOREM EveryPointIsAlwaysSearched ==
    ASSUME WedgesFill
    PROVE  KernelSpec => []EveryPointIsSearched
<1>1. KernelInit => PointsAreOfEvent
    BY DEF KernelInit, PointsAreOfEvent
<1>2. PointsAreOfEvent /\ [KernelNext]_kernelVars => PointsAreOfEvent'
    <2> SUFFICES ASSUME PointsAreOfEvent, [KernelNext]_kernelVars PROVE PointsAreOfEvent'
        OBVIOUS
    <2>1. CASE CallKernel
        BY <2>1 DEF CallKernel, PointsAreOfEvent
    <2>2. CASE EnterWedge
        BY <2>2 DEF EnterWedge, kernelInput, PointsAreOfEvent
    <2>3. CASE fillAccumulatorSection
        BY <2>3 DEF fillAccumulatorSection, kernelInput, PointsAreOfEvent
    <2>4. CASE LastWedgeDone
        BY <2>4 DEF LastWedgeDone, PointsAreOfEvent
    <2>5. CASE UNCHANGED kernelVars
        BY <2>5 DEF kernelVars, kernelInput, PointsAreOfEvent
    <2> QED BY <2>1, <2>2, <2>3, <2>4, <2>5 DEF KernelNext, KernelStep
<1>3. PointsAreOfEvent => EveryPointIsSearched
    <2> SUFFICES ASSUME PointsAreOfEvent, kernelPc = "Searching", NEW i \in DOMAIN points
                 PROVE  LET p == points[i]
                            has(k) == in_wedge_r_phi_z(WedgeNumber(k), p.r, p.phi, p.z)
                        IN  /\ (/\ Tilt * p.z >= p.r * ETA_WEDGE_MIN
                                /\ Tilt * p.z <= p.r * ETA_WEDGE_MAX)
                                   => \E k \in Wedges : has(k)
                            /\ \A k \in Wedges : has(k) =>
                                   LET phi == MovedPhi(WedgeNumber(k), p.phi)
                                   IN  /\ phi \in phi_min(WedgeNumber(k)) .. phi_max(WedgeNumber(k))
                                       /\ phi_wrap(phi) = phi_wrap(p.phi)
        BY DEF EveryPointIsSearched
    <2>1. points \in Seq(EventPoints)
        BY KernelAssumption DEF PointsAreOfEvent, EventPoints
    <2>2. points[i] \in EventPoints
        BY <2>1
    <2> QED BY <2>2, SomeWedgeHas, MovedIntoWedge
<1> QED BY <1>1, <1>2, <1>3, PTL DEF KernelSpec

-----------------------------------------------------------------------------
(* sort sorts.                                                             *)

\* A set of naturals has a least element.
LEMMA LeastElement ==
    ASSUME NEW S, S \subseteq Nat, S # {}
    PROVE  \E n \in S : \A m \in S : n <= m
<1> DEFINE R == OpToRel(<, Nat)
<1>1. IsWellFoundedOn(R, Nat)
    BY NatLessThanWellFounded
<1>2. \A x, y \in Nat : y < x => <<y, x>> \in R
    BY DEF OpToRel
<1> HIDE DEF R
<1>3. PICK x \in S : \A y \in S : ~ (<<y, x>> \in R)
    BY <1>1, WFMin
<1>4. ASSUME NEW y \in S PROVE x <= y
    <2>1. x \in Nat /\ y \in Nat
        BY <1>3
    <2>2. ~(y < x)
        BY <1>2, <1>3, <2>1
    <2> QED BY <2>1, <2>2
<1> QED BY <1>3, <1>4

\* Induction over the naturals, of a set that is to hold them all.
LEMMA SetInduction ==
    ASSUME NEW S, 0 \in S, \A n \in Nat : n \in S => n + 1 \in S
    PROVE  \A n \in Nat : n \in S
<1> SUFFICES ASSUME NEW n0 \in Nat, n0 \notin S PROVE FALSE
    OBVIOUS
<1> DEFINE T == {n \in Nat : n \notin S}
<1>1. PICK n \in T : \A m \in T : n <= m
    BY LeastElement
<1>2. n \in Nat /\ n # 0 /\ n \notin S
    BY <1>1
<1>3. n - 1 \in Nat /\ n - 1 \notin T
    BY <1>1, <1>2
<1>4. n - 1 \in S
    BY <1>3
<1>5. (n - 1) + 1 \in S
    BY <1>3, <1>4
<1> QED BY <1>2, <1>5

\* A step from a value and a place to the next value.
IsStep(n, X, a, step) == n \in Nat /\ a \in X /\ step \in [1 .. n -> [X -> X]]

\* The values on 0 .. n that the steps lead to.
Follows(n, X, a, step, f) ==
    /\ f \in [0 .. n -> X] /\ f[0] = a
    /\ \A k \in 1 .. n : f[k] = step[k][f[k - 1]]

\* A recursive function on 0 .. n that goes from each value to the next by a step.
LEMMA RecursionExists ==
    ASSUME NEW n, NEW X, NEW a, NEW step, IsStep(n, X, a, step)
    PROVE  \E f : Follows(n, X, a, step, f)
<1>0. n \in Nat /\ a \in X /\ step \in [1 .. n -> [X -> X]]
    BY DEF IsStep
<1> DEFINE UpTo(m, f) == f \in [0 .. m -> X] /\ f[0] = a
                         /\ \A k \in 1 .. m : f[k] = step[k][f[k - 1]]
           S == {m \in Nat : m <= n => \E f : UpTo(m, f)}
<1>1. 0 \in S
    <2>1. UpTo(0, [k \in 0 .. 0 |-> a])
        BY <1>0
    <2> QED BY <2>1
<1>2. ASSUME NEW m \in Nat, m \in S PROVE m + 1 \in S
    <2> SUFFICES ASSUME m + 1 <= n PROVE \E f : UpTo(m + 1, f)
        OBVIOUS
    <2>1. PICK f : UpTo(m, f)
        BY <1>0, <1>2
    <2> DEFINE g == [k \in 0 .. m + 1 |-> IF k = m + 1 THEN step[m + 1][f[m]] ELSE f[k]]
    <2>2. f[m] \in X /\ m + 1 \in 1 .. n
        BY <1>0, <2>1
    <2>3. step[m + 1][f[m]] \in X
        BY <1>0, <2>2
    <2>4. g \in [0 .. m + 1 -> X] /\ g[0] = a
        BY <2>1, <2>3
    <2>5. ASSUME NEW k \in 1 .. m + 1 PROVE g[k] = step[k][g[k - 1]]
        <3>1. k - 1 \in 0 .. m /\ g[k - 1] = f[k - 1]
            OBVIOUS
        <3>2. CASE k = m + 1
            <4>1. g[k] = step[k][f[m]] /\ k - 1 = m
                BY <3>2
            <4> QED BY <3>1, <4>1
        <3>3. CASE k \in 1 .. m
            <4>1. g[k] = f[k]
                BY <3>3
            <4>2. f[k] = step[k][f[k - 1]]
                BY <2>1, <3>3
            <4> QED BY <3>1, <4>1, <4>2
        <3> QED BY <3>2, <3>3
    <2> HIDE DEF g
    <2> QED BY <2>4, <2>5
<1> HIDE DEF S
<1>3. n \in S
    BY <1>0, <1>1, <1>2, SetInduction
<1> QED BY <1>0, <1>3 DEF S, Follows


\* The mark of what is placed is a number.
LEMMA FarIsANumber == FAR \in Nat \ {0}
    BY SMT DEF FAR

\* A state of the selection sort, and what a turn of its loop makes of it.
SortStates(n) == [d : [1 .. n -> 0 .. FAR], i : [1 .. n -> 1 .. n]]

Turn(s, k) ==
    LET m == NearestIndex(s.d)
    IN  [d |-> [s.d EXCEPT ![m] = s.d[k], ![k] = FAR],
         i |-> [s.i EXCEPT ![k] = s.i[m], ![m] = s.i[k]]]

\* The nearest of what is not placed yet.
LEMMA NearestFacts ==
    ASSUME NEW n \in Nat \ {0}, NEW d \in [1 .. n -> 0 .. FAR]
    PROVE  /\ NearestIndex(d) \in 1 .. n
           /\ (\E i \in 1 .. n : d[i] < FAR) =>
                  /\ d[NearestIndex(d)] < FAR
                  /\ \A i \in 1 .. n : d[NearestIndex(d)] <= d[i]
<1> DEFINE near == {i \in DOMAIN d : d[i] < FAR}
<1>1. CASE near = {}
    BY <1>1 DEF NearestIndex
<1>2. CASE near # {}
    <2> DEFINE values == {d[i] : i \in near}
    <2>1. values \subseteq Nat /\ values # {}
        BY <1>2, FarIsANumber
    <2>2. PICK v \in values : \A w \in values : v <= w
        BY <2>1, LeastElement
    <2> DEFINE places == {i \in near : d[i] = v}
    <2>3. places \subseteq Nat /\ places # {}
        BY <2>2
    <2>4. PICK i \in places : \A j \in places : i <= j
        BY <2>3, LeastElement
    <2> DEFINE P(k) == \A j \in near : d[k] < d[j] \/ (d[k] = d[j] /\ k <= j)
    <2>5. ASSUME NEW j \in near PROVE d[i] < d[j] \/ (d[i] = d[j] /\ i <= j)
        <3>1. d[i] = v /\ d[j] \in values /\ v <= d[j] /\ d[j] \in Nat /\ v \in Nat
            BY <2>1, <2>2, <2>4
        <3>2. d[j] = v => i <= j
            BY <2>4
        <3> QED BY <3>1, <3>2
    <2>6. i \in near /\ P(i)
        BY <2>4, <2>5
    <2>7. NearestIndex(d) = CHOOSE k \in near : P(k)
        BY <1>2 DEF NearestIndex
    <2> HIDE DEF P
    <2>8. NearestIndex(d) \in near /\ P(NearestIndex(d))
        BY <2>6, <2>7
    <2>9. ASSUME NEW j \in 1 .. n PROVE d[NearestIndex(d)] <= d[j]
        <3>1. d[j] \in 0 .. FAR /\ d[NearestIndex(d)] \in 0 .. FAR /\ d[NearestIndex(d)] < FAR
            BY <2>8
        <3>2. CASE j \in near
            BY <2>8, <3>1, <3>2, FarIsANumber DEF P
        <3>3. CASE j \notin near
            BY <3>1, <3>3, FarIsANumber
        <3> QED BY <3>2, <3>3
    <2> QED BY <2>8, <2>9
<1> QED BY <1>1, <1>2

\* A turn of the loop of sort keeps the types of its arrays.
LEMMA TurnType ==
    ASSUME NEW n \in Nat \ {0}, NEW s \in SortStates(n), NEW k \in 1 .. n
    PROVE  Turn(s, k) \in SortStates(n)
<1>1. s.d \in [1 .. n -> 0 .. FAR] /\ s.i \in [1 .. n -> 1 .. n]
    BY DEF SortStates
<1>2. NearestIndex(s.d) \in 1 .. n
    BY <1>1, NearestFacts
<1> DEFINE m == NearestIndex(s.d)
           e == [s.d EXCEPT ![m] = s.d[k], ![k] = FAR]
           j == [s.i EXCEPT ![k] = s.i[m], ![m] = s.i[k]]
<1>3. m \in 1 .. n
    BY <1>2
<1>4. Turn(s, k) = [d |-> e, i |-> j]
    BY DEF Turn
<1> HIDE DEF m
<1>5. FAR \in 0 .. FAR
    BY FarIsANumber
<1>6. e \in [1 .. n -> 0 .. FAR]
    BY <1>1, <1>3, <1>5
<1>7. j \in [1 .. n -> 1 .. n]
    BY <1>1, <1>3
<1> HIDE DEF e, j
<1>8. \A A, B : \A x \in A, y \in B : [d |-> x, i |-> y] \in [d : A, i : B]
    OBVIOUS
<1>9. [d |-> e, i |-> j] \in SortStates(n)
    BY <1>6, <1>7, <1>8 DEF SortStates
<1> QED BY ONLY <1>4, <1>9

\* The loop is a recursive function: it has the values its definition says.
LEMMA SortIsALoop ==
    ASSUME NEW n \in Nat, NEW distances \in [1 .. n -> 0 .. FAR - 1]
    PROVE  \E after \in [0 .. n -> SortStates(n)] :
               /\ after[0] = [d |-> distances, i |-> [k \in 1 .. n |-> k]]
               /\ \A k \in 1 .. n : after[k] = Turn(after[k - 1], k)
               /\ sort(distances, [k \in 1 .. n |-> k]) = after[n].i
<1> DEFINE ids == [k \in 1 .. n |-> k]
           begin == [d |-> distances, i |-> ids]
           step == [k \in 1 .. n |-> [s \in SortStates(n) |-> Turn(s, k)]]
           Loop(f) == f = [k \in 0 .. n |-> IF k = 0 THEN begin ELSE Turn(f[k - 1], k)]
           loop == CHOOSE f : Loop(f)
<1>1. begin \in SortStates(n)
    BY FarIsANumber DEF SortStates
<1>2. step \in [1 .. n -> [SortStates(n) -> SortStates(n)]]
    <2>1. ASSUME NEW s \in SortStates(n), NEW k \in 1 .. n PROVE Turn(s, k) \in SortStates(n)
        BY TurnType
    <2> QED BY <2>1
<1>3. PICK f \in [0 .. n -> SortStates(n)] :
          f[0] = begin /\ \A k \in 1 .. n : f[k] = step[k][f[k - 1]]
    <2> DEFINE X == SortStates(n)
    <2>1. IsStep(n, X, begin, step)
        BY <1>1, <1>2 DEF IsStep
    <2> HIDE DEF begin, step, X
    <2>2. \E f : Follows(n, X, begin, step, f)
        BY <2>1, RecursionExists
    <2> QED BY <2>2 DEF X, Follows
<1>4. ASSUME NEW k \in 1 .. n PROVE f[k] = Turn(f[k - 1], k)
    <2>1. f[k - 1] \in SortStates(n)
        BY <1>3
    <2> QED BY <1>3, <2>1
<1>5. Loop(f)
    <2>1. \A k \in 0 .. n : f[k] = IF k = 0 THEN begin ELSE Turn(f[k - 1], k)
        BY <1>3, <1>4
    <2> HIDE DEF begin
    <2> QED BY <1>3, <2>1
<1>6. Loop(loop)
    BY <1>5
<1>7. Len(ids) = n
    OBVIOUS
<1>8. sort(distances, ids) = loop[n].i
    BY <1>7 DEF sort, Turn
<1> HIDE DEF loop, begin, ids
<1>9. /\ DOMAIN loop = 0 .. n /\ loop[0] = begin
      /\ \A k \in 1 .. n : loop[k] = Turn(loop[k - 1], k)
    BY <1>6
<1>10. \A k \in 0 .. n : loop[k] \in SortStates(n)
    <2> DEFINE S == {k \in Nat : k <= n => loop[k] \in SortStates(n)}
    <2>1. 0 \in S
        BY <1>1, <1>9
    <2>2. ASSUME NEW k \in Nat, k \in S PROVE k + 1 \in S
        <3>1. CASE k + 1 <= n
            <4>1. k + 1 \in 1 .. n /\ (k + 1) - 1 = k /\ loop[k] \in SortStates(n) /\ n # 0
                BY <2>2, <3>1
            <4>2. loop[k + 1] = Turn(loop[k], k + 1)
                BY <1>9, <4>1
            <4> QED BY <4>1, <4>2, TurnType
        <3> QED BY <3>1
    <2> HIDE DEF S
    <2>3. \A k \in Nat : k \in S
        BY <2>1, <2>2, SetInduction
    <2> QED BY <2>3 DEF S
<1>11. loop = [k \in 0 .. n |-> IF k = 0 THEN begin ELSE Turn(loop[k - 1], k)]
    BY <1>6
<1>12. loop \in [0 .. n -> SortStates(n)]
    BY <1>10, <1>11
<1> QED BY <1>8, <1>9, <1>12 DEF ids, begin

\* Every index is in one place.
IsPermutation(n, i) ==
    /\ i \in [1 .. n -> 1 .. n]
    /\ \A p, q \in 1 .. n : i[p] = i[q] => p = q
    /\ \A v \in 1 .. n : \E p \in 1 .. n : i[p] = v

\* Places k and m change their indices.
Swapped(i, j, k, m) == j = [i EXCEPT ![k] = i[m], ![m] = i[k]]

\* After k turns: the first k places hold the k nearest in order and are marked, the
\* others hold the rest with their distances.
IsSortedUpTo(n, distances, s, k) ==
    /\ \A p \in 1 .. n : p <= k => s.d[p] = FAR
    /\ \A p \in 1 .. n : p > k => s.d[p] = distances[s.i[p]]
    /\ IsPermutation(n, s.i)
    /\ \A p, q \in 1 .. n : p <= k /\ p <= q => distances[s.i[p]] <= distances[s.i[q]]

\* Swapping two places of a sequence with every index leaves it one.
LEMMA SwapFacts ==
    ASSUME NEW n, NEW i, NEW j, NEW k \in 1 .. n, NEW m \in 1 .. n,
           IsPermutation(n, i), Swapped(i, j, k, m)
    PROVE  IsPermutation(n, j)
<1>1. /\ i \in [1 .. n -> 1 .. n]
      /\ \A p, q \in 1 .. n : i[p] = i[q] => p = q
      /\ \A v \in 1 .. n : \E p \in 1 .. n : i[p] = v
    BY DEF IsPermutation
<1>2. j[k] = i[m] /\ j[m] = i[k] /\ \A p \in (1 .. n) \ {k, m} : j[p] = i[p]
    BY <1>1 DEF Swapped
<1>3. j \in [1 .. n -> 1 .. n]
    BY <1>1 DEF Swapped
<1> DEFINE from == [p \in 1 .. n |-> IF p = k THEN m ELSE IF p = m THEN k ELSE p]
<1>4. \A p \in 1 .. n : from[p] \in 1 .. n /\ j[p] = i[from[p]]
    BY <1>2
<1>5. \A p \in 1 .. n : from[from[p]] = p
    OBVIOUS
<1> HIDE DEF from
<1>6. ASSUME NEW p \in 1 .. n, NEW q \in 1 .. n, j[p] = j[q] PROVE p = q
    <2>1. from[p] = from[q]
        <3>1. from[p] \in 1 .. n /\ from[q] \in 1 .. n /\ i[from[p]] = i[from[q]]
            BY <1>4, <1>6
        <3> QED BY <1>1, <3>1
    <2>2. from[from[p]] = p /\ from[from[q]] = q
        BY <1>5
    <2> QED BY <2>1, <2>2
<1>7. ASSUME NEW v \in 1 .. n PROVE \E p \in 1 .. n : j[p] = v
    <2>1. PICK p \in 1 .. n : i[p] = v
        BY <1>1
    <2>2. from[p] \in 1 .. n /\ j[from[p]] = v
        BY <1>4, <1>5, <2>1
    <2> QED BY <2>2
<1> QED BY <1>3, <1>6, <1>7 DEF IsPermutation

\* A turn puts the nearest of what is left behind what is sorted, and leaves a permutation.
LEMMA TurnSorts ==
    ASSUME NEW n \in Nat \ {0}, NEW distances \in [1 .. n -> 0 .. FAR - 1],
           NEW k \in 1 .. n, NEW s \in SortStates(n),
           IsSortedUpTo(n, distances, s, k - 1)
    PROVE  IsSortedUpTo(n, distances, Turn(s, k), k)
<1> DEFINE m == NearestIndex(s.d)  i == s.i  d == s.d
           e == [s.d EXCEPT ![m] = s.d[k], ![k] = FAR]
           j == [s.i EXCEPT ![k] = s.i[m], ![m] = s.i[k]]
<1>1. d \in [1 .. n -> 0 .. FAR] /\ i \in [1 .. n -> 1 .. n]
    BY DEF SortStates
<1>2. /\ \A p \in 1 .. n : p <= k - 1 => d[p] = FAR
      /\ \A p \in 1 .. n : p >= k => d[p] = distances[i[p]]
      /\ IsPermutation(n, i)
      /\ \A p, q \in 1 .. n : p <= k - 1 /\ p <= q => distances[i[p]] <= distances[i[q]]
    BY DEF IsSortedUpTo
<1>3. \A v \in 1 .. n : distances[v] \in Nat /\ distances[v] < FAR
    BY FarIsANumber
<1>4. d[k] < FAR
    <2>1. d[k] = distances[i[k]] /\ i[k] \in 1 .. n
        <3>1. k \in 1 .. n /\ k >= k
            OBVIOUS
        <3> HIDE DEF d, i
        <3>2. d[k] = distances[i[k]]
            BY ONLY <1>2, <3>1
        <3>3. i[k] \in 1 .. n
            BY <1>1
        <3> QED BY ONLY <3>2, <3>3
    <2> QED BY <1>3, <2>1
<1>5. m \in 1 .. n /\ d[m] < FAR /\ \A p \in 1 .. n : d[m] <= d[p]
    BY <1>1, <1>4, NearestFacts
<1>6. m >= k
    BY <1>2, <1>5, FarIsANumber
<1>7. Turn(s, k).d = e /\ Turn(s, k).i = j
    BY DEF Turn
<1>8. /\ j[k] = i[m] /\ j[m] = i[k]
      /\ \A p \in (1 .. n) \ {k, m} : j[p] = i[p]
      /\ IsPermutation(n, j)
    <2>1. m \in 1 .. n /\ k \in 1 .. n /\ IsPermutation(n, i)
        BY <1>2, <1>5
    <2>2. Swapped(i, j, k, m)
        BY DEF Swapped
    <2>3. j[k] = i[m] /\ j[m] = i[k] /\ \A p \in (1 .. n) \ {k, m} : j[p] = i[p]
        <3> HIDE DEF m
        <3> QED BY <1>1, <2>1
    <2> HIDE DEF m, i, j
    <2>4. IsPermutation(n, j)
        BY ONLY <2>1, <2>2, SwapFacts
    <2> QED BY <2>3, <2>4
<1>9. /\ e[k] = FAR /\ (m # k => e[m] = d[k])
      /\ \A p \in (1 .. n) \ {k, m} : e[p] = d[p]
    <2> HIDE DEF m
    <2> QED BY <1>1, <1>5
<1> HIDE DEF e, j, m, i, d
<1>10. ASSUME NEW p \in 1 .. n, p <= k PROVE e[p] = FAR
    <2>1. CASE p = k
        BY <1>9, <2>1
    <2>2. CASE p <= k - 1
        <3>1. p \in (1 .. n) \ {k, m}
            BY <1>5, <1>6, <2>2
        <3> QED BY <1>2, <1>9, <2>2, <3>1
    <2> QED BY <1>10, <2>1, <2>2
<1>11. ASSUME NEW p \in 1 .. n, p > k PROVE e[p] = distances[j[p]]
    <2>1. CASE p = m
        <3>1. e[m] = d[k] /\ j[m] = i[k] /\ d[k] = distances[i[k]]
            BY <1>2, <1>8, <1>9, <1>11, <2>1
        <3> QED BY <2>1, <3>1
    <2>2. CASE p # m
        <3>1. p \in (1 .. n) \ {k, m} /\ p >= k
            BY <1>11, <2>2
        <3>2. e[p] = d[p] /\ j[p] = i[p] /\ d[p] = distances[i[p]]
            BY <1>2, <1>8, <1>9, <3>1
        <3> QED BY <3>2
    <2> QED BY <2>1, <2>2
<1>12. ASSUME NEW p \in 1 .. n, NEW q \in 1 .. n, p <= k, p <= q
       PROVE  distances[j[p]] <= distances[j[q]]
    <2>1. \A x \in 1 .. n : i[x] \in 1 .. n
        BY <1>1
    <2>2. ASSUME NEW x \in 1 .. n, x >= k PROVE \E y \in 1 .. n : y >= k /\ j[x] = i[y]
        <3>1. CASE x = k
            BY <1>5, <1>6, <1>8, <3>1
        <3>2. CASE x = m
            BY <1>8, <3>2
        <3>3. CASE x \notin {k, m}
            BY <1>8, <2>2, <3>3
        <3> QED BY <3>1, <3>2, <3>3
    <2>3. \A x \in 1 .. n : x <= k - 1 => j[x] = i[x]
        BY <1>6, <1>8
    <2>4. CASE p = k
        <3>1. PICK y \in 1 .. n : y >= k /\ j[q] = i[y]
            BY <1>12, <2>2, <2>4
        <3>2. d[m] = distances[i[m]] /\ d[y] = distances[i[y]] /\ d[m] <= d[y]
            BY <1>2, <1>5, <1>6, <3>1
        <3>3. j[p] = i[m]
            BY <1>8, <2>4
        <3> QED BY <3>1, <3>2, <3>3
    <2>5. CASE p <= k - 1 /\ q <= k - 1
        BY <1>2, <1>12, <2>3, <2>5
    <2>6. CASE p <= k - 1 /\ q >= k
        <3>1. PICK y \in 1 .. n : y >= k /\ j[q] = i[y]
            BY <2>2, <2>6
        <3>2. j[p] = i[p] /\ p <= y
            BY <2>3, <2>6, <3>1
        <3>3. distances[i[p]] <= distances[i[y]]
            BY <1>2, <2>6, <3>1, <3>2
        <3> QED BY <3>1, <3>2, <3>3
    <2> QED BY <1>12, <2>4, <2>5, <2>6
<1> QED BY <1>7, <1>8, <1>10, <1>11, <1>12 DEF IsSortedUpTo

\* The sort of Sorting.h, which marks what it has placed with MAX: as long as every
\* distance is below MAX, it puts every index in one place, in the order of the distances.
THEOREM SortIsSorting ==
    ASSUME NEW n \in Nat, NEW distances \in [1 .. n -> 0 .. FAR - 1]
    PROVE  LET order == sort(distances, [k \in 1 .. n |-> k])
           IN  /\ order \in [1 .. n -> 1 .. n]
               /\ \A p, q \in 1 .. n : order[p] = order[q] => p = q
               /\ \A v \in 1 .. n : \E p \in 1 .. n : order[p] = v
               /\ \A p, q \in 1 .. n : p <= q => distances[order[p]] <= distances[order[q]]
<1> DEFINE order == sort(distances, [k \in 1 .. n |-> k])
<1>1. PICK after \in [0 .. n -> SortStates(n)] :
          /\ after[0] = [d |-> distances, i |-> [k \in 1 .. n |-> k]]
          /\ \A k \in 1 .. n : after[k] = Turn(after[k - 1], k)
          /\ order = after[n].i
    BY SortIsALoop
<1> HIDE DEF order
<1> DEFINE S == {k \in Nat : k <= n => IsSortedUpTo(n, distances, after[k], k)}
<1>2. 0 \in S
    <2>1. after[0].d = distances /\ after[0].i = [k \in 1 .. n |-> k]
        BY <1>1
    <2>2. IsSortedUpTo(n, distances, after[0], 0)
        BY <2>1 DEF IsSortedUpTo, IsPermutation
    <2> QED BY <2>2
<1>3. ASSUME NEW k \in Nat, k \in S PROVE k + 1 \in S
    <2>1. CASE k + 1 <= n
        <3>1. k + 1 \in 1 .. n /\ n \in Nat \ {0} /\ (k + 1) - 1 = k
            BY <2>1
        <3>2. after[k] \in SortStates(n) /\ after[k + 1] = Turn(after[k], k + 1)
            BY <1>1, <3>1
        <3>3. IsSortedUpTo(n, distances, after[k], (k + 1) - 1)
            BY <1>3, <3>1
        <3>4. IsSortedUpTo(n, distances, after[k + 1], k + 1)
            BY <3>1, <3>2, <3>3, TurnSorts
        <3> QED BY <3>4
    <2> QED BY <2>1
<1> HIDE DEF S
<1>4. n \in S
    BY <1>2, <1>3, SetInduction
<1>5. IsSortedUpTo(n, distances, after[n], n)
    BY <1>4 DEF S
<1>6. IsPermutation(n, order) /\ \A p, q \in 1 .. n : p <= q => distances[order[p]] <= distances[order[q]]
    BY <1>1, <1>5 DEF IsSortedUpTo
<1> QED BY <1>6 DEF IsPermutation, order

-----------------------------------------------------------------------------
(* Orders by two sequences of distances.                                   *)

\* Orders by two sequences of distances are told apart by what is farther in the one and
\* nearer in the other: at most one of these is at the same place in both.
Reverses(H, near, far) ==
    \A u, v \in H : u # v => \/ near[u] < near[v] /\ far[v] < far[u]
                             \/ near[v] < near[u] /\ far[u] < far[v]

\* The orders of places that the distances reverse differ at all of them, or all but one.
LEMMA ReversedOrders ==
    ASSUME NEW n \in Nat, NEW near \in [1 .. n -> 0 .. FAR - 1], NEW far \in [1 .. n -> 0 .. FAR - 1],
           NEW H \in SUBSET (1 .. n), Reverses(H, near, far)
    PROVE  count(sort(near, [k \in 1 .. n |-> k]), sort(far, [k \in 1 .. n |-> k]))
               >= Cardinality(H) - 1
<1> DEFINE ids == [k \in 1 .. n |-> k]  a == sort(near, ids)  c == sort(far, ids)
           differing == {p \in 1 .. n : a[p] # c[p]}
<1>1. /\ IsPermutation(n, a)
      /\ \A p, q \in 1 .. n : p <= q => near[a[p]] <= near[a[q]]
    BY SortIsSorting DEF IsPermutation
<1>2. /\ IsPermutation(n, c)
      /\ \A p, q \in 1 .. n : p <= q => far[c[p]] <= far[c[q]]
    BY SortIsSorting DEF IsPermutation
<1>3. count(a, c) = Cardinality(differing)
    BY <1>1 DEF count, IsPermutation
<1> HIDE DEF a, c
<1>4. IsFiniteSet(1 .. n)
    BY FS_Interval
<1>5. IsFiniteSet(H) /\ IsFiniteSet(differing)
    BY <1>4, FS_Subset
<1>6. Cardinality(H) \in Nat /\ Cardinality(differing) \in Nat
    BY <1>5, FS_CardinalityType
<1> DEFINE place == [u \in H |-> CHOOSE p \in 1 .. n : a[p] = u]
<1>7. \A u \in H : place[u] \in 1 .. n /\ a[place[u]] = u
    BY <1>1 DEF IsPermutation
<1> HIDE DEF place
<1> DEFINE stays == {u \in H : place[u] \notin differing}
<1>8. ASSUME NEW u \in stays, NEW v \in stays, place[u] <= place[v] PROVE u = v
    <2> DEFINE p == place[u]  q == place[v]
    <2>1. /\ p \in 1 .. n /\ q \in 1 .. n /\ p <= q /\ a[p] = u /\ a[q] = v /\ c[p] = u /\ c[q] = v
          /\ u \in H /\ v \in H
        BY <1>7, <1>8
    <2> HIDE DEF p, q
    <2>2. near[u] <= near[v] /\ far[u] <= far[v]
        BY <1>1, <1>2, <2>1
    <2>3. u \in 1 .. n /\ v \in 1 .. n
        BY <2>1
    <2>4. near[u] \in Int /\ near[v] \in Int /\ far[u] \in Int /\ far[v] \in Int
        BY <2>3, FarIsANumber, SMT
    <2>5. ~(near[v] < near[u]) /\ ~(far[v] < far[u])
        BY <2>2, <2>4, SMT
    <2> SUFFICES ASSUME u # v PROVE FALSE
        OBVIOUS
    <2>6. \/ near[u] < near[v] /\ far[v] < far[u]
          \/ near[v] < near[u] /\ far[u] < far[v]
        BY <2>1 DEF Reverses
    <2> QED BY <2>5, <2>6, Zenon
<1>9. ASSUME NEW u \in stays, NEW v \in stays PROVE u = v
    <2>1. place[u] \in Int /\ place[v] \in Int
        BY <1>7
    <2>2. place[u] <= place[v] \/ place[v] <= place[u]
        BY <2>1
    <2> HIDE DEF stays
    <2> QED BY <1>8, <2>2
<1> DEFINE moves == H \ stays
<1>10. IsFiniteSet(moves) /\ Cardinality(moves) \in Nat
    BY <1>5, FS_Subset, FS_CardinalityType
<1>11. Cardinality(moves) <= Cardinality(differing)
    <2> DEFINE f == [u \in moves |-> place[u]]
    <2>1. f \in [moves -> differing]
        BY <1>7
    <2>2. \A u, v \in moves : f[u] = f[v] => u = v
        BY <1>7
    <2>3. f \in Injection(moves, differing)
        BY <2>1, <2>2 DEF Injection, IsInjective
    <2> QED BY <1>5, <2>3, FS_Injection
<1>12. Cardinality(H) = Cardinality(moves) \/ Cardinality(H) = Cardinality(moves) + 1
    <2>1. CASE stays = {}
        <3>1. moves = H
            BY <2>1
        <3> QED BY <3>1
    <2>2. CASE stays # {}
        <3>1. PICK u : u \in stays
            BY <2>2
        <3>2. H = moves \cup {u} /\ u \notin moves
            BY <1>9, <3>1
        <3> HIDE DEF moves
        <3>3. Cardinality(moves \cup {u}) = Cardinality(moves) + 1
            BY <1>10, <3>2, FS_AddElement
        <3> QED BY <3>2, <3>3
    <2> QED BY <2>1, <2>2
<1> DEFINE h == Cardinality(H)  m == Cardinality(moves)  d == Cardinality(differing)
<1>13. h \in Nat /\ m \in Nat /\ d \in Nat /\ m <= d /\ (h = m \/ h = m + 1)
    BY <1>6, <1>10, <1>11, <1>12
<1> HIDE DEF h, m, d
<1>14. d >= h - 1
    BY <1>13, SMT
<1> QED BY <1>3, <1>14 DEF h, d, a, c, ids

-----------------------------------------------------------------------------
(* Where lines enter and leave a section.                                  *)

\* The signs and the order of products by a positive number.
LEMMA SmallProducts ==
    /\ \A k, t \in Int : k > 0 /\ t >= 0 => k * t \in Int /\ k * t >= 0
    /\ \A k, t \in Int : k > 0 /\ t < 0 => k * t \in Int /\ k * t < 0
    /\ \A k, s, t \in Int : k > 0 /\ s < t => k * s < k * t
    /\ \A k, s, t \in Int : k > 0 /\ k * s < k * t => s < t
<1>1. \A k, t \in Int : k > 0 /\ t >= 0 => k * t \in Int /\ k * t >= 0
    BY Z3
<1>2. \A k, t \in Int : k > 0 /\ t < 0 => k * t \in Int /\ k * t < 0
    BY Z3
<1>3. \A k, s, t \in Int : k > 0 /\ s < t => k * s < k * t
    <2>1. SUFFICES ASSUME NEW k \in Int, NEW s \in Int, NEW t \in Int, k > 0, s < t PROVE k * s < k * t
        OBVIOUS
    <2>2. k * (t - s) > 0
        BY <2>1, Z3
    <2>3. k * (t - s) = k * t - k * s
        BY Z3
    <2> QED BY <2>2, <2>3, Z3
<1>4. \A k, s, t \in Int : k > 0 /\ k * s < k * t => s < t
    <2>1. SUFFICES ASSUME NEW k \in Int, NEW s \in Int, NEW t \in Int, k > 0, k * s < k * t PROVE s < t
        OBVIOUS
    <2>2. k * (t - s) = k * t - k * s
        BY Z3
    <2>3. k * (t - s) > 0
        BY <2>1, <2>2, Z3
    <2>4. ~(t - s <= 0)
        BY <2>1, <2>3, Z3
    <2> QED BY <2>4, Z3
<1> QED BY <1>1, <1>2, <1>3, <1>4

\* b is the number of times a goes into U.
GoesInto(U, a, b) ==
    /\ U \in Int /\ U > 0 /\ a \in Int /\ a > 0 /\ b \in Int /\ b > 0
    /\ U = b * a

SmallerTimes(a, u, e, t) == u \in Int /\ t \in Int /\ a * u < e * t

\* U is both k * a and j * e, and e * t > a * u: then k * t > j * u.
LEMMA CrossMultiply ==
    ASSUME NEW U, NEW a, NEW e, NEW k, NEW j, NEW t, NEW u,
           GoesInto(U, a, k), GoesInto(U, e, j), SmallerTimes(a, u, e, t)
    PROVE  j * u < k * t
<1>0. /\ U \in Int /\ U > 0 /\ a \in Int /\ a > 0 /\ k \in Int /\ k > 0
      /\ e \in Int /\ e > 0 /\ j \in Int /\ j > 0 /\ t \in Int /\ u \in Int
      /\ U = k * a /\ U = j * e /\ a * u < e * t
    BY DEF GoesInto, SmallerTimes
<1>1. (k * j) \in Int /\ k * j > 0
    BY <1>0, Z3
<1>2. (a * u) \in Int /\ (e * t) \in Int /\ (j * u) \in Int /\ (k * t) \in Int
    BY <1>0, Z3
<1>3. (k * j) * (a * u) < (k * j) * (e * t)
    BY <1>0, <1>1, <1>2, SmallProducts
<1>4. (k * j) * (a * u) = (k * a) * (j * u)
    BY <1>0, Z3
<1>5. (k * j) * (e * t) = (j * e) * (k * t)
    BY <1>0, Z3
<1>6. U * (j * u) < U * (k * t)
    BY <1>0, <1>3, <1>4, <1>5
<1> QED BY <1>0, <1>2, <1>6, SmallProducts

IsBox(s) ==
    /\ s.xBegin \in Int /\ s.yBegin \in Int /\ s.xSize \in Nat /\ s.ySize \in Nat

IsLine(p) ==
    /\ Slope(p) \in Nat \ {0} /\ p.phi \in Int
    /\ DistanceUnit % Slope(p) = 0

\* How far below the lower left corner the line enters, and below the upper right
\* corner it leaves.
Depth(s, p) == s.yBegin - (Slope(p) * s.xBegin + Intercept(p))
Room(s, p) == s.yBegin + s.ySize - (Slope(p) * (s.xBegin + s.xSize) + Intercept(p))

\* DistanceUnit over the slope.
Run(p) == DistanceUnit \div Slope(p)

\* What is an integer of a line and a section, and that a slope divides the unit of distance.
LEMMA LineTypes ==
    ASSUME NEW s, IsBox(s), NEW p, IsLine(p)
    PROVE  /\ Intercept(p) \in Int /\ Depth(s, p) \in Int /\ Room(s, p) \in Int
           /\ Slope(p) \in Int /\ Slope(p) > 0 /\ Run(p) \in Int /\ Run(p) > 0
           /\ DistanceUnit \in Int /\ DistanceUnit > 0
           /\ DistanceUnit = Run(p) * Slope(p)
<1> DEFINE a == Slope(p)  k == Run(p)  b == Intercept(p)  U == DistanceUnit
<1>1. a \in Nat \ {0} /\ p.phi \in Int /\ U % a = 0 /\ U \in Nat \ {0}
    BY SectionAssumption DEF IsLine
<1>2. b \in Int
    BY <1>1, Z3 DEF Intercept
<1>3. s.xBegin \in Int /\ s.yBegin \in Int /\ s.xSize \in Int /\ s.ySize \in Int
    BY DEF IsBox
<1>4. k \in Int /\ U = a * k + (U % a)
    <2>1. k = U \div a
        BY DEF Run
    <2> HIDE DEF a, k, U
    <2> QED BY <1>1, <2>1, DivisionFacts
<1>5. Depth(s, p) = s.yBegin - (a * s.xBegin + b)
    BY DEF Depth
<1>6. Room(s, p) = s.yBegin + s.ySize - (a * (s.xBegin + s.xSize) + b)
    BY DEF Room
<1> HIDE DEF a, k, b, U
<1>7. Depth(s, p) \in Int /\ Room(s, p) \in Int
    BY <1>1, <1>2, <1>3, <1>5, <1>6, Z3
<1>8. U = k * a
    BY <1>1, <1>4, Z3
<1>9. k > 0
    <2>1. CASE k <= 0
        <3>1. k * a <= 0
            BY <1>1, <1>4, <2>1, Z3
        <3> QED BY <1>1, <1>8, <3>1
    <2> QED BY <1>4, <2>1
<1>10. a \in Int /\ a > 0 /\ U \in Int /\ U > 0
    BY <1>1
<1> QED BY <1>2, <1>4, <1>7, <1>8, <1>9, <1>10, Zenon DEF a, k, b, U

\* The distances, by how deep the line enters and how much room it leaves.
LEMMA DistancesByDepth ==
    ASSUME NEW s, IsBox(s), NEW p, IsLine(p)
    PROVE  LET acc == distACC(s, Slope(p), Intercept(p))
               cc == distCC(s, Slope(p), Intercept(p))
           IN  /\ Depth(s, p) >= 0 => acc = DistanceUnit * s.ySize + Run(p) * Depth(s, p)
               /\ Depth(s, p) < 0 => acc = DistanceUnit * s.ySize + DistanceUnit * Depth(s, p)
               /\ Room(s, p) >= 0 => cc = DistanceUnit * s.xSize + DistanceUnit * Room(s, p)
               /\ Room(s, p) < 0 => cc = DistanceUnit * s.xSize + Run(p) * Room(s, p)
<1> DEFINE a == Slope(p)  k == Run(p)  b == Intercept(p)  U == DistanceUnit
           xb == s.xBegin  yb == s.yBegin  xs == s.xSize  ys == s.ySize
           t == Depth(s, p)  u == Room(s, p)
<1>1. /\ a \in Int /\ k \in Int /\ b \in Int /\ U \in Int /\ t \in Int /\ u \in Int
      /\ U = k * a
    BY LineTypes
<1>2. xb \in Int /\ yb \in Int /\ xs \in Int /\ ys \in Int
    BY DEF IsBox
<1>3. t = yb - (a * xb + b) /\ u = yb + ys - (a * (xb + xs) + b)
    BY DEF Depth, Room
<1>4. distACC(s, a, b) = IF a * xb + b <= yb THEN U * (ys - xb) + k * (yb - b) ELSE U * (yb + ys - (a * xb + b))
    BY DEF distACC, Run
<1>5. distCC(s, a, b) = IF a * (xb + xs) + b <= yb + ys THEN U * (xs + (yb + ys) - (a * (xb + xs) + b))
                        ELSE k * ((yb + ys) - b) - U * xb
    BY DEF distCC, Run
<1> HIDE DEF a, k, b, U, xb, yb, xs, ys, t, u
<1> DEFINE e == a * xb  f == a * (xb + xs)
<1>6. e \in Int /\ f \in Int
    BY <1>1, <1>2, Z3
<1>7. k * e = U * xb /\ k * f = U * (xb + xs)
    BY <1>1, <1>2, Z3
<1> HIDE DEF e, f
<1>8. ASSUME t >= 0 PROVE distACC(s, a, b) = U * ys + k * t
    <2>1. distACC(s, a, b) = U * (ys - xb) + k * (yb - b)
        BY <1>1, <1>2, <1>3, <1>4, <1>6, <1>8 DEF e
    <2>2. yb - b = t + e
        BY <1>1, <1>2, <1>3, <1>6 DEF e
    <2>3. k * (t + e) = k * t + k * e
        BY <1>1, <1>6, Z3
    <2>4. U * (ys - xb) = U * ys - U * xb
        BY <1>1, <1>2, Z3
    <2>5. (k * t) \in Int /\ (U * ys) \in Int /\ (U * xb) \in Int
        BY <1>1, <1>2, Z3
    <2>6. distACC(s, a, b) = (U * ys - U * xb) + (k * t + U * xb)
        BY <2>1, <2>2, <2>3, <2>4, <1>7
    <2> QED BY <1>8, <2>5, <2>6
<1>9. ASSUME t < 0 PROVE distACC(s, a, b) = U * ys + U * t
    <2>1. distACC(s, a, b) = U * (yb + ys - (e + b))
        BY <1>1, <1>2, <1>3, <1>4, <1>6, <1>9 DEF e
    <2>2. yb + ys - (e + b) = ys + t
        BY <1>1, <1>2, <1>3, <1>6 DEF e
    <2>3. U * (ys + t) = U * ys + U * t
        BY <1>1, <1>2, Z3
    <2> QED BY <1>1, <1>9, <2>1, <2>2, <2>3
<1>10. ASSUME u >= 0 PROVE distCC(s, a, b) = U * xs + U * u
    <2>1. distCC(s, a, b) = U * (xs + (yb + ys) - (f + b))
        BY <1>1, <1>2, <1>3, <1>5, <1>6, <1>10 DEF f
    <2>2. xs + (yb + ys) - (f + b) = xs + u
        BY <1>1, <1>2, <1>3, <1>6 DEF f
    <2>3. U * (xs + u) = U * xs + U * u
        BY <1>1, <1>2, Z3
    <2> QED BY <1>1, <1>10, <2>1, <2>2, <2>3
<1>11. ASSUME u < 0 PROVE distCC(s, a, b) = U * xs + k * u
    <2>1. distCC(s, a, b) = k * ((yb + ys) - b) - U * xb
        BY <1>1, <1>2, <1>3, <1>5, <1>6, <1>11 DEF f
    <2>2. (yb + ys) - b = u + f
        BY <1>1, <1>2, <1>3, <1>6 DEF f
    <2>3. k * (u + f) = k * u + k * f
        BY <1>1, <1>6, Z3
    <2>4. U * (xb + xs) = U * xb + U * xs
        BY <1>1, <1>2, Z3
    <2>5. (k * u) \in Int /\ (U * xs) \in Int /\ (U * xb) \in Int
        BY <1>1, <1>2, Z3
    <2>6. distCC(s, a, b) = (k * u + (U * xb + U * xs)) - U * xb
        BY <2>1, <2>2, <2>3, <2>4, <1>7
    <2> QED BY <1>11, <2>5, <2>6
<1> QED BY <1>8, <1>9, <1>10, <1>11 DEF a, k, b, U, xs, ys, t, u

\* Products by a positive number keep the order.
LEMMA WeakProducts ==
    \A k, s, t \in Int : k > 0 /\ s <= t => k * s <= k * t
<1>1. SUFFICES ASSUME NEW k \in Int, NEW s \in Int, NEW t \in Int, k > 0, s <= t PROVE k * s <= k * t
    OBVIOUS
<1>2. s < t \/ s = t
    BY <1>1
<1>3. (k * s) \in Int /\ (k * t) \in Int
    BY Z3
<1> QED BY <1>1, <1>2, <1>3, SmallProducts

\* Lines that cross in a part of a section cross in the section.
LEMMA CrossesAround ==
    ASSUME NEW s, IsBox(s), NEW c, IsBox(c), Within(c, s),
           NEW p, IsLine(p), NEW q, IsLine(q), SteeperCrosses(c, p, q)
    PROVE  SteeperCrosses(s, p, q)
<1> DEFINE d == Slope(p) - Slope(q)
           phi == Intercept(q) - Intercept(p)
           y == Slope(p) * Intercept(q) - Slope(q) * Intercept(p)
           xe == s.xBegin + s.xSize  ye == s.yBegin + s.ySize
           cxe == c.xBegin + c.xSize  cye == c.yBegin + c.ySize
           xb == s.xBegin  yb == s.yBegin  cxb == c.xBegin  cyb == c.yBegin
<1>1. Slope(p) \in Int /\ Slope(q) \in Int /\ Intercept(p) \in Int /\ Intercept(q) \in Int
    BY LineTypes
<1>2. d \in Int /\ phi \in Int
    BY <1>1
<1>3. y \in Int
    BY <1>1, Z3
<1>4. /\ xb \in Int /\ yb \in Int /\ cxb \in Int /\ cyb \in Int
      /\ xe \in Int /\ ye \in Int /\ cxe \in Int /\ cye \in Int
    BY DEF IsBox
<1>5. xb <= cxb /\ cxe <= xe /\ yb <= cyb /\ cye <= ye
    BY <1>4 DEF Within
<1>6. d > 0 /\ d * cxb < phi /\ phi < d * cxe /\ d * cyb < y /\ y < d * cye
    BY DEF SteeperCrosses
<1> HIDE DEF d, phi, y, xe, ye, cxe, cye, xb, yb, cxb, cyb
<1>7. d * xb <= d * cxb /\ d * cxe <= d * xe /\ d * yb <= d * cyb /\ d * cye <= d * ye
    BY <1>2, <1>4, <1>5, <1>6, WeakProducts
<1>8. /\ (d * xb) \in Int /\ (d * cxb) \in Int /\ (d * xe) \in Int /\ (d * cxe) \in Int
      /\ (d * yb) \in Int /\ (d * cyb) \in Int /\ (d * ye) \in Int /\ (d * cye) \in Int
    BY <1>2, <1>4, Z3
<1>9. d > 0 /\ d * xb < phi /\ phi < d * xe /\ d * yb < y /\ y < d * ye
    BY <1>2, <1>3, <1>6, <1>7, <1>8
<1> QED BY <1>9, Zenon DEF SteeperCrosses, d, phi, y, xe, ye, xb, yb

\* The steeper of two lines that cross in a section enters it farther from its upper
\* left corner, and leaves it nearer to that corner.
LEMMA CrossingTurnsOrder ==
    ASSUME NEW s, IsBox(s), NEW p, IsLine(p), NEW q, IsLine(q), SteeperCrosses(s, p, q)
    PROVE  /\ distACC(s, Slope(q), Intercept(q)) < distACC(s, Slope(p), Intercept(p))
           /\ distCC(s, Slope(p), Intercept(p)) < distCC(s, Slope(q), Intercept(q))
<1> DEFINE a == Slope(p)  k == Run(p)  b == Intercept(p)
           e == Slope(q)  j == Run(q)  f == Intercept(q)
           U == DistanceUnit
           xb == s.xBegin  yb == s.yBegin  xs == s.xSize  ys == s.ySize
           t == Depth(s, p)  u == Room(s, p)
           v == Depth(s, q)  w == Room(s, q)
<1>1. /\ a \in Int /\ a > 0 /\ k \in Int /\ k > 0 /\ b \in Int /\ t \in Int /\ u \in Int
      /\ U \in Int /\ U > 0 /\ U = k * a
    BY LineTypes
<1>2. /\ e \in Int /\ e > 0 /\ j \in Int /\ j > 0 /\ f \in Int /\ v \in Int /\ w \in Int
      /\ U = j * e
    BY LineTypes
<1>3. xb \in Int /\ yb \in Int /\ xs \in Int /\ ys \in Int
    BY DEF IsBox
<1>4. /\ t = yb - (a * xb + b) /\ u = yb + ys - (a * (xb + xs) + b)
      /\ v = yb - (e * xb + f) /\ w = yb + ys - (e * (xb + xs) + f)
    BY DEF Depth, Room
<1>5. /\ (a - e) * xb < f - b /\ f - b < (a - e) * (xb + xs)
      /\ (a - e) * yb < a * f - e * b /\ a * f - e * b < (a - e) * (yb + ys)
    BY DEF SteeperCrosses
<1>6. LET acc == distACC(s, a, b)
          cc == distCC(s, a, b)
      IN  /\ t >= 0 => acc = U * ys + k * t
          /\ t < 0 => acc = U * ys + U * t
          /\ u >= 0 => cc = U * xs + U * u
          /\ u < 0 => cc = U * xs + k * u
    BY DistancesByDepth
<1>7. LET acc == distACC(s, e, f)
          cc == distCC(s, e, f)
      IN  /\ v >= 0 => acc = U * ys + j * v
          /\ v < 0 => acc = U * ys + U * v
          /\ w >= 0 => cc = U * xs + U * w
          /\ w < 0 => cc = U * xs + j * w
    BY DistancesByDepth
<1> DEFINE accp == distACC(s, a, b)  ccp == distCC(s, a, b)
           accq == distACC(s, e, f)  ccq == distCC(s, e, f)
<1> SUFFICES accq < accp /\ ccp < ccq
    OBVIOUS
<1> HIDE DEF accp, ccp, accq, ccq, a, k, b, e, j, f, U, xb, yb, xs, ys, t, u, v, w
<1>8. v < t
    <2>1. (a - e) * xb = a * xb - e * xb /\ (a * xb) \in Int /\ (e * xb) \in Int
        BY <1>1, <1>2, <1>3, Z3
    <2> QED BY <1>1, <1>2, <1>3, <1>4, <1>5, <2>1
<1>9. u < w
    <2> DEFINE xe == xb + xs
    <2>1. xe \in Int
        BY <1>3
    <2> HIDE DEF xe
    <2>2. (a - e) * xe = a * xe - e * xe /\ (a * xe) \in Int /\ (e * xe) \in Int
        BY <1>1, <1>2, <2>1, Z3
    <2>3. f - b < (a - e) * xe /\ u = yb + ys - (a * xe + b) /\ w = yb + ys - (e * xe + f)
        BY <1>4, <1>5 DEF xe
    <2> QED BY <1>1, <1>2, <1>3, <2>2, <2>3
<1>10. a * v < e * t
    <2> DEFINE ax == a * xb  ex == e * xb
    <2>1. /\ (a * f) \in Int /\ (e * b) \in Int /\ (a * yb) \in Int /\ (e * yb) \in Int
          /\ ax \in Int /\ ex \in Int /\ (a * ex) \in Int /\ (e * ax) \in Int
        BY <1>1, <1>2, <1>3, Z3
    <2>2. (a - e) * yb = a * yb - e * yb /\ a * ex = e * ax
        BY <1>1, <1>2, <1>3, Z3
    <2>3. t = yb - (ax + b) /\ v = yb - (ex + f)
        BY <1>4
    <2> HIDE DEF ax, ex
    <2>4. a * v = a * yb - (a * ex + a * f)
        BY <1>1, <1>2, <1>3, <2>1, <2>3, Z3
    <2>5. e * t = e * yb - (e * ax + e * b)
        BY <1>1, <1>2, <1>3, <2>1, <2>3, Z3
    <2>6. a * yb - e * yb < a * f - e * b
        BY <1>5, <2>2
    <2> QED BY <2>1, <2>2, <2>4, <2>5, <2>6
<1>11. e * u < a * w
    <2> DEFINE xe == xb + xs  ye == yb + ys
    <2>1. xe \in Int /\ ye \in Int
        BY <1>3
    <2>2. ye = yb + ys
        OBVIOUS
    <2> HIDE DEF xe, ye
    <2>3. u = yb + ys - (a * xe + b) /\ w = yb + ys - (e * xe + f)
        BY <1>4 DEF xe
    <2>4. a * f - e * b < (a - e) * ye
        BY <1>5 DEF ye
    <2>12. (a * xe) \in Int /\ (e * xe) \in Int
        BY <1>1, <1>2, <2>1, Z3
    <2>13. yb \in Int /\ ys \in Int /\ b \in Int /\ f \in Int
        BY <1>1, <1>2, <1>3
    <2>5. u = ye - (a * xe + b) /\ w = ye - (e * xe + f)
        BY <2>1, <2>2, <2>3, <2>12, <2>13
    <2> DEFINE ax == a * xe  ex == e * xe
    <2>6. /\ (a * f) \in Int /\ (e * b) \in Int /\ (a * ye) \in Int /\ (e * ye) \in Int
          /\ ax \in Int /\ ex \in Int /\ (a * ex) \in Int /\ (e * ax) \in Int
        BY <1>1, <1>2, <2>1, Z3
    <2>7. (a - e) * ye = a * ye - e * ye /\ a * ex = e * ax
        BY <1>1, <1>2, <2>1, Z3
    <2>8. u = ye - (ax + b) /\ w = ye - (ex + f)
        BY <2>5
    <2> HIDE DEF ax, ex
    <2>9. a * w = a * ye - (a * ex + a * f)
        BY <1>1, <1>2, <2>1, <2>6, <2>8, Z3
    <2>10. e * u = e * ye - (e * ax + e * b)
        BY <1>1, <1>2, <2>1, <2>6, <2>8, Z3
    <2>11. a * f - e * b < a * ye - e * ye
        BY <2>4, <2>7
    <2> QED BY <2>6, <2>7, <2>9, <2>10, <2>11
<1>12. /\ (U * ys) \in Int /\ (U * xs) \in Int
       /\ (k * t) \in Int /\ (U * t) \in Int /\ (j * v) \in Int /\ (U * v) \in Int
       /\ (k * u) \in Int /\ (U * u) \in Int /\ (j * w) \in Int /\ (U * w) \in Int
    BY <1>1, <1>2, <1>3, Z3
<1>13. j * v < k * t
    <2>1. GoesInto(U, a, k) /\ GoesInto(U, e, j) /\ SmallerTimes(a, v, e, t)
        BY <1>1, <1>2, <1>10, Zenon DEF GoesInto, SmallerTimes
    <2> QED BY <2>1, CrossMultiply, Zenon
<1>14. k * u < j * w
    <2>1. GoesInto(U, e, j) /\ GoesInto(U, a, k) /\ SmallerTimes(e, u, a, w)
        BY <1>1, <1>2, <1>11, Zenon DEF GoesInto, SmallerTimes
    <2> QED BY <2>1, CrossMultiply, Zenon
<1>15. U * v < U * t /\ U * u < U * w
    BY <1>1, <1>2, <1>8, <1>9, SmallProducts
<1>16. /\ t >= 0 => k * t >= 0
       /\ v < 0 => U * v < 0
       /\ w >= 0 => U * w >= 0
       /\ u < 0 => k * u < 0
    BY <1>1, <1>2, SmallProducts
<1>17. accq < accp
    <2>1. /\ t >= 0 => accp = U * ys + k * t
          /\ t < 0 => accp = U * ys + U * t
          /\ v >= 0 => accq = U * ys + j * v
          /\ v < 0 => accq = U * ys + U * v
        BY <1>6, <1>7 DEF accp, accq
    <2> DEFINE l == U * ys  m == k * t  n == U * t  o == j * v  r == U * v
    <2>2. /\ l \in Int /\ m \in Int /\ n \in Int /\ o \in Int /\ r \in Int
          /\ o < m /\ r < n /\ (t >= 0 => m >= 0) /\ (v < 0 => r < 0)
        BY <1>12, <1>13, <1>15, <1>16
    <2> HIDE DEF l, m, n, o, r
    <2>3. /\ t >= 0 => accp = l + m
          /\ t < 0 => accp = l + n
          /\ v >= 0 => accq = l + o
          /\ v < 0 => accq = l + r
        BY <2>1 DEF l, m, n, o, r
    <2> QED BY <1>1, <1>2, <1>8, <2>2, <2>3
<1>18. ccp < ccq
    <2>1. /\ u >= 0 => ccp = U * xs + U * u
          /\ u < 0 => ccp = U * xs + k * u
          /\ w >= 0 => ccq = U * xs + U * w
          /\ w < 0 => ccq = U * xs + j * w
        BY <1>6, <1>7 DEF ccp, ccq
    <2> DEFINE l == U * xs  m == U * u  n == k * u  o == U * w  r == j * w
    <2>2. /\ l \in Int /\ m \in Int /\ n \in Int /\ o \in Int /\ r \in Int
          /\ m < o /\ n < r /\ (w >= 0 => o >= 0) /\ (u < 0 => n < 0)
        BY <1>12, <1>14, <1>15, <1>16
    <2> HIDE DEF l, m, n, o, r
    <2>3. /\ u >= 0 => ccp = l + m
          /\ u < 0 => ccp = l + n
          /\ w >= 0 => ccq = l + o
          /\ w < 0 => ccq = l + r
        BY <2>1 DEF l, m, n, o, r
    <2> QED BY <1>1, <1>2, <1>9, <2>2, <2>3
<1> QED BY <1>17, <1>18


\* The distances of a line inside a section are less than the halved length of its border.
LEMMA DistancesOfLinesInside ==
    ASSUME NEW s, IsBox(s), NEW p, IsLine(p), isLineInside(s, Slope(p), Intercept(p))
    PROVE  /\ distACC(s, Slope(p), Intercept(p)) \in 0 .. DistanceUnit * (s.xSize + s.ySize) - 1
           /\ distCC(s, Slope(p), Intercept(p)) \in 0 .. DistanceUnit * (s.xSize + s.ySize) - 1
<1> DEFINE a == Slope(p)  k == Run(p)  b == Intercept(p)  U == DistanceUnit
           xb == s.xBegin  yb == s.yBegin  xs == s.xSize  ys == s.ySize
           t == Depth(s, p)  u == Room(s, p)
           acc == distACC(s, a, b)  cc == distCC(s, a, b)
<1>1. /\ a \in Int /\ a > 0 /\ k \in Int /\ k > 0 /\ b \in Int /\ t \in Int /\ u \in Int
      /\ U \in Int /\ U > 0 /\ U = k * a
    BY LineTypes
<1>2. xb \in Int /\ yb \in Int /\ xs \in Int /\ ys \in Int /\ xs >= 0 /\ ys >= 0
    BY DEF IsBox
<1>3. t = yb - (a * xb + b) /\ u = yb + ys - (a * (xb + xs) + b)
    BY DEF Depth, Room
<1>4. a * xb + b < yb + ys /\ a * (xb + xs) + b > yb
    BY DEF isLineInside
<1>5. /\ t >= 0 => acc = U * ys + k * t
      /\ t < 0 => acc = U * ys + U * t
      /\ u >= 0 => cc = U * xs + U * u
      /\ u < 0 => cc = U * xs + k * u
    BY DistancesByDepth
<1> SUFFICES acc \in 0 .. U * (xs + ys) - 1 /\ cc \in 0 .. U * (xs + ys) - 1
    OBVIOUS
<1> HIDE DEF a, k, b, U, xb, yb, xs, ys, t, u, acc, cc
<1> DEFINE ax == a * xb  w == a * xs
<1>6. a * (xb + xs) = ax + w /\ ax \in Int /\ w \in Int
    BY <1>1, <1>2, Z3
<1>7. ax = a * xb
    OBVIOUS
<1>8. w = a * xs
    OBVIOUS
<1> HIDE DEF ax, w
<1>22. ax \in Int /\ w \in Int /\ t \in Int /\ u \in Int /\ b \in Int
    BY <1>1, <1>6
<1>9. t > -ys /\ t < w /\ u < ys /\ u > -w
    <2>1. t = yb - (ax + b) /\ ax + b < yb + ys
        BY <1>3, <1>4, <1>7
    <2>2. u = yb + ys - ((ax + w) + b) /\ (ax + w) + b > yb
        BY <1>3, <1>4, <1>6
    <2>3. t > -ys
        BY <1>2, <1>22, <2>1
    <2>4. t < w
        BY <1>2, <1>22, <2>1, <2>2
    <2>5. u < ys
        BY <1>2, <1>22, <2>2
    <2>6. u > -w
        BY <1>2, <1>22, <2>1, <2>2
    <2> QED BY <2>3, <2>4, <2>5, <2>6
<1> DEFINE L == U * ys  R == U * xs  kt == k * t  Ut == U * t  Uu == U * u  ku == k * u
<1>10. k * w = R
    BY <1>1, <1>2, <1>8, Z3
<1>11. U * (xs + ys) = R + L /\ L \in Int /\ R \in Int /\ L >= 0 /\ R >= 0
    BY <1>1, <1>2, SmallProducts, Z3
<1>12. kt \in Int /\ Ut \in Int /\ Uu \in Int /\ ku \in Int
    BY <1>1, Z3
<1>13. kt < R
    BY <1>1, <1>6, <1>9, <1>10, SmallProducts
<1>14. Uu < L
    BY <1>1, <1>2, <1>9, SmallProducts
<1>15. Ut > -L
    <2>1. U * (-ys) < U * t
        BY <1>1, <1>2, <1>9, SmallProducts
    <2>2. U * (-ys) = -(U * ys)
        BY <1>1, <1>2, Z3
    <2> QED BY <2>1, <2>2
<1>16. ku > -R
    <2> DEFINE bs == -w
    <2>1. bs \in Int /\ bs < u /\ w = -bs
        BY <1>9, <1>22
    <2> HIDE DEF bs
    <2>2. k * bs < k * u
        BY <1>1, <2>1, SmallProducts
    <2>3. k * bs = -(k * w)
        BY <1>1, <2>1, Z3
    <2> QED BY <1>10, <2>2, <2>3
<1>17. /\ t >= 0 => kt >= 0
       /\ t < 0 => Ut < 0
       /\ u >= 0 => Uu >= 0
       /\ u < 0 => ku < 0
    BY <1>1, SmallProducts
<1>18. /\ t >= 0 => acc = L + kt
       /\ t < 0 => acc = L + Ut
       /\ u >= 0 => cc = R + Uu
       /\ u < 0 => cc = R + ku
    BY <1>5
<1>19. \A z : z = U * (xs + ys) => z = R + L
    BY <1>11
<1> HIDE DEF L, R, kt, Ut, Uu, ku
<1>20. acc \in 0 .. R + L - 1
    BY <1>1, <1>11, <1>12, <1>13, <1>15, <1>17, <1>18
<1>21. cc \in 0 .. R + L - 1
    BY <1>1, <1>11, <1>12, <1>14, <1>16, <1>17, <1>18
<1> QED BY <1>11, <1>20, <1>21

\* A line that is inside a part of a section is inside the section.
LEMMA LinesInsideParts ==
    ASSUME NEW s, IsBox(s), NEW c, IsBox(c), Within(c, s), NEW p, IsLine(p),
           isLineInside(c, Slope(p), Intercept(p))
    PROVE  isLineInside(s, Slope(p), Intercept(p))
<1> DEFINE a == Slope(p)  b == Intercept(p)
           xe == s.xBegin + s.xSize  ye == s.yBegin + s.ySize
           cxe == c.xBegin + c.xSize  cye == c.yBegin + c.ySize
           xb == s.xBegin  yb == s.yBegin  cxb == c.xBegin  cyb == c.yBegin
<1>1. a \in Int /\ a > 0 /\ b \in Int
    BY LineTypes
<1>2. /\ xb \in Int /\ yb \in Int /\ cxb \in Int /\ cyb \in Int
      /\ xe \in Int /\ ye \in Int /\ cxe \in Int /\ cye \in Int
    BY DEF IsBox
<1>3. xb <= cxb /\ cxe <= xe /\ yb <= cyb /\ cye <= ye
    BY <1>2 DEF Within
<1>4. a * cxb + b < cye /\ a * cxe + b > cyb
    BY DEF isLineInside
<1> HIDE DEF a, b, xe, ye, cxe, cye, xb, yb, cxb, cyb
<1>5. a * xb <= a * cxb /\ a * cxe <= a * xe
    BY <1>1, <1>2, <1>3, WeakProducts
<1>6. (a * xb) \in Int /\ (a * cxb) \in Int /\ (a * xe) \in Int /\ (a * cxe) \in Int
    BY <1>1, <1>2, Z3
<1>7. a * xb + b < ye /\ a * xe + b > yb
    BY <1>1, <1>2, <1>3, <1>4, <1>5, <1>6
<1> QED BY <1>7, Zenon DEF isLineInside, a, b, xe, ye, xb, yb

-----------------------------------------------------------------------------
(* The check of the order of crossings.                                    *)

\* The check of the order of crossings does not reject a track: where points have lines
\* that cross each other inside a cell, the orders in which the lines enter and leave any
\* section around the cell differ in as many places as there are points, or all but one.
THEOREM OrderCheckKeepsTracks ==
    ASSUME NEW s, IsBox(s), DistanceUnit * (s.xSize + s.ySize) <= FAR,
           NEW hits, NEW counter \in Nat,
           \A i \in 1 .. counter :
               /\ IsLine(wedgePoints[hits[i]])
               /\ isLineInside(s, Slope(wedgePoints[hits[i]]), Intercept(wedgePoints[hits[i]])),
           NEW c, IsBox(c), Within(c, s),
           NEW H \in SUBSET (1 .. counter),
           \A i, j \in H : i # j => CrossInside(c, wedgePoints[hits[i]], wedgePoints[hits[j]])
    PROVE  CountChanges(s, hits, counter) >= Cardinality(H) - 1
<1> DEFINE line(i) == wedgePoints[hits[i]]
           acc == [i \in 1 .. counter |-> distACC(s, Slope(line(i)), Intercept(line(i)))]
           cc == [i \in 1 .. counter |-> distCC(s, Slope(line(i)), Intercept(line(i)))]
           L == DistanceUnit * (s.xSize + s.ySize)
<1>1. L \in Int /\ L <= FAR
    BY SectionAssumption, Z3 DEF IsBox
<1> HIDE DEF L
<1>2. ASSUME NEW i \in 1 .. counter
      PROVE  acc[i] \in 0 .. L - 1 /\ cc[i] \in 0 .. L - 1
    <2>1. IsLine(line(i)) /\ isLineInside(s, Slope(line(i)), Intercept(line(i)))
        OBVIOUS
    <2>2. /\ distACC(s, Slope(line(i)), Intercept(line(i))) \in 0 .. L - 1
          /\ distCC(s, Slope(line(i)), Intercept(line(i))) \in 0 .. L - 1
        BY <2>1, DistancesOfLinesInside DEF L
    <2> QED BY <2>2, Zenon
<1>3. 0 .. L - 1 \subseteq 0 .. FAR - 1
    BY <1>1, FarIsANumber, SMT
<1>4. acc \in [1 .. counter -> 0 .. FAR - 1] /\ cc \in [1 .. counter -> 0 .. FAR - 1]
    BY <1>2, <1>3, Zenon
<1>5. ASSUME NEW i \in H, NEW j \in H, SteeperCrosses(c, line(i), line(j))
      PROVE  acc[j] < acc[i] /\ cc[i] < cc[j]
    <2>1. IsLine(line(i)) /\ IsLine(line(j)) /\ i \in 1 .. counter /\ j \in 1 .. counter
        OBVIOUS
    <2>2. SteeperCrosses(s, line(i), line(j))
        BY <1>5, <2>1, CrossesAround
    <2>3. /\ distACC(s, Slope(line(j)), Intercept(line(j))) < distACC(s, Slope(line(i)), Intercept(line(i)))
          /\ distCC(s, Slope(line(i)), Intercept(line(i))) < distCC(s, Slope(line(j)), Intercept(line(j)))
        BY <2>1, <2>2, CrossingTurnsOrder
    <2> QED BY <2>1, <2>3, Zenon
<1>6. Reverses(H, acc, cc)
    <2> SUFFICES ASSUME NEW i \in H, NEW j \in H, i # j
                 PROVE  \/ acc[i] < acc[j] /\ cc[j] < cc[i]
                        \/ acc[j] < acc[i] /\ cc[i] < cc[j]
        BY DEF Reverses
    <2>1. CrossInside(c, line(i), line(j))
        OBVIOUS
    <2>2. SteeperCrosses(c, line(i), line(j)) \/ SteeperCrosses(c, line(j), line(i))
        BY <2>1, Zenon DEF CrossInside
    <2> HIDE DEF acc, cc, line
    <2> QED BY <1>5, <2>2, Zenon
<1>7. CountChanges(s, hits, counter)
          = count(sort(acc, [k \in 1 .. counter |-> k]), sort(cc, [k \in 1 .. counter |-> k]))
    BY DEF CountChanges
<1> HIDE DEF acc, cc
<1> QED BY <1>4, <1>6, <1>7, ReversedOrders

==============================================================================

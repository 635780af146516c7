--------------------------- MODULE CampaignProofs ---------------------------
(***************************************************************************)
(* What the public campaign promises, for every window, tape, roster,      *)
(* statement, program and history of edits and commits.                    *)
(***************************************************************************)
EXTENDS Campaign, Integers, SequenceTheorems, WellFoundedInduction, TLAPS

-----------------------------------------------------------------------------
(* The book of a day, computed from the inputs.  Campaign defines it by    *)
(* recursion over the days; what holds of it is shown on a first day where *)
(* it would not.                                                           *)

\* Every set of days has a first one.
LEMMA FirstOf ==
    ASSUME NEW S \in SUBSET Nat, S # {}
    PROVE  \E n \in S : \A m \in S : n <= m
<1>. DEFINE R == {ss \in Nat \X Nat : ss[1] < ss[2]}
<1>1. \A x, y \in Nat : <<y, x>> \notin R => x <= y
  OBVIOUS
<1>2. IsWellFoundedOn(R, Nat)
  BY NatLessThanWellFounded DEF OpToRel
<1>. HIDE DEF R
<1>3. \E x \in S : \A y \in S : <<y, x>> \notin R
  BY <1>2, WFMin
<1>. QED
  BY <1>1, <1>3

LEMMA WindowStarts == Start \in Nat /\ Days \in Nat \ {0} /\ Start - 1 \in Int
BY CampaignAssumption

\* b is the walk of the book up to day d.
Walks(b, i, how, d) ==
    \A e \in Start - 1 .. d :
        b[e] = IF e < Start THEN NewBook(i) ELSE DayBook(i, b[e - 1], e, how)

\* Two inputs are alike up to day d.
Alike(i, j, how, d) ==
    /\ NewBook(i) = NewBook(j)
    /\ \A e \in Start .. d : \A b : DayBook(i, b, e, how) = DayBook(j, b, e, how)

LEMMA WalksAgree ==
    ASSUME NEW i, NEW j, NEW how, NEW d \in Int, Alike(i, j, how, d),
           NEW b, Walks(b, i, how, d), NEW c, Walks(c, j, how, d)
    PROVE  \A e \in Start - 1 .. d : b[e] = c[e]
<1>. DEFINE bad == {n \in Nat : Start - 1 + n <= d /\ b[Start - 1 + n] # c[Start - 1 + n]}
<1>1. bad = {}
  <2>. SUFFICES ASSUME bad # {} PROVE FALSE
    OBVIOUS
  <2>1. PICK n \in bad : \A m \in bad : n <= m
    BY FirstOf
  <2>. DEFINE e == Start - 1 + n
  <2>2. e \in Start - 1 .. d /\ b[e] # c[e]
    BY <2>1, WindowStarts
  <2>3. CASE n = 0
    <3>1. e < Start
      BY <2>3, WindowStarts
    <3>2. b[e] = NewBook(i) /\ c[e] = NewBook(j)
      BY <2>2, <3>1 DEF Walks
    <3>. QED
      BY <2>2, <3>2 DEF Alike
  <2>4. CASE n # 0
    <3>1. n - 1 \in Nat /\ n - 1 \notin bad
      <4>1. bad \subseteq Nat
        OBVIOUS
      <4>. HIDE DEF bad
      <4>. QED
        BY <2>1, <2>4, <4>1
    <3>2. Start - 1 + (n - 1) = e - 1 /\ e - 1 <= d /\ e \in Start .. d /\ ~(e < Start)
      BY <2>1, <2>2, <2>4, WindowStarts
    <3>3. b[e - 1] = c[e - 1]
      BY <3>1, <3>2
    <3>4. b[e] = DayBook(i, b[e - 1], e, how) /\ c[e] = DayBook(j, c[e - 1], e, how)
      BY <2>2, <3>2 DEF Walks
    <3>. QED
      BY <2>2, <3>2, <3>3, <3>4 DEF Alike
  <2>. QED
    BY <2>3, <2>4
<1>2. ASSUME NEW e \in Start - 1 .. d PROVE b[e] = c[e]
  <2>1. e - (Start - 1) \in Nat /\ Start - 1 + (e - (Start - 1)) = e
    BY WindowStarts
  <2>. QED
    BY <1>1, <2>1
<1>. QED
  BY <1>2

IsWalk(b, i, how, d) ==
    b = [e \in Start - 1 .. d |-> IF e < Start THEN NewBook(i) ELSE DayBook(i, b[e - 1], e, how)]

LEMMA WalkExists ==
    ASSUME NEW i, NEW how, NEW d \in Int, Start - 1 <= d
    PROVE  \E b : IsWalk(b, i, how, d)
<1>. DEFINE Is(b, n) == b = [e \in Start - 1 .. n |->
                               IF e < Start THEN NewBook(i) ELSE DayBook(i, b[e - 1], e, how)]
            bad == {n \in Nat : \A b : ~Is(b, Start - 1 + n)}
<1>1. bad = {}
  <2>. SUFFICES ASSUME bad # {} PROVE FALSE
    OBVIOUS
  <2>1. PICK n \in bad : \A m \in bad : n <= m
    BY FirstOf
  <2>2. n \in Nat
    OBVIOUS
  <2>3. CASE n = 0
    <3>. DEFINE b == [e \in Start - 1 .. Start - 1 |-> NewBook(i)]
    <3>1. \A e \in Start - 1 .. Start - 1 : e < Start
      BY WindowStarts
    <3>2. Is(b, Start - 1)
      BY <3>1
    <3>3. Start - 1 + n = Start - 1
      BY <2>3, WindowStarts
    <3>. QED
      BY <2>1, <3>2, <3>3
  <2>4. CASE n # 0
    <3>1. n - 1 \in Nat /\ n - 1 \notin bad
      <4>1. bad \subseteq Nat
        OBVIOUS
      <4>. HIDE DEF bad
      <4>. QED
        BY <2>1, <2>4, <4>1
    <3>. DEFINE l == Start - 1 + n
    <3>2. Start - 1 + (n - 1) = l - 1 /\ l \in Int /\ l >= Start
      BY <2>2, <2>4, WindowStarts
    <3>3. PICK c : Is(c, l - 1)
      BY <3>1, <3>2
    <3>. DEFINE b == [e \in Start - 1 .. l |->
                        IF e <= l - 1 THEN c[e] ELSE DayBook(i, c[l - 1], l, how)]
    <3>4. ASSUME NEW e \in Start - 1 .. l
          PROVE  b[e] = IF e < Start THEN NewBook(i) ELSE DayBook(i, b[e - 1], e, how)
      <4>1. CASE e <= l - 1
        <5>1. e \in Start - 1 .. l - 1 /\ e \in Int
          BY <3>2, <4>1, WindowStarts
        <5>2. b[e] = c[e]
          BY <4>1
        <5>3. c[e] = IF e < Start THEN NewBook(i) ELSE DayBook(i, c[e - 1], e, how)
          BY <3>3, <5>1
        <5>4. ~(e < Start) => e - 1 \in Start - 1 .. l /\ e - 1 <= l - 1
          BY <3>2, <5>1, WindowStarts
        <5>5. ~(e < Start) => b[e - 1] = c[e - 1]
          BY <5>4
        <5>. QED
          BY <5>2, <5>3, <5>5
      <4>2. CASE ~(e <= l - 1)
        <5>1. e = l /\ ~(e < Start) /\ e - 1 = l - 1
          BY <3>2, <4>2, WindowStarts
        <5>2. l - 1 \in Start - 1 .. l /\ l - 1 <= l - 1
          BY <3>2, WindowStarts
        <5>3. b[l - 1] = c[l - 1]
          BY <5>2
        <5>4. b[e] = DayBook(i, c[l - 1], l, how)
          BY <4>2
        <5>. QED
          BY <5>1, <5>3, <5>4
      <4>. QED
        BY <4>1, <4>2
    <3>5. b = [e \in Start - 1 .. l |-> b[e]]
      OBVIOUS
    <3>. HIDE DEF b
    <3>6. Is(b, l)
      BY <3>4, <3>5
    <3>. QED
      BY <2>1, <3>6
  <2>. QED
    BY <2>3, <2>4
<1>2. d - (Start - 1) \in Nat /\ Start - 1 + (d - (Start - 1)) = d
  BY WindowStarts
<1>3. PICK b : Is(b, d)
  BY <1>1, <1>2
<1>. QED
  BY <1>3 DEF IsWalk

\* What BookOn is: the end of a walk.
LEMMA BookWalks ==
    ASSUME NEW i, NEW how, NEW d \in Int, Start - 1 <= d
    PROVE  \E b : Walks(b, i, how, d) /\ BookOn(i, how, d) = b[d]
<1>. DEFINE walk == CHOOSE b : IsWalk(b, i, how, d)
<1>1. IsWalk(walk, i, how, d)
  BY WalkExists
<1>2. BookOn(i, how, d) = walk[d]
  BY Zenon DEF BookOn, IsWalk
<1>. HIDE DEF walk
<1>3. Walks(walk, i, how, d)
  BY <1>1 DEF IsWalk, Walks
<1>. QED
  BY <1>2, <1>3

LEMMA FirstBook ==
    ASSUME NEW i, NEW how
    PROVE  BookOn(i, how, Start - 1) = NewBook(i)
<1>1. PICK b : Walks(b, i, how, Start - 1) /\ BookOn(i, how, Start - 1) = b[Start - 1]
  BY BookWalks, WindowStarts
<1>2. Start - 1 \in Start - 1 .. Start - 1 /\ Start - 1 < Start
  BY WindowStarts
<1>. QED
  BY <1>1, <1>2 DEF Walks

LEMMA NextBook ==
    ASSUME NEW i, NEW how, NEW d \in Int, Start - 1 <= d
    PROVE  BookOn(i, how, d + 1) = DayBook(i, BookOn(i, how, d), d + 1, how)
<1>1. PICK b : Walks(b, i, how, d) /\ BookOn(i, how, d) = b[d]
  BY BookWalks
<1>2. PICK c : Walks(c, i, how, d + 1) /\ BookOn(i, how, d + 1) = c[d + 1]
  BY BookWalks, WindowStarts
<1>3. Walks(c, i, how, d)
  BY <1>2, WindowStarts DEF Walks
<1>4. Alike(i, i, how, d)
  BY DEF Alike
<1>5. d \in Start - 1 .. d
  BY WindowStarts
<1>6. b[d] = c[d]
  BY <1>1, <1>3, <1>4, <1>5, WalksAgree
<1>7. d + 1 \in Start - 1 .. d + 1 /\ ~(d + 1 < Start) /\ (d + 1) - 1 = d
  BY WindowStarts
<1>8. c[d + 1] = DayBook(i, c[(d + 1) - 1], d + 1, how)
  BY <1>2, <1>7 DEF Walks
<1>. QED
  BY <1>1, <1>2, <1>6, <1>7, <1>8

LEMMA AlikeBooks ==
    ASSUME NEW i, NEW j, NEW how, NEW d \in Int, Start - 1 <= d, Alike(i, j, how, d)
    PROVE  BookOn(i, how, d) = BookOn(j, how, d)
<1>1. PICK b : Walks(b, i, how, d) /\ BookOn(i, how, d) = b[d]
  BY BookWalks
<1>2. PICK c : Walks(c, j, how, d) /\ BookOn(j, how, d) = c[d]
  BY BookWalks
<1>3. d \in Start - 1 .. d
  BY WindowStarts
<1>. QED
  BY <1>1, <1>2, <1>3, WalksAgree

-----------------------------------------------------------------------------
(* The state.                                                              *)

Files == [code : Codes \cup {Min(Codes)}, bars : Tapes, roster : {Roster(x) : x \in Picks},
          spec : Specs]
Shas  == [sha : Nat, dirty : BOOLEAN]

\* What a replay printed until day d: a line for each day of the window.
LinesTo(i, how, n) ==
    [k \in 1 .. n |-> LET d == Start + k - 1 IN DayLine(i, BookOn(i, how, d), d, how)]

\* A ledger is none, cut short, or the whole line of some inputs.
Ledgers == {None, Cut} \cup {[manifest |-> Manifest(i, g), days |-> LinesTo(i, "run", Days)] :
                                i \in Files, g \in Shas}

BranchTyped ==
    /\ files \in Files /\ ledger \in Ledgers
    /\ commits \in Seq([files : Files, ledger : Ledgers]) /\ commits # <<>>

\* A command has read the inputs of its beginning, and its book and its lines
\* are the ones of that input, day by day.
ReplayInv ==
    /\ job \in {"idle", "run", "verify", "live"}
    /\ job = "idle" => line = <<>>
    /\ job # "idle" => /\ in \in Files /\ git \in Shas
                       /\ today \in Start - 1 .. Start + Days - 1
                       /\ book = BookOn(in, job, today)
                       /\ line = LinesTo(in, job, today - Start + 1)

\* What git said of the inputs: the commit they are in, if the tree was clean.
KnownAs(i, g) == /\ g.sha \in 1 .. Len(commits)
                 /\ ~g.dirty => commits[g.sha].files = i

GitInv == /\ job # "idle" => KnownAs(in, git)
          /\ Loads(ledger) => KnownAs(ledger.manifest.from, ledger.manifest)

CampaignInv == BranchTyped /\ ReplayInv /\ GitInv

LEMMA LinesLength ==
    ASSUME NEW i, NEW how, NEW n \in Nat
    PROVE  /\ DOMAIN LinesTo(i, how, n) = 1 .. n /\ Len(LinesTo(i, how, n)) = n
           /\ \E S : LinesTo(i, how, n) \in Seq(S)
<1>. DEFINE s == LinesTo(i, how, n)
            S == {s[k] : k \in 1 .. n}
<1>1. s = [k \in 1 .. n |-> s[k]]
  BY DEF LinesTo
<1>2. DOMAIN s = 1 .. n
  BY DEF LinesTo
<1>. HIDE DEF s
<1>3. s \in [1 .. n -> S]
  BY <1>1
<1>4. s \in Seq(S)
  BY <1>3
<1>5. Len(s) = n
  BY <1>2, <1>4
<1>. QED
  BY <1>2, <1>4, <1>5 DEF s

\* The next day's line is the next line.
LEMMA NextLine ==
    ASSUME NEW i, NEW how, NEW n \in Nat
    PROVE  LinesTo(i, how, n + 1)
             = Append(LinesTo(i, how, n),
                      DayLine(i, BookOn(i, how, Start + n), Start + n, how))
<1>. DEFINE s == LinesTo(i, how, n)
            t == LinesTo(i, how, n + 1)
            x == DayLine(i, BookOn(i, how, Start + n), Start + n, how)
<1>1. PICK S : s \in Seq(S)
  BY LinesLength
<1>2. PICK T : t \in Seq(T)
  BY LinesLength
<1>3. Len(s) = n /\ Len(t) = n + 1
  BY LinesLength
<1>4. \A k \in 1 .. n : t[k] = s[k]
  BY DEF LinesTo
<1>5. t[n + 1] = x
  <2>1. Start + (n + 1) - 1 = Start + n /\ n + 1 \in 1 .. n + 1
    BY WindowStarts
  <2>. QED
    BY <2>1 DEF LinesTo
<1>. HIDE DEF s, t, x
<1>. DEFINE U == S \cup T \cup {x}
<1>6. s \in Seq(U) /\ t \in Seq(U) /\ x \in U
  BY <1>1, <1>2, SeqMonotonic
<1>. HIDE DEF U
<1>7. /\ Append(s, x) \in Seq(U) /\ Len(Append(s, x)) = n + 1
      /\ \A k \in 1 .. n : Append(s, x)[k] = s[k]
      /\ Append(s, x)[n + 1] = x
  BY <1>3, <1>6, AppendProperties
<1>8. \A k \in 1 .. n + 1 : t[k] = Append(s, x)[k]
  BY <1>4, <1>5, <1>7
<1>9. t = Append(s, x)
  BY <1>3, <1>6, <1>7, <1>8, SeqEqual
<1>. QED
  BY <1>9 DEF s, t, x

LEMMA NoLine == ASSUME NEW i, NEW how PROVE LinesTo(i, how, 0) = <<>>
<1>1. DOMAIN LinesTo(i, how, 0) = {} /\ LinesTo(i, how, 0) = [k \in {} |-> LinesTo(i, how, 0)[k]]
  BY DEF LinesTo
<1>2. PICK S : LinesTo(i, how, 0) \in Seq(S)
  BY LinesLength
<1>3. Len(LinesTo(i, how, 0)) = 0
  BY LinesLength
<1>. QED
  BY <1>2, <1>3

-----------------------------------------------------------------------------
(* The steps.                                                              *)

LEMMA FilesType ==
    ASSUME files \in Files
    PROVE  /\ \A tape \in Tapes : [files EXCEPT !.bars = tape] \in Files
           /\ \A ids \in Picks : [files EXCEPT !.roster = Roster(ids)] \in Files
           /\ \A p \in Specs : [files EXCEPT !.spec = p] \in Files
           /\ \A c \in Codes : [files EXCEPT !.code = c] \in Files
BY DEF Files

LEMMA HeadType ==
    ASSUME BranchTyped
    PROVE  /\ HEAD \in Nat \ {0} /\ HEAD \in 1 .. Len(commits)
           /\ \A k \in 1 .. Len(commits) : commits[k].files \in Files /\ commits[k].ledger \in Ledgers
<1>1. Len(commits) \in Nat \ {0}
  BY DEF BranchTyped
<1>2. ASSUME NEW k \in 1 .. Len(commits)
      PROVE  commits[k].files \in Files /\ commits[k].ledger \in Ledgers
  <2>1. commits[k] \in [files : Files, ledger : Ledgers]
    BY ElementOfSeq DEF BranchTyped
  <2>. QED
    BY <2>1
<1>. QED
  BY <1>1, <1>2 DEF HEAD

\* What a whole ledger is made of.
LEMMA LedgerIs ==
    ASSUME BranchTyped, Loads(ledger)
    PROVE  \E i \in Files, g \in Shas :
              /\ ledger.manifest = Manifest(i, g) /\ ledger.days = LinesTo(i, "run", Days)
              /\ ledger.manifest.from = i /\ ledger.manifest.sha = g.sha
              /\ ledger.manifest.dirty = g.dirty
<1>1. PICK i \in Files, g \in Shas :
         ledger = [manifest |-> Manifest(i, g), days |-> LinesTo(i, "run", Days)]
  BY DEF BranchTyped, Ledgers, Loads
<1>2. ledger.manifest = Manifest(i, g) /\ ledger.days = LinesTo(i, "run", Days)
  BY <1>1
<1>3. Manifest(i, g).from = i /\ Manifest(i, g).sha = g.sha /\ Manifest(i, g).dirty = g.dirty
  BY DEF Manifest
<1>. QED
  BY <1>2, <1>3

LEMMA InitCampaign == Init => CampaignInv
<1>. SUFFICES ASSUME Init PROVE CampaignInv
  OBVIOUS
<1>1. files \in Files
  BY DEF Init, Files
<1>2. ledger \in Ledgers /\ ~Loads(ledger)
  BY DEF Init, Ledgers, Loads
<1>3. commits \in Seq([files : Files, ledger : Ledgers]) /\ commits # <<>>
  <2>1. [files |-> files, ledger |-> None] \in [files : Files, ledger : Ledgers]
    BY <1>1, <1>2 DEF Init
  <2>. QED
    BY <2>1 DEF Init
<1>. QED
  BY <1>1, <1>2, <1>3 DEF Init, CampaignInv, BranchTyped, ReplayInv, GitInv

\* A command reads the tree as git knows it.
LEMMA BeginKnown ==
    ASSUME BranchTyped
    PROVE  KnownAs(files, GitSHA) /\ GitSHA \in Shas
<1>1. HEAD \in Nat /\ HEAD \in 1 .. Len(commits)
  BY HeadType
<1>2. GitSHA.sha = HEAD /\ (GitSHA.dirty <=> commits[HEAD].files # files)
  BY DEF GitSHA
<1>3. GitSHA \in Shas
  BY <1>1 DEF GitSHA, Shas
<1>. QED
  BY <1>1, <1>2, <1>3 DEF KnownAs

\* Commits are appended: what git said stays so.
LEMMA KnownStays ==
    ASSUME BranchTyped, NEW i, NEW g, KnownAs(i, g),
           NEW c \in [files : Files, ledger : Ledgers],
           commits' = commits \/ commits' = Append(commits, c)
    PROVE  KnownAs(i, g)'
<1>1. CASE commits' = commits
  BY <1>1 DEF KnownAs
<1>2. CASE commits' = Append(commits, c)
  <2>1. /\ Len(commits') = Len(commits) + 1 /\ Len(commits) \in Nat
        /\ \A k \in 1 .. Len(commits) : commits'[k] = commits[k]
    BY <1>2, AppendProperties DEF BranchTyped
  <2>. QED
    BY <2>1 DEF KnownAs
<1>. QED
  BY <1>1, <1>2

\* The tree and the branch change between commands only.
LEMMA EditsKeep ==
    ASSUME CampaignInv, NEW changed \in Files, Edit(changed)
    PROVE  CampaignInv'
<1>1. /\ job = "idle" /\ files' = changed
      /\ UNCHANGED <<ledger, commits, job, in, git, today, book, line>>
  BY DEF Edit, replay
<1>2. BranchTyped'
  BY <1>1 DEF CampaignInv, BranchTyped
<1>3. ReplayInv'
  BY <1>1 DEF CampaignInv, ReplayInv
<1>4. GitInv'
  BY <1>1 DEF CampaignInv, GitInv, KnownAs
<1>. QED
  BY <1>2, <1>3, <1>4 DEF CampaignInv

LEMMA CommitKeeps ==
    ASSUME CampaignInv, NEW alone \in BOOLEAN, Commit(alone)
    PROVE  CampaignInv'
<1>. DEFINE c == [files |-> IF alone THEN commits[HEAD].files ELSE files, ledger |-> ledger]
<1>1. /\ job = "idle" /\ commits' = Append(commits, c)
      /\ UNCHANGED <<files, ledger, job, in, git, today, book, line>>
  BY DEF Commit, replay
<1>2. c \in [files : Files, ledger : Ledgers]
  BY HeadType DEF CampaignInv, BranchTyped
<1>. HIDE DEF c
<1>3. commits' \in Seq([files : Files, ledger : Ledgers]) /\ commits' # <<>>
  BY <1>1, <1>2, AppendProperties DEF CampaignInv, BranchTyped
<1>4. BranchTyped'
  BY <1>1, <1>3 DEF CampaignInv, BranchTyped
<1>5. ReplayInv'
  BY <1>1 DEF CampaignInv, ReplayInv
<1>6. Loads(ledger) => KnownAs(ledger.manifest.from, ledger.manifest)'
  BY <1>1, <1>2, KnownStays DEF CampaignInv, GitInv
<1>7. GitInv'
  BY <1>1, <1>6 DEF GitInv
<1>. QED
  BY <1>4, <1>5, <1>7 DEF CampaignInv

LEMMA BeginKeeps ==
    ASSUME CampaignInv, NEW how \in {"run", "verify", "live"}, Begin(how)
    PROVE  CampaignInv'
<1>1. /\ job = "idle" /\ job' = how /\ in' = files /\ git' = GitSHA
      /\ today' = Start - 1 /\ book' = NewBook(files) /\ line' = <<>>
      /\ UNCHANGED <<files, ledger, commits>>
  BY DEF Begin, tree
<1>2. BranchTyped'
  BY <1>1 DEF CampaignInv, BranchTyped
<1>3. KnownAs(in, git)' /\ git' \in Shas
  <2>1. KnownAs(files, GitSHA) /\ GitSHA \in Shas
    BY BeginKnown DEF CampaignInv
  <2>. QED
    BY <1>1, <2>1 DEF KnownAs
<1>4. ReplayInv'
  <2>1. (Start - 1) - Start + 1 = 0 /\ Start - 1 \in Start - 1 .. Start + Days - 1
    BY WindowStarts
  <2>2. book' = BookOn(in', job', today')
    BY <1>1, FirstBook
  <2>3. line' = LinesTo(in', job', today' - Start + 1)
    BY <1>1, <2>1, NoLine
  <2>4. in' \in Files /\ today' \in Start - 1 .. Start + Days - 1 /\ job' # "idle"
    BY <1>1, <2>1 DEF CampaignInv, BranchTyped
  <2>. QED
    BY <1>1, <1>3, <2>2, <2>3, <2>4 DEF ReplayInv
<1>5. GitInv'
  BY <1>1, <1>3 DEF CampaignInv, GitInv, KnownAs
<1>. QED
  BY <1>2, <1>4, <1>5 DEF CampaignInv

\* The lines a command has are as many as its days.
LEMMA LinesDone ==
    ASSUME ReplayInv, job # "idle"
    PROVE  /\ today - Start + 1 \in Nat /\ Len(line) = today - Start + 1
           /\ Len(line) = Days => line = LinesTo(in, job, Days)
<1>1. today - Start + 1 \in Nat
  BY WindowStarts DEF ReplayInv
<1>2. Len(line) = today - Start + 1
  BY <1>1, LinesLength DEF ReplayInv
<1>. QED
  BY <1>1, <1>2 DEF ReplayInv

LEMMA DayKeeps ==
    ASSUME CampaignInv, ReplayDay
    PROVE  CampaignInv'
<1>1. /\ job # "idle" /\ Len(line) < Days /\ today' = today + 1
      /\ book' = DayBook(in, book, today', job)
      /\ line' = Append(line, DayLine(in, book', today', job))
      /\ UNCHANGED <<files, ledger, commits, job, in, git>>
  BY DEF ReplayDay, tree
<1>2. BranchTyped' /\ GitInv'
  BY <1>1 DEF CampaignInv, BranchTyped, GitInv, KnownAs
<1>. DEFINE n == today - Start + 1
<1>3. n \in Nat /\ n < Days /\ today \in Int /\ Start - 1 <= today
      /\ line = LinesTo(in, job, n) /\ book = BookOn(in, job, today)
  BY SMTT(60), <1>1, LinesDone, WindowStarts DEF CampaignInv, ReplayInv
<1>4. /\ today' \in Start - 1 .. Start + Days - 1 /\ today' = Start + n
      /\ today' - Start + 1 = n + 1
  BY <1>1, <1>3, WindowStarts
<1>5. book' = BookOn(in, job, today')
  BY <1>1, <1>3, NextBook
<1>. HIDE DEF n
<1>6. line' = LinesTo(in, job, n + 1)
  BY <1>1, <1>3, <1>4, <1>5, NextLine
<1>7. ReplayInv'
  BY <1>1, <1>4, <1>5, <1>6 DEF CampaignInv, ReplayInv
<1>. QED
  BY <1>2, <1>7 DEF CampaignInv

\* What a run writes is the whole line of what it read.
LEMMA ResultIs ==
    ASSUME CampaignInv, job = "run", Len(line) = Days
    PROVE  /\ Result \in Ledgers
           /\ KnownAs(Result.manifest.from, Result.manifest)
<1>1. in \in Files /\ git \in Shas /\ KnownAs(in, git)
  BY DEF CampaignInv, ReplayInv, GitInv
<1>2. line = LinesTo(in, "run", Days)
  BY LinesDone DEF CampaignInv
<1>3. Result = [manifest |-> Manifest(in, git), days |-> LinesTo(in, "run", Days)]
  BY <1>2 DEF Result
<1>4. Result \in Ledgers
  BY <1>1, <1>3 DEF Ledgers
<1>5. Result.manifest.from = in /\ Result.manifest.sha = git.sha /\ Result.manifest.dirty = git.dirty
  BY <1>3 DEF Manifest
<1>. QED
  BY <1>1, <1>4, <1>5 DEF KnownAs

LEMMA DoneKeeps ==
    ASSUME CampaignInv, Done, UNCHANGED <<files, commits>>,
           \/ UNCHANGED ledger
           \/ ledger' = Cut
           \/ ledger' = Result /\ job = "run"
    PROVE  CampaignInv'
<1>1. job' = "idle" /\ line' = <<>> /\ Len(line) = Days
  BY DEF Done
<1>2. ReplayInv'
  BY <1>1 DEF ReplayInv
<1>3. ledger' \in Ledgers /\ (Loads(ledger') => KnownAs(ledger'.manifest.from, ledger'.manifest))
  <2>1. CASE UNCHANGED ledger
    BY <2>1 DEF CampaignInv, BranchTyped, GitInv
  <2>2. CASE ledger' = Cut
    BY <2>2 DEF Ledgers, Loads
  <2>3. CASE ledger' = Result /\ job = "run"
    BY <1>1, <2>3, ResultIs
  <2>. QED
    BY <2>1, <2>2, <2>3
<1>4. BranchTyped'
  BY <1>3 DEF CampaignInv, BranchTyped
<1>5. GitInv'
  BY <1>1, <1>3 DEF GitInv, KnownAs
<1>. QED
  BY <1>2, <1>4, <1>5 DEF CampaignInv

LEMMA CampaignInvariant == Spec => []CampaignInv
<1>1. CampaignInv /\ [Next]_vars => CampaignInv'
  <2>. SUFFICES ASSUME CampaignInv, [Next]_vars PROVE CampaignInv'
    OBVIOUS
  <2>0. files \in Files
    BY DEF CampaignInv, BranchTyped
  <2>1. CASE UNCHANGED vars
    BY <2>1 DEF vars, CampaignInv, BranchTyped, ReplayInv, GitInv, KnownAs
  <2>2. ASSUME NEW tape \in Tapes, Fetch(tape) PROVE CampaignInv'
    BY <2>0, <2>2, FilesType, EditsKeep DEF Fetch
  <2>3. ASSUME NEW ids \in Picks, RunLab(ids) PROVE CampaignInv'
    BY <2>0, <2>3, FilesType, EditsKeep DEF RunLab
  <2>4. ASSUME NEW p \in Specs, EditSpec(p) PROVE CampaignInv'
    BY <2>0, <2>4, FilesType, EditsKeep DEF EditSpec
  <2>5. ASSUME NEW c \in Codes, EditCode(c) PROVE CampaignInv'
    BY <2>0, <2>5, FilesType, EditsKeep DEF EditCode
  <2>6. ASSUME NEW force \in BOOLEAN, Save(force) PROVE CampaignInv'
    BY <2>6, DoneKeeps DEF Save
  <2>7. CASE CrashInSave \/ Verify \/ Ends
    BY <2>7, DoneKeeps DEF CrashInSave, Verify, Ends, tree
  <2>. QED
    BY <2>1, <2>2, <2>3, <2>4, <2>5, <2>6, <2>7, CommitKeeps, BeginKeeps, DayKeeps DEF Next
<1>. QED
  BY <1>1, InitCampaign, PTL DEF Spec

-----------------------------------------------------------------------------
(* Verification and provenance.                                            *)

\* The equity of a line tells the program it was computed by.
LEMMA LineTellsCode ==
    ASSUME NEW i, NEW how
    PROVE  LinesTo(i, how, Days)[1].equity.code = i.code
<1>1. 1 \in 1 .. Days
  BY WindowStarts
<1>2. LinesTo(i, how, Days)[1] = DayLine(i, BookOn(i, how, Start + 1 - 1), Start + 1 - 1, how)
  BY <1>1 DEF LinesTo
<1>. QED
  BY <1>2 DEF DayLine

\* Inputs of one program, tape, roster, statement and shock are the same.
LEMMA SameInputs ==
    ASSUME NEW i \in Files, NEW j \in Files, i.code = j.code, i.bars = j.bars,
           Settings(i) = Settings(j)
    PROVE  i = j
<1>1. i.roster = j.roster /\ i.spec.ips = j.spec.ips /\ i.spec.shock = j.spec.shock
  BY DEF Settings
<1>2. i.spec \in Specs /\ j.spec \in Specs
  BY DEF Files
<1>3. i.spec = j.spec
  BY <1>1, <1>2, CampaignAssumption
<1>. QED
  BY <1>1, <1>3 DEF Files

\* For every window, tape, roster, statement, shock, program and history of
\* edits and commits, a ledger that -verify calls ok was computed from the
\* very files in the tree: the manifest's sums and the days' equities leave
\* no input out.
THEOREM VerifiedAlwaysSame == Spec => []VerifiedMeansSame
<1>1. CampaignInv => VerifiedMeansSame
  <2>. SUFFICES ASSUME CampaignInv, SaysOK PROVE ledger.manifest.from = in
    BY DEF VerifiedMeansSame
  <2>1. job = "verify" /\ Len(line) = Days /\ Loads(ledger) /\ Matches(ledger, in, line)
    BY DEF SaysOK
  <2>2. PICK i \in Files, g \in Shas :
           /\ ledger.manifest = Manifest(i, g) /\ ledger.days = LinesTo(i, "run", Days)
           /\ ledger.manifest.from = i
    BY <2>1, LedgerIs DEF CampaignInv
  <2>3. in \in Files /\ line = LinesTo(in, "verify", Days)
    BY <2>1, LinesDone DEF CampaignInv, ReplayInv
  <2>4. i.bars = in.bars /\ Settings(i) = Settings(in)
    BY <2>1, <2>2 DEF Matches, Manifest
  <2>5. i.code = in.code
    <3>1. 1 \in DOMAIN LinesTo(i, "run", Days)
      BY LinesLength, WindowStarts
    <3>2. LinesTo(i, "run", Days)[1].equity = LinesTo(in, "verify", Days)[1].equity
      BY <2>1, <2>2, <2>3, <3>1 DEF Matches, MatchEquity
    <3>. QED
      BY <3>2, LineTellsCode
  <2>. QED
    BY <2>2, <2>3, <2>4, <2>5, SameInputs
<1>. QED
  BY <1>1, CampaignInvariant, PTL

\* For every history of edits, runs, forced runs, cut writes and commits, a
\* ledger that passes the provenance test is what a clone of the commit that
\* last wrote it replays (replay_test.go:44: a clean
\* tree, the ledger committed alone and the writer's code).
THEOREM CheckedAlwaysReproducible == Spec => []CheckedMeansReproducible
<1>1. CampaignInv => CheckedMeansReproducible
  <2>. SUFFICES ASSUME CampaignInv, Provenance
                PROVE  Line(commits[LastWriter].files) = ledger.days
    BY DEF CheckedMeansReproducible
  <2>1. Loads(ledger) /\ ~ledger.manifest.dirty /\ SameCode(ledger.manifest.sha, LastWriter)
    BY DEF Provenance
  <2>2. PICK i \in Files, g \in Shas :
           ledger.days = LinesTo(i, "run", Days) /\ ledger.manifest.from = i
    BY <2>1, LedgerIs DEF CampaignInv
  <2>3. commits[ledger.manifest.sha].files = i
    BY <2>1, <2>2 DEF CampaignInv, GitInv, KnownAs
  <2>4. commits[LastWriter].files = i
    BY <2>1, <2>3 DEF SameCode
  <2>5. Line(i) = LinesTo(i, "run", Days)
    BY DEF Line, LinesTo
  <2>. QED
    BY <2>2, <2>4, <2>5
<1>. QED
  BY <1>1, CampaignInvariant, PTL

-----------------------------------------------------------------------------
(* No look-ahead: up to its day a replay sees the same of the tape and of  *)
(* the tape cut at that day.                                               *)

LEMMA CutIs ==
    ASSUME NEW i \in Files, NEW d \in Int
    PROVE  /\ CutAt(i, d).code = i.code /\ CutAt(i, d).roster = i.roster
           /\ CutAt(i, d).spec = i.spec
           /\ DOMAIN CutAt(i, d).bars = DOMAIN i.bars
           /\ \A s \in DOMAIN i.bars : CutAt(i, d).bars[s] = {e \in i.bars[s] : e <= d}
           /\ Index \in DOMAIN i.bars
           /\ \A s \in DOMAIN i.bars : i.bars[s] \subseteq Nat
<1>1. i.bars \in Tapes
  BY DEF Files
<1>2. Index \in DOMAIN i.bars /\ \A s \in DOMAIN i.bars : i.bars[s] \subseteq Nat
  BY <1>1, CampaignAssumption
<1>. QED
  BY <1>2 DEF CutAt, Files

\* What the clock shows of a tape does not go past its day.
LEMMA CutSees ==
    ASSUME NEW i \in Files, NEW d \in Int, NEW e \in Int, NEW closed \in BOOLEAN,
           VisibleThrough(e, closed) <= d
    PROVE  \A s \in DOMAIN i.bars :
              Visible(CutAt(i, d).bars, s, e, closed) = Visible(i.bars, s, e, closed)
<1>. SUFFICES ASSUME NEW s \in DOMAIN i.bars
              PROVE  Visible(CutAt(i, d).bars, s, e, closed) = Visible(i.bars, s, e, closed)
  OBVIOUS
<1>1. CutAt(i, d).bars[s] = {x \in i.bars[s] : x <= d} /\ i.bars[s] \subseteq Nat
  BY CutIs
<1>2. VisibleThrough(e, closed) \in Int
  BY DEF VisibleThrough
<1>3. \A x \in i.bars[s] : x <= VisibleThrough(e, closed) => x <= d
  BY <1>1, <1>2
<1>. QED
  BY <1>1, <1>3 DEF Visible

LEMMA CutQuotes ==
    ASSUME NEW i \in Files, NEW d \in Int, NEW e \in Int, NEW closed \in BOOLEAN,
           VisibleThrough(e, closed) <= d
    PROVE  /\ Quotes(CutAt(i, d), e, closed) = Quotes(i, e, closed)
           /\ CalendarAt(CutAt(i, d), e, closed) = CalendarAt(i, e, closed)
<1>1. \A s \in DOMAIN i.bars :
         Visible(CutAt(i, d).bars, s, e, closed) = Visible(i.bars, s, e, closed)
  BY CutSees
<1>2. \A s, x : Price(CutAt(i, d), s, x) = Price(i, s, x)
  BY CutIs DEF Price
<1>3. DOMAIN CutAt(i, d).bars = DOMAIN i.bars /\ Index \in DOMAIN i.bars
  BY CutIs
<1>4. CalendarAt(CutAt(i, d), e, closed) = CalendarAt(i, e, closed)
  BY <1>1, <1>3 DEF CalendarAt
<1>5. Quotes(CutAt(i, d), e, closed) = Quotes(i, e, closed)
  BY <1>1, <1>2, <1>3 DEF Quotes
<1>. QED
  BY <1>4, <1>5

\* A day asks the tape whether it printed that date, for its calendar and for
\* its closes, and for nothing else.
LEMMA CutAlike ==
    ASSUME NEW i \in Files, NEW how, NEW d \in Int, Start - 1 <= d
    PROVE  Alike(CutAt(i, d), i, how, d)
<1>. DEFINE j == CutAt(i, d)
<1>1. NewBook(j) = NewBook(i)
  <2>1. Start \in Int /\ VisibleThrough(Start, FALSE) <= d
    BY WindowStarts DEF VisibleThrough
  <2>2. Quotes(j, Start, FALSE) = Quotes(i, Start, FALSE)
    BY <2>1, CutQuotes
  <2>. QED
    BY <2>2 DEF NewBook
<1>2. ASSUME NEW e \in Start .. d, NEW b
      PROVE  DayBook(j, b, e, how) = DayBook(i, b, e, how)
  <2>1. e \in Int /\ e <= d /\ VisibleThrough(e, TRUE) <= d
    BY WindowStarts DEF VisibleThrough
  <2>2. Quotes(j, e, TRUE) = Quotes(i, e, TRUE) /\ CalendarAt(j, e, TRUE) = CalendarAt(i, e, TRUE)
    BY <2>1, CutQuotes
  <2>3. j.spec = i.spec /\ j.roster = i.roster /\ j.code = i.code
        /\ j.bars[Index] = {x \in i.bars[Index] : x <= d}
    BY CutIs
  <2>. HIDE DEF j
  <2>8. Halted(j, b, e) <=> Halted(i, b, e)
    BY <2>2, <2>3 DEF Halted, Rules
  <2>9. Work(j, b, e) = Work(i, b, e)
    BY <2>2, <2>3 DEF Work, Rules
  <2>4. CoreWorks(j, b, e) <=> CoreWorks(i, b, e)
    BY <2>2, <2>3, <2>8 DEF CoreWorks
  <2>5. Tick(j, b, e) = Tick(i, b, e)
    BY <2>2, <2>3, <2>4, <2>8, <2>9 DEF Tick
  <2>6. HasSession(j, e) <=> HasSession(i, e)
    BY <2>1, <2>3 DEF HasSession
  <2>7. Session(j, e, how) = Session(i, e, how)
    BY <2>6 DEF Session
  <2>. QED
    BY <2>5, <2>7 DEF DayBook
<1>. QED
  BY <1>1, <1>2 DEF Alike

\* For every window, tape, shock, roster and statement, and on every day of
\* a run, a verification or the desk's own campaign, the book is the one that
\* the tape cut at that day gives: no later close, session or shock was seen.
THEOREM NeverLooksAhead == Spec => []NoLookAhead
<1>1. CampaignInv => NoLookAhead
  <2>. SUFFICES ASSUME CampaignInv, job # "idle"
                PROVE  book = BookOn(CutAt(in, today), job, today)
    BY DEF NoLookAhead
  <2>1. in \in Files /\ today \in Int /\ Start - 1 <= today /\ book = BookOn(in, job, today)
    BY WindowStarts DEF CampaignInv, ReplayInv
  <2>. QED
    BY <2>1, CutAlike, AlikeBooks
<1>. QED
  BY <1>1, CampaignInvariant, PTL

-----------------------------------------------------------------------------
(* The forecast.                                                           *)

\* A calendar that ends on day d leaves the days from d on to the weekdays.
LEMMA AheadByWeekdays ==
    ASSUME NEW i \in Files, NEW d \in Nat, NEW e \in Nat, d <= e, NEW cycle
    PROVE  IsRebalanceSession(CalendarAt(i, d, TRUE), e, cycle) <=> CivilLast(e, cycle)
<1>1. \A x \in CalendarAt(i, d, TRUE) : x \in Nat /\ x <= d
  BY CutIs DEF CalendarAt, Visible, VisibleThrough
<1>. DEFINE cal == CalendarAt(i, d, TRUE)
<1>. HIDE DEF cal
<1>2. ASSUME NEW x \in cal PROVE ~(x > e)
  <2>1. x \in Nat /\ x <= d
    BY <1>1 DEF cal
  <2>. QED
    BY <2>1
<1>3. ~Known(cal, e)
  BY <1>2 DEF Known
<1>. QED
  BY <1>3 DEF IsRebalanceSession, cal

\* The least of a set of days is the one no other goes below.
LEMMA MinIs ==
    ASSUME NEW S \in SUBSET Nat, NEW f \in S, \A e \in S : f <= e
    PROVE  Min(S) = f
<1>1. \A x \in S : (\A y \in S : x <= y) => x = f
  OBVIOUS
<1>. QED
  BY <1>1, Zenon DEF Min

\* The next session named on day d: the first day from d on that ends a period
\* by the weekdays, if one of the Ahead days does.
LEMMA ForecastIs ==
    ASSUME NEW i \in Files, NEW d \in Nat, NEW cycle
    PROVE  LET S == {e \in d .. d + Ahead - 1 : CivilLast(e, cycle)}
           IN  NextRebalance(CalendarAt(i, d, TRUE), d, cycle) = IF S = {} THEN d - 1 ELSE Min(S)
<1>. DEFINE cal   == CalendarAt(i, d, TRUE)
            S     == {e \in d .. d + Ahead - 1 : CivilLast(e, cycle)}
            on    == {e \in cal : e >= d /\ IsRebalanceSession(cal, e, cycle)}
            ahead == {e \in d .. d + Ahead - 1 : IsRebalanceSession(cal, e, cycle)}
<1>0. Ahead \in Nat /\ Ahead > 0
  BY CalendarAssumption
<1>1. \A x \in cal : x \in Nat /\ x <= d
  BY CutIs DEF CalendarAt, Visible, VisibleThrough
<1>2. \A e \in Nat : d <= e => (IsRebalanceSession(cal, e, cycle) <=> CivilLast(e, cycle))
  BY AheadByWeekdays
<1>3. NextRebalance(cal, d, cycle)
        = IF on # {} THEN Min(on) ELSE IF ahead # {} THEN Min(ahead) ELSE d - 1
  BY DEF NextRebalance
<1>. SUFFICES NextRebalance(cal, d, cycle) = IF S = {} THEN d - 1 ELSE Min(S)
  OBVIOUS
<1>. HIDE DEF cal
<1>4. ahead = S
  BY <1>0, <1>2
<1>5. CASE on = {}
  <2>. HIDE DEF on, ahead, S
  <2>. QED
    BY <1>3, <1>4, <1>5
<1>6. CASE on # {}
  <2>1. \A x \in on : x = d
    BY <1>1
  <2>2. on = {d}
    BY <1>6, <2>1
  <2>3. d \in S /\ S \in SUBSET Nat /\ \A e \in S : d <= e
    BY <1>0, <1>2, <2>2
  <2>. HIDE DEF on, S
  <2>4. Min(on) = d
    BY <2>2, MinIs
  <2>5. Min(S) = d
    BY <2>3, MinIs
  <2>. QED
    BY <1>3, <1>6, <2>3, <2>4, <2>5
<1>. QED
  BY <1>5, <1>6 DEF cal

\* For every tape, statement and window, the next session that the book names
\* on one day is the one it names on the day after, until that session comes.
THEOREM ForecastAlwaysKept == Spec => ForecastKept
<1>1. CampaignInv /\ [Next]_vars =>
        [ReplayDay /\ in.spec.ips # None /\ today >= Start /\ Forecast(today) > today
           => Forecast(today + 1) = Forecast(today)]_vars
  <2>. SUFFICES ASSUME CampaignInv, ReplayDay, today >= Start, Forecast(today) > today
                PROVE  Forecast(today + 1) = Forecast(today)
    OBVIOUS
  <2>. DEFINE cycle == in.spec.ips.cycle
              S(d)  == {e \in d .. d + Ahead - 1 : CivilLast(e, cycle)}
  <2>1. in \in Files /\ today \in Nat /\ Ahead \in Nat
    BY WindowStarts, CalendarAssumption DEF CampaignInv, ReplayInv, ReplayDay
  <2>2. \A d \in Nat : Forecast(d) = IF S(d) = {} THEN d - 1 ELSE Min(S(d))
    BY <2>1, ForecastIs DEF Forecast
  <2>3. S(today) # {} /\ Forecast(today) = Min(S(today))
    BY <2>1, <2>2
  <2>4. S(today) \in SUBSET Nat /\ S(today + 1) \in SUBSET Nat
    BY <2>1
  <2>5. PICK f \in S(today) : \A e \in S(today) : f <= e
    BY <2>3, <2>4, FirstOf
  <2>6. Forecast(today) = f
    BY <2>3, <2>4, <2>5, MinIs
  <2>7. f \in S(today + 1) /\ \A e \in S(today + 1) : f <= e
    BY <2>1, <2>5, <2>6
  <2>8. Min(S(today + 1)) = f
    BY <2>4, <2>7, MinIs
  <2>. QED
    BY <2>1, <2>2, <2>6, <2>7, <2>8
<1>. QED
  BY <1>1, CampaignInvariant, PTL DEF Spec, ForecastKept

-----------------------------------------------------------------------------
(* The rebalances.                                                         *)

LEMMA QuotientGrows ==
    ASSUME NEW n \in Nat \ {0}, NEW a \in Nat, NEW b \in Nat, a <= b
    PROVE  a \div n \in Nat /\ b \div n \in Nat /\ a \div n <= b \div n
<1>. DEFINE p == a \div n
            q == b \div n
<1>1. /\ p \in Nat /\ n * p <= a /\ a < n * (p + 1)
      /\ q \in Nat /\ n * q <= b /\ b < n * (q + 1)
  OBVIOUS
<1>. HIDE DEF p, q
<1>2. ASSUME q + 1 <= p PROVE FALSE
  <2>1. n * (q + 1) <= n * p
    BY <1>1, <1>2
  <2>2. n * (q + 1) \in Int /\ n * p \in Int
    BY <1>1
  <2>. QED
    BY <1>1, <2>1, <2>2
<1>3. p <= q
  BY <1>1, <1>2
<1>. QED
  BY <1>1, <1>3 DEF p, q

\* A later day is in no earlier period.
LEMMA PeriodGrows ==
    ASSUME NEW d \in Nat, NEW e \in Nat, d <= e, NEW cycle
    PROVE  PeriodOf(d, cycle) \in Nat /\ PeriodOf(d, cycle) <= PeriodOf(e, cycle)
<1>1. Month(d) \in Nat /\ Month(e) \in Nat /\ Month(d) <= Month(e)
  BY QuotientGrows, CalendarAssumption DEF Month
<1>2. /\ Month(d) \div QuarterMonths \in Nat
      /\ Month(d) \div QuarterMonths <= Month(e) \div QuarterMonths
  BY <1>1, QuotientGrows, CalendarAssumption
<1>. QED
  BY <1>1, <1>2 DEF PeriodOf

\* Between a day and the next weekday lie weekends only.
LEMMA NextWeekdayIs ==
    ASSUME NEW d \in Nat
    PROVE  /\ NextWeekday(d) \in d + 1 .. d + 3 /\ ~Weekend(NextWeekday(d))
           /\ \A f \in d + 1 .. NextWeekday(d) - 1 : Weekend(f)
<1>. DEFINE First(e) == ~Weekend(e) /\ \A f \in d + 1 .. e - 1 : Weekend(f)
<1>1. \E e \in d + 1 .. d + 3 : First(e)
  <2>1. CASE ~Weekend(d + 1)
    <3>1. First(d + 1)
      BY <2>1
    <3>. QED
      BY <3>1
  <2>2. CASE Weekend(d + 1) /\ ~Weekend(d + 2)
    <3>1. \A f \in d + 1 .. (d + 2) - 1 : f = d + 1
      OBVIOUS
    <3>2. First(d + 2)
      BY <2>2, <3>1
    <3>. QED
      BY <3>2
  <2>3. CASE Weekend(d + 1) /\ Weekend(d + 2)
    <3>1. ~Weekend(d + 3)
      BY <2>3 DEF Weekend
    <3>2. \A f \in d + 1 .. (d + 3) - 1 : f = d + 1 \/ f = d + 2
      OBVIOUS
    <3>3. First(d + 3)
      BY <2>3, <3>1, <3>2
    <3>. QED
      BY <3>3
  <2>. QED
    BY <2>1, <2>2, <2>3
<1>2. NextWeekday(d) = CHOOSE e \in d + 1 .. d + 3 : First(e)
  BY DEF NextWeekday
<1>. HIDE DEF First
<1>3. NextWeekday(d) \in d + 1 .. d + 3 /\ First(NextWeekday(d))
  BY <1>1, <1>2
<1>. QED
  BY <1>3 DEF First

\* The search of the code, weekday by weekday, finds the last weekday of a period.
LEMMA CivilLastIs ==
    ASSUME NEW d \in Nat, NEW cycle
    PROVE  CivilLast(d, cycle) <=> LastWeekday(d, cycle)
<1>. DEFINE n    == NextWeekday(d)
            p(e) == PeriodOf(e, cycle)
<1>1. /\ n \in d + 1 .. d + 3 /\ ~Weekend(n)
      /\ \A f \in d + 1 .. n - 1 : Weekend(f)
  BY NextWeekdayIs, Zenon
<1>2. CivilLast(d, cycle) <=> ~Weekend(d) /\ p(n) # p(d)
  BY DEF CivilLast
<1>3. LastWeekday(d, cycle) <=>
        ~Weekend(d) /\ \A e \in d + 1 .. d + Ahead : p(e) = p(d) => Weekend(e)
  BY DEF LastWeekday
<1>4. \A a, b \in Nat : a <= b => p(a) \in Nat /\ p(a) <= p(b)
  BY PeriodGrows
<1>. HIDE DEF n, p
<1>5. Ahead \in Nat /\ Ahead >= 3
  BY CalendarAssumption
<1>6. ASSUME p(n) # p(d), NEW e \in d + 1 .. d + Ahead, p(e) = p(d) PROVE Weekend(e)
  <2>1. ASSUME n <= e PROVE FALSE
    <3>1. p(d) <= p(n) /\ p(n) <= p(e) /\ p(d) \in Nat /\ p(n) \in Nat
      BY <1>1, <1>4, <2>1
    <3>. QED
      BY <1>6, <3>1
  <2>2. e \in d + 1 .. n - 1
    BY <1>1, <2>1
  <2>. QED
    BY <1>1, <2>2
<1>7. n \in d + 1 .. d + Ahead
  BY <1>1, <1>5
<1>. QED
  BY <1>1, <1>2, <1>3, <1>6, <1>7

IsBook(b) == b = [work |-> b.work, halted |-> b.halted, satellite |-> b.satellite,
                  bench |-> b.bench]
IsWork(w) == \E S : w \in Seq(S)

WorkedOn(w, d) == \E k \in DOMAIN w : w[k].on = d
DoneBy(w, t)   == \A k \in DOMAIN w : w[k].on \in Nat /\ w[k].on <= t

\* Day d of the book b as RebalancesOnTime has it.
OnTime(i, b, how, d) ==
    WorkedOn(b.work, d)
      <=> /\ Session(i, d, how) = "open" /\ d \notin b.halted
          /\ Unfinished(b.work, d) \/ LastWeekday(d, i.spec.ips.cycle)

WorkInv ==
    job # "idle" /\ in.spec.ips # None =>
        /\ IsBook(book) /\ IsWork(book.work)
        /\ DoneBy(book.work, today) /\ \A d \in book.halted : d \in Nat /\ d <= today
        /\ \A d \in Start .. today : OnTime(in, book, job, d)

\* What an entry of a later day says of the days before it, and of its own.
LEMMA WorkAdded ==
    ASSUME NEW w, IsWork(w), NEW t \in Int, DoneBy(w, t), NEW x, x.on = t + 1, x.on \in Nat
    PROVE  /\ IsWork(Append(w, x)) /\ DoneBy(Append(w, x), t + 1)
           /\ WorkedOn(Append(w, x), t + 1)
           /\ \A d \in Nat : d <= t => (WorkedOn(Append(w, x), d) <=> WorkedOn(w, d))
           /\ \A d \in Nat : d <= t + 1 => (Unfinished(Append(w, x), d) <=> Unfinished(w, d))
<1>0. PICK S : w \in Seq(S)
  BY DEF IsWork
<1>. DEFINE T == S \cup {x}
            v == Append(w, x)
            n == Len(w)
<1>1. w \in Seq(T) /\ x \in T
  BY <1>0, SeqMonotonic
<1>. HIDE DEF T
<1>2. /\ v \in Seq(T) /\ Len(v) = n + 1 /\ n \in Nat
      /\ \A k \in 1 .. n : v[k] = w[k]
      /\ v[n + 1] = x
  BY <1>1, AppendProperties, LenProperties
<1>3. DOMAIN w = 1 .. n /\ DOMAIN v = 1 .. n + 1
  BY <1>1, <1>2
<1>. HIDE DEF v, n
<1>4. IsWork(v)
  BY <1>2 DEF IsWork
<1>5. \A k \in 1 .. n : w[k].on \in Nat /\ w[k].on <= t /\ v[k].on = w[k].on
                        /\ v[k].complete = w[k].complete
  BY <1>2, <1>3 DEF DoneBy
<1>6. \A k \in 1 .. n + 1 : k \in 1 .. n \/ k = n + 1
  BY <1>2
<1>7. DoneBy(v, t + 1)
  BY <1>2, <1>3, <1>5, <1>6 DEF DoneBy
<1>8. WorkedOn(v, t + 1)
  BY <1>2, <1>3 DEF WorkedOn
<1>9. \A k \in 1 .. n : k \in 1 .. n + 1
  BY <1>2
<1>10. ASSUME NEW d \in Nat, d <= t PROVE WorkedOn(v, d) <=> WorkedOn(w, d)
  <2>1. v[n + 1].on # d
    BY <1>2, <1>10
  <2>. QED
    BY <1>3, <1>5, <1>6, <1>9, <2>1 DEF WorkedOn
<1>11. ASSUME NEW d \in Nat, d <= t + 1 PROVE Unfinished(v, d) <=> Unfinished(w, d)
  <2>1. ~(v[n + 1].on < d)
    BY <1>2, <1>11
  <2>2. \A k \in 1 .. n : v[k].on < d <=> w[k].on < d
    BY <1>5
  <2>3. \A k \in 1 .. n : (\A l \in 1 .. n + 1 : v[l].on < d => l <= k)
                            <=> (\A l \in 1 .. n : w[l].on < d => l <= k)
    BY <1>6, <1>9, <2>1, <2>2
  <2>. QED
    BY <1>3, <1>5, <1>6, <1>9, <2>1, <2>2, <2>3 DEF Unfinished
<1>. QED
  BY <1>4, <1>7, <1>8, <1>10, <1>11 DEF v

\* Before the day that comes, what is unfinished is what is pending.
LEMMA UnfinishedIs ==
    ASSUME NEW b, IsWork(b.work), NEW t \in Int, DoneBy(b.work, t)
    PROVE  Unfinished(b.work, t + 1) <=> b.work = <<>> \/ Pending(b)
<1>. DEFINE w == b.work
            n == Len(w)
<1>0. PICK S : w \in Seq(S)
  BY DEF IsWork
<1>1. n \in Nat /\ DOMAIN w = 1 .. n /\ (w = <<>> <=> n = 0)
  BY <1>0, EmptySeq, LenProperties
<1>2. \A k \in 1 .. n : w[k].on < t + 1
  BY <1>1 DEF DoneBy
<1>3. Pending(b) <=> w # <<>> /\ ~w[n].complete
  BY DEF Pending
<1>. HIDE DEF w, n
<1>4. Unfinished(w, t + 1) <=>
        \A k \in 1 .. n : (\A l \in 1 .. n : l <= k) => ~w[k].complete
  BY <1>1, <1>2 DEF Unfinished
<1>5. \A k \in 1 .. n : (\A l \in 1 .. n : l <= k) <=> k = n
  BY <1>1
<1>6. Unfinished(w, t + 1) <=> (n # 0 => ~w[n].complete)
  <2>1. n # 0 => n \in 1 .. n
    BY <1>1
  <2>2. \A k \in 1 .. n : n # 0
    BY <1>1
  <2>. QED
    BY <1>4, <1>5, <2>1, <2>2
<1>. QED
  BY <1>1, <1>3, <1>6 DEF w

\* The session adds to the core's work, and what it adds.
Works(i, b, d, how) ==
    /\ Session(i, d, how) = "open" /\ ~Halted(i, b, d)
    /\ b.work = <<>> \/ Pending(b) \/ CivilLast(d, i.spec.ips.cycle)
Halting(i, b, d, how) == Session(i, d, how) = "open" /\ Halted(i, b, d)

DayAdds(i, b, d, how) ==
    LET c == DayBook(i, b, d, how)
    IN  /\ IsBook(c)
        /\ c.work = IF Works(i, b, d, how) THEN Append(b.work, Work(i, b, d)) ELSE b.work
        /\ c.halted = IF Halting(i, b, d, how) THEN b.halted \cup {d} ELSE b.halted

\* A day on which the core works leaves the book another entry, any other leaves it.
LEMMA DayWorks ==
    ASSUME NEW i \in Files, NEW how, NEW d \in Nat, NEW b, IsBook(b), i.spec.ips # None
    PROVE  DayAdds(i, b, d, how)
<1>0. IsRebalanceSession(CalendarAt(i, d, TRUE), d, i.spec.ips.cycle)
        <=> CivilLast(d, i.spec.ips.cycle)
  <2>1. d <= d
    OBVIOUS
  <2>. QED
    BY <2>1, AheadByWeekdays, Zenon
<1>1. CoreWorks(i, b, d)
        <=> ~Halted(i, b, d) /\ (b.work = <<>> \/ Pending(b) \/ CivilLast(d, i.spec.ips.cycle))
  BY <1>0, Zenon DEF CoreWorks
<1>. DEFINE c == Tick(i, b, d)
<1>2. /\ IsBook(c)
      /\ c.work = IF CoreWorks(i, b, d) THEN Append(b.work, Work(i, b, d)) ELSE b.work
      /\ c.halted = IF Halted(i, b, d) THEN b.halted \cup {d} ELSE b.halted
  <2>. DEFINE w == IF CoreWorks(i, b, d) THEN Append(b.work, Work(i, b, d)) ELSE b.work
              h == IF Halted(i, b, d) THEN b.halted \cup {d} ELSE b.halted
              s == IF i.roster.ids = {} THEN b.satellite ELSE Append(b.satellite, Quotes(i, d, TRUE))
  <2>1. c = [b EXCEPT !.work = w, !.halted = h, !.satellite = s]
    BY DEF Tick
  <2>. HIDE DEF w, h, s, c
  <2>2. c = [work |-> w, halted |-> h, satellite |-> s, bench |-> b.bench]
    BY <2>1 DEF IsBook
  <2>. QED
    BY <2>2 DEF w, h, IsBook
<1>3. DayBook(i, b, d, how) = IF Session(i, d, how) = "open" THEN c ELSE b
  BY DEF DayBook
<1>. HIDE DEF c
<1>. QED
  BY <1>1, <1>2, <1>3 DEF Works, Halting, DayAdds

\* The book of a day that was right until yesterday is right until today.
LEMMA DayOnTime ==
    ASSUME NEW i \in Files, NEW how, NEW t \in Int, t + 1 \in Nat, Start <= t + 1,
           NEW b, IsBook(b), IsWork(b.work), i.spec.ips # None, DoneBy(b.work, t),
           \A d \in b.halted : d \in Nat /\ d <= t,
           \A d \in Start .. t : OnTime(i, b, how, d),
           NEW c, c = DayBook(i, b, t + 1, how)
    PROVE  /\ IsBook(c) /\ IsWork(c.work) /\ DoneBy(c.work, t + 1)
           /\ \A d \in c.halted : d \in Nat /\ d <= t + 1
           /\ \A d \in Start .. t + 1 : OnTime(i, c, how, d)
<1>. DEFINE x     == Work(i, b, t + 1)
            works == Works(i, b, t + 1, how)
            halts == Halting(i, b, t + 1, how)
            open  == Session(i, t + 1, how) = "open"
            cycle == i.spec.ips.cycle
<1>1. /\ IsBook(c)
      /\ c.work = IF works THEN Append(b.work, x) ELSE b.work
      /\ c.halted = IF halts THEN b.halted \cup {t + 1} ELSE b.halted
  <2>1. DayAdds(i, b, t + 1, how)
    BY DayWorks
  <2>. QED
    BY <2>1, Zenon DEF DayAdds
<1>2. x.on = t + 1
  BY DEF Work
<1>3. works <=> open /\ ~Halted(i, b, t + 1)
                     /\ (b.work = <<>> \/ Pending(b) \/ CivilLast(t + 1, cycle))
  BY DEF Works
<1>4. halts <=> open /\ Halted(i, b, t + 1)
  BY DEF Halting
<1>5. CivilLast(t + 1, cycle) <=> LastWeekday(t + 1, cycle)
  BY CivilLastIs
<1>6. Unfinished(b.work, t + 1) <=> b.work = <<>> \/ Pending(b)
  BY UnfinishedIs
<1>. HIDE DEF x, works, halts, open, cycle
<1>. DEFINE v == Append(b.work, x)
<1>7. /\ IsWork(v) /\ DoneBy(v, t + 1) /\ WorkedOn(v, t + 1)
      /\ \A d \in Nat : d <= t => (WorkedOn(v, d) <=> WorkedOn(b.work, d))
      /\ \A d \in Nat : d <= t + 1 => (Unfinished(v, d) <=> Unfinished(b.work, d))
  BY <1>2, WorkAdded
<1>8. DoneBy(b.work, t + 1) /\ ~WorkedOn(b.work, t + 1)
  BY DEF DoneBy, WorkedOn
<1>. HIDE DEF v
<1>9. /\ IsWork(c.work) /\ DoneBy(c.work, t + 1)
      /\ WorkedOn(c.work, t + 1) <=> works
      /\ \A d \in Nat : d <= t => (WorkedOn(c.work, d) <=> WorkedOn(b.work, d))
      /\ \A d \in Nat : d <= t + 1 => (Unfinished(c.work, d) <=> Unfinished(b.work, d))
  BY <1>1, <1>7, <1>8 DEF v
<1>10. /\ \A d \in c.halted : d \in Nat /\ d <= t + 1
       /\ t + 1 \in c.halted <=> halts
       /\ \A d \in Nat : d <= t => (d \in c.halted <=> d \in b.halted)
  BY <1>1
<1>11. OnTime(i, c, how, t + 1)
  <2>1. Unfinished(c.work, t + 1) <=> Unfinished(b.work, t + 1)
    BY <1>9
  <2>. QED
    BY <1>3, <1>4, <1>5, <1>6, <1>9, <1>10, <2>1 DEF OnTime, open, cycle
<1>12. ASSUME NEW d \in Start .. t PROVE OnTime(i, c, how, d)
  <2>1. d \in Nat /\ d <= t /\ d <= t + 1
    BY WindowStarts
  <2>2. /\ WorkedOn(c.work, d) <=> WorkedOn(b.work, d)
        /\ Unfinished(c.work, d) <=> Unfinished(b.work, d)
        /\ d \in c.halted <=> d \in b.halted
    BY <1>9, <1>10, <2>1
  <2>3. OnTime(i, b, how, d)
    OBVIOUS
  <2>. QED
    BY <2>2, <2>3 DEF OnTime
<1>13. \A d \in Start .. t + 1 : d = t + 1 \/ d \in Start .. t
  BY WindowStarts
<1>. QED
  BY <1>1, <1>9, <1>10, <1>11, <1>12, <1>13

LEMMA DayKeepsWork ==
    ASSUME CampaignInv, WorkInv, ReplayDay
    PROVE  WorkInv'
<1>. SUFFICES ASSUME in.spec.ips # None PROVE WorkInv'
  BY DEF WorkInv, ReplayDay
<1>1. /\ job # "idle" /\ in' = in /\ job' = job /\ today' = today + 1
      /\ book' = DayBook(in, book, today + 1, job)
      /\ in \in Files /\ today \in Int /\ Start - 1 <= today
  BY WindowStarts DEF ReplayDay, CampaignInv, ReplayInv
<1>2. today + 1 \in Nat /\ Start <= today + 1
  BY <1>1, WindowStarts
<1>3. /\ IsBook(book) /\ IsWork(book.work)
      /\ DoneBy(book.work, today) /\ \A d \in book.halted : d \in Nat /\ d <= today
      /\ \A d \in Start .. today : OnTime(in, book, job, d)
  BY <1>1 DEF WorkInv
<1>4. PICK c : c = DayBook(in, book, today + 1, job)
  OBVIOUS
<1>5. /\ IsBook(c) /\ IsWork(c.work) /\ DoneBy(c.work, today + 1)
      /\ \A d \in c.halted : d \in Nat /\ d <= today + 1
      /\ \A d \in Start .. today + 1 : OnTime(in, c, job, d)
  BY <1>1, <1>2, <1>3, <1>4, DayOnTime
<1>6. book' = c
  BY <1>1, <1>4
<1>7. IsBook(book)' /\ IsWork(book.work)'
  BY <1>5, <1>6 DEF IsBook, IsWork
<1>8. DoneBy(book.work, today)' /\ \A d \in book'.halted : d \in Nat /\ d <= today'
  BY <1>1, <1>5, <1>6 DEF DoneBy
<1>9. ASSUME NEW d \in Start .. today + 1 PROVE OnTime(in, book, job, d)'
  <2>1. OnTime(in, c, job, d)
    BY <1>5
  <2>2. WorkedOn(book.work, d)' <=> WorkedOn(c.work, d)
    BY <1>6 DEF WorkedOn
  <2>3. Unfinished(book.work, d)' <=> Unfinished(c.work, d)
    BY <1>6 DEF Unfinished
  <2>4. Session(in, d, job)' = Session(in, d, job)
    BY <1>1 DEF Session, HasSession
  <2>5. LastWeekday(d, in.spec.ips.cycle)' <=> LastWeekday(d, in.spec.ips.cycle)
    BY <1>1
  <2>. QED
    BY <1>6, <2>1, <2>2, <2>3, <2>4, <2>5 DEF OnTime
<1>10. today' = today + 1
  BY <1>1
<1>. QED
  BY <1>7, <1>8, <1>9, <1>10 DEF WorkInv

LEMMA InitWork == Init => WorkInv
BY DEF Init, WorkInv

LEMMA WorkKept == ASSUME CampaignInv, WorkInv, [Next]_vars PROVE WorkInv'
<1>1. ASSUME UNCHANGED <<job, in, today, book>> PROVE WorkInv'
  BY <1>1 DEF WorkInv, IsBook, IsWork, DoneBy, OnTime, WorkedOn, Unfinished, Session, HasSession
<1>2. ASSUME job' = "idle" PROVE WorkInv'
  BY <1>2 DEF WorkInv
<1>3. ASSUME NEW how, Begin(how) PROVE WorkInv'
  <2>1. today' = Start - 1 /\ book' = NewBook(files)
    BY <1>3 DEF Begin
  <2>2. \A d \in Start .. today' : FALSE
    BY <2>1, WindowStarts
  <2>3. /\ IsBook(book') /\ book'.work = <<>> /\ IsWork(book'.work) /\ book'.halted = {}
        /\ DoneBy(book'.work, today')
    BY <2>1 DEF NewBook, IsBook, IsWork, DoneBy
  <2>. QED
    BY <2>2, <2>3 DEF WorkInv, IsBook, IsWork, DoneBy
<1>4. CASE UNCHANGED vars
  BY <1>1, <1>4 DEF vars
<1>5. ASSUME NEW changed, Edit(changed) PROVE WorkInv'
  BY <1>1, <1>5 DEF Edit, replay
<1>6. ASSUME NEW alone \in BOOLEAN, Commit(alone) PROVE WorkInv'
  BY <1>1, <1>6 DEF Commit, replay
<1>7. CASE \/ \E tape \in Tapes : Fetch(tape)
           \/ \E ids \in Picks : RunLab(ids)
           \/ \E p \in Specs : EditSpec(p)
           \/ \E c \in Codes : EditCode(c)
  BY <1>5, <1>7 DEF Fetch, RunLab, EditSpec, EditCode
<1>8. CASE (\E force \in BOOLEAN : Save(force)) \/ CrashInSave \/ Verify \/ Ends
  BY <1>2, <1>8 DEF Save, CrashInSave, Verify, Ends, Done
<1>. QED
  BY <1>3, <1>4, <1>6, <1>7, <1>8, DayKeepsWork DEF Next

\* For every calendar, tape, statement and history of edits, and whenever the
\* book is halted or its work is left pending: the core works on its first
\* session, on the last weekday of a period and on the session after one that
\* left work pending, if it is held and the book is not halted, and on no other
\* day (Preview, coreLocked, civilLast on a calendar that ends today).
THEOREM RebalancesAlwaysOnTime == Spec => []RebalancesOnTime
<1>1. Init => WorkInv
  BY InitWork
<1>2. CampaignInv /\ WorkInv /\ [Next]_vars => WorkInv'
  BY WorkKept
<1>3. WorkInv => RebalancesOnTime
  BY DEF WorkInv, RebalancesOnTime, OnTime, WorkedOn
<1>. QED
  BY <1>1, <1>2, <1>3, CampaignInvariant, PTL DEF Spec
=============================================================================

--------------------------- MODULE ConnScanProofs ---------------------------
(***************************************************************************)
(* What holds of ConnScan for any owners, repositories, conditions and     *)
(* answers of the forge: that what a scan's lines call complete was read   *)
(* whole, that it publishes whole snapshots or none, keeps whole lists or  *)
(* none, and that its verdict and the cause it names are so.               *)
(***************************************************************************)
EXTENDS ConnScan, SequenceFacts

owners == ToSet(Owners)
repos == ToSet(Repos)
Left == ToSet(todo)

Gated == {"reused", "opened"}
ReadsSteps == {"snapshots", "runs", "checks", "github"}
Closed == {"save", "saved"} \cup Ends
FamiliesOf(s) ==
    CASE s = "snapshots" -> {"prs", "issues"} [] s = "runs" -> {"runs"} [] s = "checks" -> {"checks"}
      [] s = "github" -> {"security", "workflows"} [] OTHER -> {}

(* Nothing was read yet. *)
EmptyScan == listed = {} /\ byOwner = NoneFound /\ keptWhole = Unset /\ rows = {} /\ dates = {} /\ todo = <<>>
Untouched(l) ==
    /\ l.done = {} /\ l.ok = {} /\ l.drops = {} /\ l.unresolved = {} /\ l.stop = "none"
    /\ l.flags \subseteq {"github", "opened"}

StepInv ==
    /\ step = "open" => EmptyScan /\ whole = {} /\ ledger = NewLedger
    /\ step \in Gated => EmptyScan /\ whole = {} /\ Untouched(ledger) /\ ledger.begun = {} /\ "opened" \notin ledger.flags
    /\ step = "unopened" => EmptyScan /\ whole = {} /\ ledger.done = {}
    /\ Discovering =>
          EmptyScan /\ whole \subseteq {<<"open", env.product>>} /\ Untouched(ledger) /\ ledger.begun = {"repos"}
    /\ step \in ReadsSteps => "repos" \in ledger.done
    /\ step \notin ReadsSteps => todo = <<>>
    /\ step \in Gated \cup ReadsSteps \cup {"open", "discover"} => ledger.stop = "none"
    /\ step = "discover" => ledger.begun = {"repos"}
    /\ step = "snapshots" => "checks" \notin ledger.begun
    /\ step \in ReadsSteps => Reading(step, ledger) \subseteq ledger.begun

(* What the ledger's parts say of each other. *)
DropFits(l, d) ==
    /\ d[1] \in l.begun
    /\ d[2] = "stopped" => l.stop # "none"
    /\ d[2] = "ownerFailed" => d[1] \in {"prs", "issues"}
    /\ d[2] = "noHead" => d[1] = "checks"
    /\ d[2] = "noRepos" => d[1] = "repos"
    /\ d[2] = "sourceBlind" => d[1] = "failing"
LedgerInv ==
    /\ ledger.done \subseteq ledger.begun
    /\ \A d \in ledger.drops : DropFits(ledger, d)
    /\ ledger.off \subseteq {"security"}
    /\ ledger.off \cap ledger.begun = {}
    /\ ledger.off # {} => ~env.security
    /\ ("runs" \in ledger.unsupported) <=> ("failing" \in ledger.unsupported)
    /\ ledger.unsupported \cap {"repos", "prs", "issues", "state"} = {}
    /\ step \in Gated \cup ReadsSteps \cup {"discover"} =>
          /\ env.product # "github" => {"security", "workflows"} \subseteq ledger.unsupported
          /\ env.product = "github" /\ ~env.security => "security" \in ledger.off

(* The reads still to make are of the step under way. *)
TodoInv == \A u \in Left :
    /\ u[1] \in FamiliesOf(step) \cap ledger.begun
    /\ IsOwner(u) => u[1] \in {"prs", "issues"}
    /\ ~IsOwner(u) => u[2] \in kept
    /\ u[1] = "security" => env.security

(* The scan's context ended before its reads did, and nothing says so yet,
   or nothing ever will. *)
Lost ==
    \/ step = "end" /\ ctx # "live" /\ ledger.stop = "none"
    \/ step \in Closed /\ ctx = "shutdown"

EndInv ==
    /\ step \in Closed => (ctx = "limit" => ledger.stop # "none")
    /\ step = "complete" => ledger.stop = "none" /\ ctx = "live"
    /\ step = "stopped" => ledger.stop # "none" /\ ctx # "shutdown"

(* What discovery answered, every kept repository for some resolved owner. *)
FoundInv == \A x \in kept : \E o \in owners \ ledger.unresolved : x \in byOwner[o]
ReadFamilies == {"prs", "issues", "runs", "checks", "security", "workflows"}
ReposInv ==
    /\ \A x \in listed : \E o \in owners \ ledger.unresolved : x \in OwnedBy[o]
    /\ FoundInv
    /\ "repos" \in ledger.done /\ ~Dropped(ledger, "repos", {"cut"}) =>
          \A o \in owners \ ledger.unresolved : <<"repos", o>> \in whole /\ OwnedBy[o] \ env.late \subseteq listed
    /\ ledger.unresolved # {} => Dropped(ledger, "repos", {"unresolved"})
    /\ "repos" \in ledger.begun \ ledger.done =>
          \/ step = "discover" \/ Lost
          \/ Dropped(ledger, "repos", {"failed", "refused", "stopped"})
    /\ "repos" \notin ledger.done => EmptyScan /\ ledger.begun \cap ReadFamilies = {}
    /\ "repos" \in ledger.done => Answered(ledger, "repos")
    /\ keptWhole # Unset => Live \ env.excluded \subseteq keptWhole

(* A family read whole, as far as it was read: every listing it wants of a
   kept repository was answered whole, or is still to be read, an owner's
   listing with the repositories it falls back to. *)
Gaps == {"failed", "cut", "noHead", "refused", "stopped", "ownerFailed"}
WantedOf(f) ==
    CASE f = "checks" -> {x \in kept : <<"prs", x>> \in rows}
      [] f \in {"security", "workflows"} -> kept \ env.forks
      [] OTHER -> kept
Found(u) == IF IsOwner(u) THEN byOwner[u[2]] ELSE {u[2]}
Coming(f, x) ==
    \/ \E u \in Left : u[1] = f /\ x \in Found(u)
    \/ f = "runs" /\ step = "runs" /\ "undated" \in dates
Met(f) == \A x \in WantedOf(f) : <<f, x>> \in whole
Unread(f) == f \notin ledger.done /\ Lost
Reached(f) ==
    /\ f \notin ledger.done /\ step \in ReadsSteps
    /\ \A x \in WantedOf(f) : <<f, x>> \in whole \/ Coming(f, x)
Covered(f) == Dropped(ledger, f, Gaps) \/ Met(f) \/ Unread(f) \/ Reached(f)
CoverInv == \A f \in (ReadFamilies \cap ledger.begun) \ ledger.unsupported : Covered(f)

(* The rows of a snapshot are those of the listings answered whole, until
   they are withheld. *)
RowsInv ==
    /\ \A f \in {"prs", "issues"}, x \in kept : step \notin Closed /\ <<f, x>> \in whole => <<f, x>> \in rows
    /\ \A row \in rows : row[1] \in ledger.begun /\ row[1] \in {"prs", "issues", "runs", "security", "workflows"}
    /\ \A row \in rows : row[1] = "runs" => Answered(ledger, "runs")
    /\ \A f \in {"prs", "issues"} : Dropped(ledger, f, {"failed", "refused"}) =>
          Dropped(ledger, f, {"ownerFailed"}) \/ ledger.stop # "none"
    /\ step \in Closed => \A f \in {"prs", "issues", "security"} :
          Blind(ledger, f) => \A row \in rows : row[1] # f
    /\ step \in Closed /\ ledger.stop = "none" /\ ctx # "shutdown" => \A f \in {"prs", "issues"} :
          \/ \A row \in rows : row[1] # f
          \/ /\ \A x \in kept : <<f, x>> \in rows \cap whole
             /\ "repos" \in ledger.done /\ ~Dropped(ledger, "repos", {"cut"})

(* The families every scan reads, when nothing ends it early. *)
Unlisted == Dropped(ledger, "repos", {"failed", "refused", "noRepos"})
BegunBy(s) ==
    /\ s # "discover" => {"prs", "issues"} \subseteq ledger.begun
    /\ s \notin {"discover", "snapshots"} => "runs" \in ledger.begun
    /\ s \notin {"discover", "snapshots", "runs"} =>
          \/ "checks" \in ledger.begun \cup ledger.unsupported
          \/ Degraded(ledger)
    /\ s \notin {"discover", "snapshots", "runs", "checks"} =>
          {"security", "workflows"} \subseteq ledger.begun \cup ledger.unsupported \cup ledger.off
BegunInv ==
    /\ step \in ReadsSteps \cup {"discover"} => "repos" \in ledger.begun /\ BegunBy(step)
    /\ step \in Closed \cup {"end", "unopened"} =>
          \/ ledger.stop # "none" \/ Unlisted \/ Lost
          \/ step = "unopened" /\ ctx # "live"
          \/ "repos" \in ledger.begun /\ BegunBy(step)
    /\ step \in {"saved", "complete", "stopped"} => "state" \in ledger.begun
    /\ step = "complete" => "failing" \in ledger.begun \cup ledger.unsupported \/ Degraded(ledger)

(* What the flags a cause is of say of the reads. *)
OpenOnly == \A w \in whole : w[1] = "open"
FlagInv ==
    /\ OpenOnly \/ Answered(ledger, "repos")
    /\ OpenOnly /\ whole # {} => "opened" \in ledger.flags
    /\ "connFailed" \in ledger.flags => OpenOnly /\ step \in Closed \cup {"unopened", "end"}
    /\ Dropped(ledger, "repos", {"noRepos"}) => OpenOnly /\ step \notin ReadsSteps
    /\ ledger.flags \cap {"timedOut", "rateLimited"} # {} => ledger.stop # "none"

CoreInv == StepInv /\ LedgerInv /\ TodoInv /\ EndInv /\ ReposInv

-----------------------------------------------------------------------------
(* What a listing answers. *)

LEMMA WalkIsWhole ==
  ASSUME NEW pages \in Seq(Pages)
  PROVE  /\ Walk(pages) = "whole" <=> AllRead(pages)
         /\ Walk(pages) \in {"whole"} \cup CutShort \cup Errors
<1> DEFINE ends == {i \in DOMAIN pages : ~Goes(pages[i])} \cup {MaxPages + 1}
           n == Min(ends)
<1>1. DOMAIN pages = 1..Len(pages) /\ Len(pages) \in Nat /\ \A i \in 1..Len(pages) : pages[i] \in Pages
  OBVIOUS
<1>2. n \in ends /\ \A i \in ends : n <= i
  <2>1. ends \subseteq Nat /\ ends # {}
    BY <1>1, MaxPagesAssumption
  <2> HIDE DEF ends
  <2>2. \E m \in ends : \A i \in ends : m <= i
    BY <2>1, LeastExists
  <2>3. QED
    BY <2>2 DEF Min
<1>3. Walk(pages) = IF n > MaxPages THEN "ceiling"
                    ELSE IF pages[n] = "last" THEN "whole" ELSE pages[n]
  BY DEF Walk
<1> HIDE DEF n
<1>0. ASSUME AllRead(pages)
      PROVE  n <= MaxPages /\ pages[n] = "last"
  <2>1. PICK k \in 1..MaxPages \cap DOMAIN pages :
            pages[k] = "last" /\ \A i \in 1..k - 1 : Goes(pages[i])
    BY <1>0 DEF AllRead
  <2>2. k \in ends
    BY <2>1 DEF Goes
  <2>3. n <= k
    BY <1>2, <2>2
  <2>4. n \in Nat /\ n # 0
    BY <1>1, <1>2, MaxPagesAssumption
  <2>5. n \notin 1..k - 1
    <3> SUFFICES ASSUME n \in 1..k - 1
                 PROVE  FALSE
      OBVIOUS
    <3>1. Goes(pages[n])
      BY <2>1
    <3>2. n = MaxPages + 1
      BY <1>2, <3>1
    <3>3. QED
      BY <2>1, <2>3, <3>2, MaxPagesAssumption
  <2>6. n = k
    BY <1>1, <2>1, <2>3, <2>4, <2>5
  <2>7. QED
    BY <2>1, <2>6, MaxPagesAssumption
<1>4. CASE n > MaxPages
  <2>1. ~AllRead(pages)
    BY <1>0, <1>1, <1>2, <1>4, MaxPagesAssumption
  <2>2. QED
    BY <1>3, <1>4, <2>1 DEF CutShort
<1>5. CASE ~(n > MaxPages)
  <2>1. n \in DOMAIN pages /\ ~Goes(pages[n]) /\ n \in 1..MaxPages
    BY <1>1, <1>2, <1>5, MaxPagesAssumption
  <2>2. \A i \in 1..n - 1 : Goes(pages[i])
    <3> SUFFICES ASSUME NEW i \in 1..n - 1, ~Goes(pages[i])
                 PROVE  FALSE
      OBVIOUS
    <3>1. i \in DOMAIN pages /\ i < n
      BY <1>1, <2>1
    <3>2. i \in ends
      BY <3>1
    <3> HIDE DEF ends
    <3>3. n <= i
      BY <1>2, <3>2
    <3>4. QED
      BY <1>1, <2>1, <3>1, <3>3
  <2>3. pages[n] = "last" => AllRead(pages)
    BY <2>1, <2>2 DEF AllRead
  <2>4. pages[n] \in {"last"} \cup CutShort \cup Errors
    BY <1>1, <2>1 DEF Pages, Goes, CutShort
  <2>5. "whole" \notin Pages
    BY DEF Pages, Errors, Stops
  <2>6. pages[n] # "whole"
    BY <1>1, <2>1, <2>5
  <2>7. QED
    BY <1>0, <1>3, <1>5, <2>3, <2>4, <2>6
<1>6. QED
  BY <1>4, <1>5

LEMMA ListingIsWhole ==
  ASSUME NEW pages \in Seq(Pages)
  PROVE  /\ Listing(pages) = "whole" => AllRead(pages)
         /\ Listing(pages) \in {"whole", "cut"} \cup Errors
<1>1. QED
  BY WalkIsWhole DEF Listing, CutShort, Errors, Stops

LEMMA SnapshotIsWhole ==
  ASSUME NEW a \in Seq(Pages), NEW b \in Seq(Pages)
  PROVE  LET s == Snapshot(<<a, b>>)
         IN  /\ s = "whole" <=> AllRead(a) \/ (Walk(a) = "partial" /\ AllRead(b))
             /\ s \in {"whole"} \cup Errors
<1> DEFINE w == IF Walk(a) = "partial" THEN Walk(b) ELSE Walk(a)
<1>1. Snapshot(<<a, b>>) = IF w \in CutShort THEN "failed" ELSE w
  BY DEF Snapshot
<1>2. w \in {"whole"} \cup CutShort \cup Errors
  BY WalkIsWhole
<1>3. w = "whole" <=> AllRead(a) \/ (Walk(a) = "partial" /\ AllRead(b))
  BY WalkIsWhole
<1> HIDE DEF w
<1>4. "failed" \in Errors /\ "failed" # "whole" /\ "whole" \notin CutShort
  BY DEF Errors, CutShort
<1>5. QED
  BY <1>1, <1>2, <1>3, <1>4

(* An answer that reads whole was whole, and the ends a read may have. *)
LEMMA SnapshotAnswers ==
  ASSUME NEW a \in OfSnapshots
  PROVE  a.all \in BOOLEAN /\ (a.all <=> a.end = "whole") /\ a.end \in {"whole"} \cup Errors
<1>1. PICK p \in ItemPages, q \in ItemPages : a = Attempts(p, q)
  BY DEF OfSnapshots
<1>2. p \in Seq(Pages) /\ q \in Seq(Pages)
  BY PagesAssumption
<1>3. a.end = Snapshot(<<p, q>>) /\ (a.all <=> (AllRead(p) \/ (Walk(p) = "partial" /\ AllRead(q))))
      /\ a.all \in BOOLEAN
  BY <1>1 DEF Attempts
<1>4. QED
  BY <1>2, <1>3, SnapshotIsWhole

LEMMA CheckAnswers ==
  ASSUME NEW a \in OfChecks
  PROVE  a.all \in BOOLEAN /\ (a.end = "whole" => a.all) /\ a.end \in {"whole", "cut"} \cup Errors
<1>1. PICK p \in {"last", "cut"} \cup Errors : a = [end |-> Listing(<<p>>), all |-> p = "last"]
  BY DEF OfChecks
<1>2. p \in Pages
  BY DEF Pages
<1>3. <<p>> \in Seq(Pages) /\ DOMAIN <<p>> = 1..1 /\ <<p>>[1] = p
  BY <1>2
<1>4. AllRead(<<p>>) => p = "last"
  BY <1>3 DEF AllRead
<1>5. QED
  BY <1>1, <1>3, <1>4, ListingIsWhole

LEMMA ListingAnswers ==
  ASSUME NEW a \in OfListings
  PROVE  a.all \in BOOLEAN /\ (a.end = "whole" => a.all) /\ a.end \in {"whole", "cut"} \cup Errors
<1>1. PICK p \in RunPages : a = [end |-> Listing(p), all |-> AllRead(p)]
  BY DEF OfListings
<1>2. p \in Seq(Pages)
  BY PagesAssumption
<1>3. a.end = Listing(p) /\ (a.all <=> AllRead(p)) /\ a.all \in BOOLEAN
  BY <1>1 DEF AllRead
<1>4. QED
  BY <1>2, <1>3, ListingIsWhole

LEMMA AnswersType ==
  ASSUME NEW f \in Families, NEW owner \in BOOLEAN, NEW a \in Answers(f, owner)
  PROVE  /\ a.all \in BOOLEAN
         /\ a.end \in {"whole", "empty", "none", "tokenUnsupported"} => a.all
         /\ a.end \in {"whole", "cut", "empty", "none", "noHead", "tokenUnsupported", "undated", "unresolved"}
                      \cup Errors
         /\ a.end \in {"noHead", "tokenUnsupported"} => f = "checks"
         /\ a.end \in {"empty", "undated"} => f = "runs"
         /\ a.end = "none" => f = "security"
         /\ a.end = "unresolved" => f \in {"prs", "issues"} /\ owner
         /\ f \in {"prs", "issues"} => a.end # "cut" /\ (a.all => a.end = "whole")
<1> USE DEF Errors, Stops
<1>1. CASE f \in {"prs", "issues"}
  <2>1. a \in OfSnapshots \/ (owner /\ a = [end |-> "unresolved", all |-> FALSE])
    BY <1>1 DEF Answers
  <2>2. CASE a \in OfSnapshots
    BY <1>1, <2>2, SnapshotAnswers
  <2>3. CASE owner /\ a = [end |-> "unresolved", all |-> FALSE]
    BY <1>1, <2>3
  <2>4. QED
    BY <2>1, <2>2, <2>3
<1>2. CASE f = "checks"
  <2>1. \/ a \in OfChecks \/ a = [end |-> "noHead", all |-> FALSE]
        \/ a = [end |-> "tokenUnsupported", all |-> TRUE]
    BY <1>2 DEF Answers
  <2>2. CASE a \in OfChecks
    BY <1>2, <2>2, CheckAnswers
  <2>3. CASE a = [end |-> "noHead", all |-> FALSE]
    BY <1>2, <2>3
  <2>4. CASE a = [end |-> "tokenUnsupported", all |-> TRUE]
    BY <1>2, <2>4
  <2>5. QED
    BY <2>1, <2>2, <2>3, <2>4
<1>3. CASE f \notin {"prs", "issues", "checks"}
  <2>1. \/ a \in OfListings
        \/ f = "runs" /\ a = [end |-> "empty", all |-> TRUE]
        \/ f = "runs" /\ a = [end |-> "undated", all |-> FALSE]
        \/ f = "security" /\ a = [end |-> "none", all |-> TRUE]
    BY <1>3 DEF Answers
  <2>2. CASE a \in OfListings
    BY <1>3, <2>2, ListingAnswers
  <2>3. CASE f = "runs" /\ a = [end |-> "empty", all |-> TRUE]
    BY <1>3, <2>3
  <2>4. CASE f = "runs" /\ a = [end |-> "undated", all |-> FALSE]
    BY <1>3, <2>4
  <2>5. CASE f = "security" /\ a = [end |-> "none", all |-> TRUE]
    BY <1>3, <2>5
  <2>6. QED
    BY <2>1, <2>2, <2>3, <2>4, <2>5
<1>4. QED
  BY <1>1, <1>2, <1>3

-----------------------------------------------------------------------------
(* The sequences of reads. *)

LEMMA AmongElements ==
  ASSUME NEW s, IsSeq(s), NEW S
  PROVE  IsSeq(Among(s, S)) /\ ToSet(Among(s, S)) = ToSet(s) \cap S
<1> DEFINE ss == [i \in DOMAIN s |-> IF s[i] \in S THEN <<s[i]>> ELSE <<>>]
<1>1. Len(s) \in Nat /\ DOMAIN s = 1..Len(s)
  BY DEF IsSeq
<1>2. ASSUME NEW i \in DOMAIN s
      PROVE  IsSeq(ss[i]) /\ \A x : Has(ss[i], x) <=> x = s[i] /\ s[i] \in S
  <2>1. CASE s[i] \in S
    <3>1. ss[i] = <<s[i]>> /\ <<s[i]>> \in Seq({s[i]}) /\ DOMAIN <<s[i]>> = {1} /\ <<s[i]>>[1] = s[i]
      BY <2>1
    <3>2. IsSeq(ss[i])
      BY <3>1, SequenceBasics
    <3>3. QED
      BY <2>1, <3>1, <3>2 DEF Has
  <2>2. CASE s[i] \notin S
    <3>1. ss[i] = <<>> /\ <<>> \in Seq({}) /\ DOMAIN <<>> = {}
      BY <2>2
    <3>2. IsSeq(ss[i])
      BY <3>1, SequenceBasics
    <3>3. QED
      BY <2>2, <3>1, <3>2 DEF Has
  <2>3. QED
    BY <2>1, <2>2
<1>3. Among(s, S) = FlattenSeq(ss) /\ DOMAIN ss = DOMAIN s
  BY DEF Among
<1>4. ss = [i \in 1..Len(s) |-> ss[i]]
  BY <1>1
<1> HIDE DEF ss
<1>5. IsSeq(ss)
  BY <1>1, <1>4, Tabulated
<1>6. IsSeq(FlattenSeq(ss)) /\ \A x : Has(FlattenSeq(ss), x) <=> \E i \in DOMAIN ss : Has(ss[i], x)
  BY <1>2, <1>3, <1>5, FlatteningAny
<1>7. \A x : Has(FlattenSeq(ss), x) <=> Has(s, x) /\ x \in S
  BY <1>2, <1>3, <1>6 DEF Has
<1>8. QED
  BY <1>3, <1>6, <1>7, SequenceBasics

LEMMA NamesSequences == IsSeq(Owners) /\ IsSeq(Repos) /\ owners \cap repos = {}
  BY NamesAssumption DEF IsSeq, owners, repos

(* The reads of each of fs over the elements of over, in turn. *)
LEMMA EachElements ==
  ASSUME NEW over, IsSeq(over), NEW fs, IsSeq(fs)
  PROVE  LET ss == [i \in DOMAIN over |-> [j \in DOMAIN fs |-> <<fs[j], over[i]>>]]
         IN  /\ IsSeq(FlattenSeq(ss))
             /\ \A u : u \in ToSet(FlattenSeq(ss)) <=> \E f \in ToSet(fs), x \in ToSet(over) : u = <<f, x>>
<1> DEFINE ss == [i \in DOMAIN over |-> [j \in DOMAIN fs |-> <<fs[j], over[i]>>]]
<1>1. Len(over) \in Nat /\ DOMAIN over = 1..Len(over) /\ Len(fs) \in Nat /\ DOMAIN fs = 1..Len(fs)
  BY DEF IsSeq
<1>2. ASSUME NEW i \in DOMAIN over
      PROVE  IsSeq(ss[i]) /\ \A u : Has(ss[i], u) <=> \E f \in ToSet(fs) : u = <<f, over[i]>>
  <2> DEFINE s == ss[i]
  <2>1. DOMAIN s = DOMAIN fs /\ \A j \in DOMAIN fs : s[j] = <<fs[j], over[i]>>
    OBVIOUS
  <2>2. s = [j \in 1..Len(fs) |-> s[j]]
    BY <1>1
  <2> HIDE DEF s
  <2>3. IsSeq(s)
    BY <1>1, <2>2, Tabulated
  <2>4. \A u : Has(s, u) <=> \E f \in ToSet(fs) : u = <<f, over[i]>>
    BY <2>1 DEF Has, ToSet
  <2>5. QED
    BY <2>3, <2>4 DEF s
<1>3. DOMAIN ss = DOMAIN over /\ ss = [i \in 1..Len(over) |-> ss[i]]
  BY <1>1
<1> HIDE DEF ss
<1>4. IsSeq(ss)
  BY <1>1, <1>3, Tabulated
<1>5. IsSeq(FlattenSeq(ss)) /\ \A u : Has(FlattenSeq(ss), u) <=> \E i \in DOMAIN ss : Has(ss[i], u)
  BY <1>2, <1>3, <1>4, FlatteningAny
<1>6. \A u : Has(FlattenSeq(ss), u) <=> \E f \in ToSet(fs), x \in ToSet(over) : u = <<f, x>>
  <2>1. \A x : x \in ToSet(over) <=> \E i \in DOMAIN over : over[i] = x
    BY DEF ToSet
  <2>2. ASSUME NEW u, Has(FlattenSeq(ss), u)
        PROVE  \E f \in ToSet(fs), x \in ToSet(over) : u = <<f, x>>
    <3>1. PICK i \in DOMAIN over : Has(ss[i], u)
      BY <1>3, <1>5, <2>2
    <3>2. PICK f \in ToSet(fs) : u = <<f, over[i]>>
      BY <1>2, <3>1
    <3>3. QED
      BY <2>1, <3>2
  <2>3. ASSUME NEW f \in ToSet(fs), NEW x \in ToSet(over)
        PROVE  Has(FlattenSeq(ss), <<f, x>>)
    <3>1. PICK i \in DOMAIN over : over[i] = x
      BY <2>1
    <3>2. Has(ss[i], <<f, x>>)
      BY <1>2, <3>1
    <3>3. QED
      BY <1>3, <1>5, <3>2
  <2>4. QED
    BY <2>2, <2>3
<1>7. \A u : u \in ToSet(FlattenSeq(ss)) <=> Has(FlattenSeq(ss), u)
  BY SequenceBasics
<1>8. QED
  BY <1>5, <1>6, <1>7 DEF ss

(* The reads a step begins with: over what, and of which families. *)
Over(s, l) ==
    CASE s = "snapshots" -> owners \ l.unresolved
      [] s = "runs" -> kept
      [] s = "checks" -> {row[2] : row \in {q \in rows : q[1] = "prs"}} \cap repos
      [] OTHER -> kept

LEMMA ReadsElements ==
  ASSUME NEW s \in {"snapshots", "runs", "checks", "github", "end"}, NEW l, listed \subseteq repos
  PROVE  /\ IsSeq(ReadsOf(s, l))
         /\ \A u : u \in ToSet(ReadsOf(s, l)) <=> \E f \in Reading(s, l), x \in Over(s, l) : u = <<f, x>>
<1>1. IsSeq(<<"prs", "issues">>) /\ ToSet(<<"prs", "issues">>) = {"prs", "issues"}
  <2>1. <<"prs", "issues">> \in Seq({"prs", "issues"})
    OBVIOUS
  <2>2. DOMAIN <<"prs", "issues">> = {1, 2} /\ <<"prs", "issues">>[1] = "prs" /\ <<"prs", "issues">>[2] = "issues"
    OBVIOUS
  <2>3. IsSeq(<<"prs", "issues">>)
    BY <2>1, SequenceBasics
  <2>4. QED
    BY <2>2, <2>3 DEF ToSet
<1>2. IsSeq(<<"security", "workflows">>) /\ ToSet(<<"security", "workflows">>) = {"security", "workflows"}
  <2>1. <<"security", "workflows">> \in Seq({"security", "workflows"})
    OBVIOUS
  <2>2. DOMAIN <<"security", "workflows">> = {1, 2} /\ <<"security", "workflows">>[1] = "security" /\ <<"security", "workflows">>[2] = "workflows"
    OBVIOUS
  <2>3. IsSeq(<<"security", "workflows">>)
    BY <2>1, SequenceBasics
  <2>4. QED
    BY <2>2, <2>3 DEF ToSet
<1>3. \A f : IsSeq(<<f>>) /\ ToSet(<<f>>) = {f}
  <2> SUFFICES ASSUME NEW f
               PROVE  IsSeq(<<f>>) /\ ToSet(<<f>>) = {f}
    OBVIOUS
  <2>1. <<f>> \in Seq({f}) /\ DOMAIN <<f>> = {1} /\ <<f>>[1] = f
    OBVIOUS
  <2>2. IsSeq(<<f>>)
    BY <2>1, SequenceBasics
  <2>3. QED
    BY <2>1, <2>2 DEF ToSet
<1>4. IsSeq(<<>>) /\ ToSet(<<>>) = {}
  <2>1. <<>> \in Seq({}) /\ DOMAIN <<>> = {}
    OBVIOUS
  <2>2. IsSeq(<<>>)
    BY <2>1, SequenceBasics
  <2>3. QED
    BY <2>1, <2>2 DEF ToSet
<1>5. IsSeq(Kept) /\ ToSet(Kept) = kept
  <2>1. kept \subseteq repos
    BY DEF kept
  <2>2. IsSeq(Kept) /\ ToSet(Kept) = ToSet(Repos) \cap kept
    BY AmongElements, NamesSequences DEF Kept
  <2>3. QED
    BY <2>1, <2>2 DEF repos
<1>6. CASE s = "snapshots"
  <2> DEFINE over == Among(Owners, ToSet(Owners) \ l.unresolved)
             fs == <<"prs", "issues">>
  <2>1. IsSeq(over) /\ ToSet(over) = owners \ l.unresolved
    BY AmongElements, NamesSequences DEF owners
  <2>2. ReadsOf(s, l) = FlattenSeq([i \in DOMAIN over |-> [j \in DOMAIN fs |-> <<fs[j], over[i]>>]])
    BY <1>6 DEF ReadsOf
  <2>3. Reading(s, l) = {"prs", "issues"} /\ Over(s, l) = owners \ l.unresolved
    BY <1>6 DEF Reading, Over
  <2> HIDE DEF over, fs
  <2>4. QED
    BY <1>1, <2>1, <2>2, <2>3, EachElements DEF fs
<1>7. CASE s = "runs"
  <2> DEFINE fs == <<"runs">>
  <2>1. ReadsOf(s, l) = FlattenSeq([i \in DOMAIN Kept |-> [j \in DOMAIN fs |-> <<fs[j], Kept[i]>>]])
    BY <1>7 DEF ReadsOf
  <2>2. Reading(s, l) = {"runs"} /\ Over(s, l) = kept
    BY <1>7 DEF Reading, Over
  <2>3. IsSeq(fs) /\ ToSet(fs) = {"runs"}
    BY <1>3
  <2> HIDE DEF fs
  <2>4. QED
    BY <1>5, <2>1, <2>2, <2>3, EachElements
<1>8. CASE s = "checks" /\ ReadsChecks(l)
  <2> DEFINE S == {row[2] : row \in {q \in rows : q[1] = "prs"}}
             over == Among(Repos, S)
             fs == <<"checks">>
  <2>1. IsSeq(over) /\ ToSet(over) = S \cap repos
    BY AmongElements, NamesSequences DEF repos
  <2>2. ReadsOf(s, l) = FlattenSeq([i \in DOMAIN over |-> [j \in DOMAIN fs |-> <<fs[j], over[i]>>]])
    BY <1>8 DEF ReadsOf
  <2>3. Reading(s, l) = {"checks"} /\ Over(s, l) = S \cap repos
    BY <1>8 DEF Reading, Over
  <2>4. IsSeq(fs) /\ ToSet(fs) = {"checks"}
    BY <1>3
  <2> HIDE DEF over, fs, S
  <2>5. QED
    BY <2>1, <2>2, <2>3, <2>4, EachElements
<1>9. CASE s = "github" /\ env.product = "github"
  <2> DEFINE fs == IF env.security THEN <<"security", "workflows">> ELSE <<"workflows">>
  <2>1. ReadsOf(s, l) = FlattenSeq([i \in DOMAIN Kept |-> [j \in DOMAIN fs |-> <<fs[j], Kept[i]>>]])
    BY <1>9 DEF ReadsOf
  <2>2. Reading(s, l) = ToSet(fs) /\ Over(s, l) = kept /\ IsSeq(fs)
    <3>1. CASE env.security
      BY <1>2, <1>9, <3>1 DEF Reading, Over
    <3>2. CASE ~env.security
      BY <1>3, <1>9, <3>2 DEF Reading, Over
    <3>3. QED
      BY <3>1, <3>2
  <2> HIDE DEF fs
  <2>3. QED
    BY <1>5, <2>1, <2>2, EachElements
<1>10. CASE s = "end" \/ (s = "checks" /\ ~ReadsChecks(l)) \/ (s = "github" /\ env.product # "github")
  <2>1. ReadsOf(s, l) = <<>> /\ Reading(s, l) = {}
    BY <1>10 DEF ReadsOf, Reading
  <2>2. QED
    BY <1>4, <2>1
<1>11. QED
  BY <1>6, <1>7, <1>8, <1>9, <1>10

LEMMA Steps ==
  /\ ToSet(ReadSteps) = {"discover", "snapshots", "runs", "checks", "github", "end"}
  /\ After("discover") = "snapshots" /\ After("snapshots") = "runs" /\ After("runs") = "checks"
  /\ After("checks") = "github" /\ After("github") = "end"
<1>1. DOMAIN ReadSteps = 1..6
  BY DEF ReadSteps
<1>2. /\ ReadSteps[1] = "discover" /\ ReadSteps[2] = "snapshots" /\ ReadSteps[3] = "runs"
      /\ ReadSteps[4] = "checks" /\ ReadSteps[5] = "github" /\ ReadSteps[6] = "end"
  BY DEF ReadSteps
<1>3. \A i \in 1..6 : i \in {1, 2, 3, 4, 5, 6}
  OBVIOUS
<1>4. ASSUME NEW k \in 1..5
      PROVE  After(ReadSteps[k]) = ReadSteps[1 + k]
  <2>1. \A i \in 1..6 : ReadSteps[i] = ReadSteps[k] => i = k
    BY <1>2, <1>3
  <2>2. (CHOOSE i \in DOMAIN ReadSteps : ReadSteps[i] = ReadSteps[k]) = k
    BY <1>1, <2>1
  <2>3. QED
    BY <2>2 DEF After
<1>5. ToSet(ReadSteps) = {"discover", "snapshots", "runs", "checks", "github", "end"}
  <2>1. ToSet(ReadSteps) = {ReadSteps[i] : i \in 1..6}
    BY <1>1 DEF ToSet
  <2>2. QED
    BY <1>2, <1>3, <2>1
<1>6. /\ After(ReadSteps[1]) = ReadSteps[2] /\ After(ReadSteps[2]) = ReadSteps[3]
      /\ After(ReadSteps[3]) = ReadSteps[4] /\ After(ReadSteps[4]) = ReadSteps[5]
      /\ After(ReadSteps[5]) = ReadSteps[6]
  BY <1>4
<1>7. QED
  BY <1>2, <1>5, <1>6

-----------------------------------------------------------------------------
(* What each entry makes of a ledger. *)

LedgerSet == Ledgers(owners)
Reasons == Excluded \cup Partial \cup BlindReasons

LEMMA BeginFields ==
  ASSUME NEW l \in LedgerSet, NEW fs \in SUBSET Families
  PROVE  /\ Begin(l, fs) \in LedgerSet
         /\ Begin(l, fs).begun = l.begun \cup fs
         /\ Begin(l, fs).done = l.done /\ Begin(l, fs).ok = l.ok
         /\ Begin(l, fs).unsupported = l.unsupported /\ Begin(l, fs).off = l.off
         /\ Begin(l, fs).drops = l.drops /\ Begin(l, fs).unresolved = l.unresolved
         /\ Begin(l, fs).flags = l.flags /\ Begin(l, fs).stop = l.stop
BY DEF Begin, LedgerSet, Ledgers

LEMMA FinishFields ==
  ASSUME NEW l \in LedgerSet, NEW fs \in SUBSET Families
  PROVE  /\ Finish(l, fs) \in LedgerSet
         /\ Finish(l, fs).done = l.done \cup fs
         /\ Finish(l, fs).begun = l.begun /\ Finish(l, fs).ok = l.ok
         /\ Finish(l, fs).unsupported = l.unsupported /\ Finish(l, fs).off = l.off
         /\ Finish(l, fs).drops = l.drops /\ Finish(l, fs).unresolved = l.unresolved
         /\ Finish(l, fs).flags = l.flags /\ Finish(l, fs).stop = l.stop
BY DEF Finish, LedgerSet, Ledgers

LEMMA UnsupportFields ==
  ASSUME NEW l \in LedgerSet, NEW fs \in SUBSET Families
  PROVE  /\ Unsupport(l, fs) \in LedgerSet
         /\ Unsupport(l, fs).unsupported = l.unsupported \cup fs
         /\ Unsupport(l, fs).begun = l.begun /\ Unsupport(l, fs).ok = l.ok
         /\ Unsupport(l, fs).done = l.done /\ Unsupport(l, fs).off = l.off
         /\ Unsupport(l, fs).drops = l.drops /\ Unsupport(l, fs).unresolved = l.unresolved
         /\ Unsupport(l, fs).flags = l.flags /\ Unsupport(l, fs).stop = l.stop
BY DEF Unsupport, LedgerSet, Ledgers

LEMMA FlagFields ==
  ASSUME NEW l \in LedgerSet, NEW fs \in SUBSET Flags
  PROVE  /\ Flag(l, fs) \in LedgerSet
         /\ Flag(l, fs).flags = l.flags \cup fs
         /\ Flag(l, fs).begun = l.begun /\ Flag(l, fs).ok = l.ok
         /\ Flag(l, fs).done = l.done /\ Flag(l, fs).off = l.off
         /\ Flag(l, fs).drops = l.drops /\ Flag(l, fs).unresolved = l.unresolved
         /\ Flag(l, fs).unsupported = l.unsupported /\ Flag(l, fs).stop = l.stop
BY DEF Flag, LedgerSet, Ledgers

LEMMA DropFields ==
  ASSUME NEW l \in LedgerSet, NEW f \in Families, NEW reason \in Reasons
  PROVE  /\ Drop(l, f, reason) \in LedgerSet
         /\ Drop(l, f, reason).drops = l.drops \cup {<<f, reason>>}
         /\ Drop(l, f, reason).begun = l.begun \cup {f}
         /\ Drop(l, f, reason).done = l.done /\ Drop(l, f, reason).ok = l.ok
         /\ Drop(l, f, reason).unsupported = l.unsupported /\ Drop(l, f, reason).off = l.off
         /\ Drop(l, f, reason).unresolved = l.unresolved
         /\ Drop(l, f, reason).flags = l.flags /\ Drop(l, f, reason).stop = l.stop
<1> DEFINE m == Begin(l, {f})
<1>1. /\ m \in LedgerSet /\ m.begun = l.begun \cup {f}
      /\ m.done = l.done /\ m.ok = l.ok /\ m.unsupported = l.unsupported /\ m.off = l.off
      /\ m.drops = l.drops /\ m.unresolved = l.unresolved /\ m.flags = l.flags /\ m.stop = l.stop
  BY BeginFields
<1>2. Drop(l, f, reason) = [m EXCEPT !.drops = @ \cup {<<f, reason>>}]
  BY DEF Drop
<1> HIDE DEF m
<1>3. QED
  BY <1>1, <1>2 DEF LedgerSet, Ledgers, Reasons

LEMMA HaltFields ==
  ASSUME NEW l \in LedgerSet, NEW reason \in StopReasons
  PROVE  /\ Halt(l, reason) \in LedgerSet
         /\ Halt(l, reason).stop = reason
         /\ Halt(l, reason).drops = l.drops \cup {<<f, "stopped">> : f \in l.begun \ l.done}
         /\ Halt(l, reason).begun = l.begun /\ Halt(l, reason).ok = l.ok
         /\ Halt(l, reason).done = l.done /\ Halt(l, reason).off = l.off
         /\ Halt(l, reason).unsupported = l.unsupported /\ Halt(l, reason).unresolved = l.unresolved
         /\ Halt(l, reason).flags = l.flags
<1> DEFINE cut == {<<f, "stopped">> : f \in l.begun \ l.done}
<1>1. cut \subseteq Families \X Reasons
  BY DEF LedgerSet, Ledgers, Reasons, Partial
<1>2. Halt(l, reason) = [[l EXCEPT !.stop = reason] EXCEPT !.drops = @ \cup cut]
  BY DEF Halt, LedgerSet, Ledgers
<1> HIDE DEF cut
<1> DEFINE m == [l EXCEPT !.stop = reason]
<1>3. /\ m \in LedgerSet /\ m.stop = reason /\ m.drops = l.drops
      /\ m.begun = l.begun /\ m.ok = l.ok /\ m.done = l.done /\ m.off = l.off
      /\ m.unsupported = l.unsupported /\ m.unresolved = l.unresolved /\ m.flags = l.flags
  BY DEF LedgerSet, Ledgers
<1>4. Halt(l, reason) = [m EXCEPT !.drops = @ \cup cut]
  BY <1>2
<1> HIDE DEF m
<1> DEFINE n == [m EXCEPT !.drops = @ \cup cut]
<1>5. /\ n \in LedgerSet /\ n.drops = m.drops \cup cut /\ n.stop = m.stop
      /\ n.begun = m.begun /\ n.ok = m.ok /\ n.done = m.done /\ n.off = m.off
      /\ n.unsupported = m.unsupported /\ n.unresolved = m.unresolved /\ n.flags = m.flags
  BY <1>1, <1>3 DEF LedgerSet, Ledgers, Reasons
<1>6. Halt(l, reason) = n
  BY <1>4
<1> HIDE DEF n
<1>7. QED
  BY <1>3, <1>5, <1>6 DEF cut

LEMMA ClassifyFields ==
  ASSUME NEW l \in LedgerSet, NEW product, NEW security \in BOOLEAN
  PROVE  LET m == Classify(l, product, security)
         IN  /\ m \in LedgerSet
             /\ m.unsupported = l.unsupported \cup (IF product = "plain" THEN {"checks"} ELSE {})
                                              \cup (IF product = "github" THEN {} ELSE {"security", "workflows"})
             /\ m.off = (IF product = "github" /\ ~security THEN {"security"} ELSE {})
             /\ m.flags = l.flags \cup (IF product = "github" THEN {"github"} ELSE {})
             /\ m.begun = l.begun /\ m.ok = l.ok /\ m.done = l.done /\ m.drops = l.drops
             /\ m.unresolved = l.unresolved /\ m.stop = l.stop
<1> DEFINE fs == (IF product = "plain" THEN {"checks"} ELSE {})
                 \cup (IF product = "github" THEN {} ELSE {"security", "workflows"})
           u == Unsupport(l, fs)
           fl == IF product = "github" THEN {"github"} ELSE {}
           off == IF product = "github" /\ ~security THEN {"security"} ELSE {}
<1>1. fs \in SUBSET Families /\ fl \in SUBSET Flags /\ off \in SUBSET Families
  BY DEF Families, Flags
<1>2. Classify(l, product, security) = [[u EXCEPT !.flags = @ \cup fl] EXCEPT !.off = off]
  <2>1. Classify(l, product, security) = [u EXCEPT !.flags = @ \cup fl, !.off = off]
    BY DEF Classify
  <2> HIDE DEF u, fl, off
  <2>2. QED
    BY <2>1
<1>3. fs = (IF product = "plain" THEN {"checks"} ELSE {})
           \cup (IF product = "github" THEN {} ELSE {"security", "workflows"})
  OBVIOUS
<1> HIDE DEF fs
<1>4. /\ u \in LedgerSet /\ u.unsupported = l.unsupported \cup fs
      /\ u.begun = l.begun /\ u.done = l.done /\ u.ok = l.ok /\ u.off = l.off
      /\ u.drops = l.drops /\ u.unresolved = l.unresolved /\ u.flags = l.flags /\ u.stop = l.stop
  BY <1>1, UnsupportFields
<1> HIDE DEF u
<1> DEFINE v == [u EXCEPT !.flags = @ \cup fl]
<1>5. /\ v \in LedgerSet /\ v.unsupported = u.unsupported /\ v.flags = u.flags \cup fl
      /\ v.begun = u.begun /\ v.done = u.done /\ v.ok = u.ok
      /\ v.drops = u.drops /\ v.unresolved = u.unresolved /\ v.stop = u.stop
  <2> HIDE DEF fl
  <2>1. QED
    BY <1>1, <1>4 DEF LedgerSet, Ledgers
<1> HIDE DEF v
<1> DEFINE w == [v EXCEPT !.off = off]
<1>6. /\ w \in LedgerSet /\ w.unsupported = v.unsupported /\ w.flags = v.flags /\ w.off = off
      /\ w.begun = v.begun /\ w.done = v.done /\ w.ok = v.ok
      /\ w.drops = v.drops /\ w.unresolved = v.unresolved /\ w.stop = v.stop
  <2> HIDE DEF off
  <2>1. QED
    BY <1>1, <1>5 DEF LedgerSet, Ledgers
<1>7. Classify(l, product, security) = w
  BY <1>2 DEF v
<1> HIDE DEF w
<1>8. QED
  BY <1>3, <1>4, <1>5, <1>6, <1>7

LEMMA TellsFlags ==
  ASSUME NEW l, NEW err
  PROVE  /\ Tells(l, err) \subseteq Flags \ {"github", "opened", "timedOut"}
         /\ "rateLimited" \in Tells(l, err) <=> err = "limited"
         /\ "connFailed" \in Tells(l, err) <=> err = "connection"
<1>1. CASE err \in {"token", "limited", "connection"}
  BY <1>1 DEF Tells, Flags
<1>2. CASE err \notin {"token", "limited", "connection"}
  BY <1>2 DEF Tells, Flags
<1>3. QED
  BY <1>1, <1>2

(* The fields a handler leaves alone. *)
Keeps(l, m) == m.done = l.done /\ m.off = l.off /\ m.unsupported = l.unsupported /\ m.unresolved = l.unresolved
Tracked == {"github", "opened", "timedOut"}

(* What a read notes of its family: the drop, if it was short. *)
Shortfall(f, end) ==
    CASE end \in {"whole", "none"} -> {}
      [] end = "cut" -> {<<f, "cut">>}
      [] end = "refused" -> {<<f, "refused">>}
      [] OTHER -> {<<f, "failed">>}

Noted(l, m, f, end) ==
    /\ m \in LedgerSet /\ Keeps(l, m) /\ m.stop = l.stop
    /\ m.begun = l.begun \cup {f}
    /\ m.ok = (IF end = "whole" THEN l.ok \cup {f} ELSE l.ok)
    /\ m.drops = l.drops \cup Shortfall(f, end)
Told(l, m, end) ==
    /\ m.flags \subseteq Flags /\ l.flags \subseteq m.flags
    /\ m.flags \cap Tracked = l.flags \cap Tracked
    /\ "rateLimited" \in m.flags <=> "rateLimited" \in l.flags \/ end = "limited"
    /\ "connFailed" \in m.flags <=> "connFailed" \in l.flags \/ end = "connection"

LEMMA RecordFields ==
  ASSUME NEW l \in LedgerSet, NEW f \in Families, NEW end
  PROVE  Noted(l, Record(l, f, end), f, end) /\ Told(l, Record(l, f, end), end)
<1> DEFINE m == Record(l, f, end)
<1>1. l.flags \subseteq Flags
  BY DEF LedgerSet, Ledgers
<1>2. CASE end = "whole"
  <2> DEFINE b == Begin(l, {f})
  <2>1. m = [b EXCEPT !.ok = @ \cup {f}]
    BY <1>2 DEF Record
  <2>2. /\ b \in LedgerSet /\ b.begun = l.begun \cup {f}
        /\ b.done = l.done /\ b.ok = l.ok /\ b.unsupported = l.unsupported /\ b.off = l.off
        /\ b.drops = l.drops /\ b.unresolved = l.unresolved /\ b.flags = l.flags /\ b.stop = l.stop
    BY BeginFields
  <2> HIDE DEF b, m
  <2>3. /\ m \in LedgerSet /\ m.begun = b.begun /\ m.ok = b.ok \cup {f}
        /\ m.done = b.done /\ m.unsupported = b.unsupported /\ m.off = b.off
        /\ m.drops = b.drops /\ m.unresolved = b.unresolved /\ m.flags = b.flags /\ m.stop = b.stop
    BY <2>1, <2>2 DEF LedgerSet, Ledgers
  <2>4. Shortfall(f, end) = {}
    BY <1>2 DEF Shortfall
  <2>5. QED
    BY <1>1, <1>2, <2>2, <2>3, <2>4 DEF m, Noted, Told, Keeps, Tracked
<1>3. CASE end = "cut"
  <2>1. m = Drop(l, f, "cut") /\ Shortfall(f, end) = {<<f, "cut">>} /\ "cut" \in Reasons
    BY <1>3 DEF Record, Shortfall, Reasons, Partial
  <2> HIDE DEF m, Noted, Told, Keeps, Tracked
  <2>2. QED
    BY <1>1, <1>3, <2>1, DropFields DEF m, Noted, Told, Keeps, Tracked
<1>4. CASE end = "none"
  <2>1. m = Begin(l, {f}) /\ Shortfall(f, end) = {}
    BY <1>4 DEF Record, Shortfall
  <2> HIDE DEF m, Noted, Told, Keeps, Tracked
  <2>2. QED
    BY <1>1, <1>4, <2>1, BeginFields DEF m, Noted, Told, Keeps, Tracked
<1>5. CASE end = "refused"
  <2>1. m = Drop(l, f, "refused") /\ Shortfall(f, end) = {<<f, "refused">>} /\ "refused" \in Reasons
    BY <1>5 DEF Record, Shortfall, Reasons, Partial
  <2> HIDE DEF m, Noted, Told, Keeps, Tracked
  <2>2. QED
    BY <1>1, <1>5, <2>1, DropFields DEF m, Noted, Told, Keeps, Tracked
<1>6. CASE end \notin {"whole", "cut", "none", "refused"}
  <2> DEFINE d == Drop(l, f, "failed")
  <2>1. m = Flag(d, Tells(l, end)) /\ Shortfall(f, end) = {<<f, "failed">>} /\ "failed" \in Reasons
    BY <1>6 DEF Record, Shortfall, Reasons, Partial
  <2>2. /\ d \in LedgerSet /\ d.begun = l.begun \cup {f} /\ d.drops = l.drops \cup {<<f, "failed">>}
        /\ d.done = l.done /\ d.ok = l.ok /\ d.unsupported = l.unsupported /\ d.off = l.off
        /\ d.unresolved = l.unresolved /\ d.flags = l.flags /\ d.stop = l.stop
    BY <2>1, DropFields
  <2>3. Tells(l, end) \in SUBSET Flags
    BY TellsFlags
  <2> HIDE DEF d, m
  <2>4. /\ m \in LedgerSet /\ m.flags = d.flags \cup Tells(l, end)
        /\ m.begun = d.begun /\ m.ok = d.ok /\ m.done = d.done /\ m.off = d.off
        /\ m.drops = d.drops /\ m.unresolved = d.unresolved
        /\ m.unsupported = d.unsupported /\ m.stop = d.stop
    BY <2>1, <2>2, <2>3, FlagFields
  <2>5. QED
    BY <1>1, <1>6, <2>1, <2>2, <2>4, TellsFlags DEF m, Noted, Told, Keeps, Tracked
<1>7. QED
  BY <1>2, <1>3, <1>4, <1>5, <1>6

(* A read that stops the scan. *)
LEMMA StoppedFields ==
  ASSUME NEW l \in LedgerSet, NEW f \in Families, NEW err \in Stops
  PROVE  LET m == Stopped(l, f, err)
         IN  /\ m \in LedgerSet
             /\ m.stop \in {"rate_limited", "read_reserve"}
             /\ l.begun \subseteq m.begun /\ m.begun \subseteq l.begun \cup {f}
             /\ l.drops \subseteq m.drops
             /\ \A d \in m.drops \ l.drops :
                   d[1] \in m.begun /\ d[2] \in {"stopped", "failed"} /\ (d[1] = f \/ d[2] = "stopped")
             /\ \A g \in m.begun \ m.done : <<g, "stopped">> \in m.drops
             /\ l.flags \subseteq m.flags
             /\ m.flags \cap {"github", "opened", "timedOut", "connFailed"}
                  = l.flags \cap {"github", "opened", "timedOut", "connFailed"}
             /\ m.ok = l.ok /\ m.done = l.done /\ m.off = l.off
             /\ m.unsupported = l.unsupported /\ m.unresolved = l.unresolved
<1> DEFINE m == Stopped(l, f, err)
<1>1. CASE err = "limited"
  <2> DEFINE r == Record(l, f, err)
  <2>1. m = Halt(r, "rate_limited") /\ "rate_limited" \in StopReasons /\ Shortfall(f, err) = {<<f, "failed">>}
    BY <1>1 DEF Stopped, StopReasons, Shortfall
  <2>2. /\ r \in LedgerSet /\ r.begun = l.begun \cup {f} /\ r.ok = l.ok
        /\ r.drops = l.drops \cup Shortfall(f, err)
        /\ l.flags \subseteq r.flags
        /\ r.flags \cap Tracked = l.flags \cap Tracked
        /\ "connFailed" \in r.flags <=> "connFailed" \in l.flags
        /\ r.done = l.done /\ r.off = l.off /\ r.unsupported = l.unsupported
        /\ r.unresolved = l.unresolved
    <3>1. Noted(l, r, f, err) /\ Told(l, r, err)
      BY RecordFields
    <3>2. err # "whole" /\ err # "connection"
      BY <1>1
    <3> HIDE DEF r
    <3>3. QED
      BY <3>1, <3>2 DEF Noted, Told, Keeps
  <2> HIDE DEF r, m
  <2>3. /\ m \in LedgerSet /\ m.stop = "rate_limited"
        /\ m.drops = r.drops \cup {<<g, "stopped">> : g \in r.begun \ r.done}
        /\ m.begun = r.begun /\ m.ok = r.ok /\ m.done = r.done /\ m.off = r.off
        /\ m.unsupported = r.unsupported /\ m.unresolved = r.unresolved /\ m.flags = r.flags
    BY <2>1, <2>2, HaltFields
  <2>4. QED
    BY <2>1, <2>2, <2>3 DEF m, Tracked
<1>2. CASE err # "limited"
  <2>1. m = Halt(l, "read_reserve") /\ "read_reserve" \in StopReasons
    BY <1>2 DEF Stopped, StopReasons
  <2> HIDE DEF m
  <2>2. /\ m \in LedgerSet /\ m.stop = "read_reserve"
        /\ m.drops = l.drops \cup {<<g, "stopped">> : g \in l.begun \ l.done}
        /\ m.begun = l.begun /\ m.ok = l.ok /\ m.done = l.done /\ m.off = l.off
        /\ m.unsupported = l.unsupported /\ m.unresolved = l.unresolved /\ m.flags = l.flags
    BY <2>1, HaltFields
  <2>3. QED
    BY <2>2 DEF m
<1>3. QED
  BY <1>1, <1>2

-----------------------------------------------------------------------------
(* The state of a family, through the family it is read through. *)

Through(own, parent) ==
    IF own \notin {"complete", "partial"} THEN own
    ELSE CASE parent \in {"complete", "excluded"} -> own
           [] parent = "blind" -> "blind"
           [] OTHER -> "partial"

LEMMA StateIs ==
  ASSUME NEW l
  PROVE  /\ State(l)["repos"] = OwnState(l, "repos")
         /\ State(l)["state"] = OwnState(l, "state")
         /\ \A f \in {"prs", "issues", "runs", "security", "workflows"} :
               State(l)[f] = Through(OwnState(l, f), State(l)["repos"])
         /\ State(l)["failing"] = Through(OwnState(l, "failing"), State(l)["runs"])
         /\ State(l)["checks"] = Through(OwnState(l, "checks"), State(l)["prs"])
<1> DEFINE own(f) == OwnState(l, f)
           e(st, f) ==
               IF Parent[f] = f \/ OwnState(l, f) \notin {"complete", "partial"} THEN OwnState(l, f)
               ELSE CASE st[Parent[f]] \in {"complete", "excluded"} -> OwnState(l, f)
                      [] st[Parent[f]] = "blind" -> "blind"
                      [] OTHER -> "partial"
           Is(st) == st = [f \in Families |-> e(st, f)]
           step1(f) == Through(own(f), own("repos"))
           g == [f \in Families |->
               CASE f \in {"repos", "state"} -> own(f)
                 [] f = "failing" -> Through(own(f), step1("runs"))
                 [] f = "checks" -> Through(own(f), step1("prs"))
                 [] OTHER -> step1(f)]
           h(st, f) == IF Parent[f] = f THEN own(f) ELSE Through(own(f), st[Parent[f]])
<1>1. /\ Parent["repos"] = "repos" /\ Parent["state"] = "state"
      /\ Parent["failing"] = "runs" /\ Parent["checks"] = "prs"
      /\ \A f \in {"prs", "issues", "runs", "security", "workflows"} : Parent[f] = "repos"
  BY DEF Parent, Families
<1>2. Families = {"repos", "state", "failing", "checks", "prs", "issues", "runs", "security", "workflows"}
  BY DEF Families
<1>3. \A st : Is(st) <=> st = [f \in Families |-> h(st, f)]
  <2> SUFFICES ASSUME NEW st, NEW f \in Families
               PROVE  e(st, f) = h(st, f)
    <3> HIDE DEF e, h
    <3>1. QED
      OBVIOUS
  <2>1. CASE Parent[f] = f
    BY <2>1
  <2>2. CASE Parent[f] # f /\ own(f) \notin {"complete", "partial"}
    BY <2>2 DEF Through
  <2>3. CASE Parent[f] # f /\ own(f) \in {"complete", "partial"}
    <3>1. h(st, f) = Through(own(f), st[Parent[f]])
      BY <2>3
    <3>2. CASE st[Parent[f]] \in {"complete", "excluded"}
      BY <2>3, <3>1, <3>2 DEF Through
    <3>3. CASE st[Parent[f]] = "blind"
      BY <2>3, <3>1, <3>3 DEF Through
    <3>4. CASE st[Parent[f]] \notin {"complete", "excluded", "blind"}
      BY <2>3, <3>1, <3>4 DEF Through
    <3>5. QED
      BY <3>2, <3>3, <3>4
  <2>4. QED
    BY <2>1, <2>2, <2>3
<1>4. Is(g)
  <2>1. /\ g["repos"] = own("repos") /\ g["state"] = own("state")
        /\ g["failing"] = Through(own("failing"), step1("runs"))
        /\ g["checks"] = Through(own("checks"), step1("prs"))
        /\ \A f \in {"prs", "issues", "runs", "security", "workflows"} : g[f] = step1(f)
    BY <1>2
  <2>2. DOMAIN g = Families /\ g = [f \in Families |-> g[f]]
    OBVIOUS
  <2> HIDE DEF g, own
  <2>3. \A f \in Families : g[f] = h(g, f)
    BY <1>1, <1>2, <2>1
  <2>4. g = [f \in Families |-> h(g, f)]
    <3> HIDE DEF h
    <3>1. QED
      BY <2>2, <2>3
  <2>5. QED
    BY <1>3, <2>4
<1>5. State(l) = CHOOSE st : Is(st)
  BY DEF State
<1> HIDE DEF Is, g
<1>6. Is(State(l))
  BY <1>4, <1>5
<1>7. \A f \in Families : State(l)[f] = h(State(l), f)
  <2>1. State(l) = [f \in Families |-> h(State(l), f)]
    BY <1>3, <1>6
  <2> HIDE DEF h
  <2>2. QED
    BY <2>1
<1>8. QED
  BY <1>1, <1>2, <1>7

(* A family called complete was begun and never short, and neither was the
   one it is read through. *)
LEMMA CompleteStates ==
  ASSUME NEW l, NEW f \in Families, State(l)[f] = "complete"
  PROVE  /\ f \in l.begun /\ f \notin l.unsupported /\ f \notin l.off
         /\ ~Dropped(l, f, Partial \cup BlindReasons)
         /\ f \in {"prs", "issues", "runs", "security", "workflows"} => State(l)["repos"] \in {"complete", "excluded"}
         /\ f = "failing" => State(l)["runs"] \in {"complete", "excluded"}
         /\ f = "checks" => State(l)["prs"] \in {"complete", "excluded"}
<1>1. f \in {"repos", "state", "failing", "checks", "prs", "issues", "runs", "security", "workflows"}
  BY DEF Families
<1>2. OwnState(l, f) = "complete" /\
      (f \in {"prs", "issues", "runs", "security", "workflows"} => State(l)["repos"] \in {"complete", "excluded"}) /\
      (f = "failing" => State(l)["runs"] \in {"complete", "excluded"}) /\
      (f = "checks" => State(l)["prs"] \in {"complete", "excluded"})
  BY <1>1, StateIs DEF Through
<1>3. f \notin l.unsupported /\ f \notin l.off /\ ~Blind(l, f) /\ f \in l.begun /\ ~Dropped(l, f, Partial)
  BY <1>2 DEF OwnState
<1>4. ~Dropped(l, f, BlindReasons)
  BY <1>3 DEF Blind
<1>5. QED
  BY <1>2, <1>3, <1>4 DEF Dropped

(* A family is blind when it is blind of itself. *)
LEMMA BlindStates ==
  ASSUME NEW l, NEW f \in Families, Blind(l, f), f \notin l.off
  PROVE  State(l)[f] = "blind"
<1>1. f \in {"repos", "state", "failing", "checks", "prs", "issues", "runs", "security", "workflows"}
  BY DEF Families
<1>2. OwnState(l, f) = "blind"
  BY DEF OwnState, Blind
<1>3. QED
  BY <1>1, <1>2, StateIs DEF Through

-----------------------------------------------------------------------------
(* What the handlers do to the ledger. *)

Units == Families \X (owners \cup repos)
Early == step \in {"open", "unopened", "opened", "reused"} \/ Discovering
(* What an owner answered is its own, and kept. *)
FoundType == byOwner \in [owners -> SUBSET repos] /\ \A o \in owners : byOwner[o] \subseteq kept \cap OwnedBy[o]
TypeInv == TypeOK /\ listed \subseteq repos /\ FoundType /\ (Early => EmptyScan)

LEMMA TypeFacts ==
  ASSUME TypeInv
  PROVE  /\ ledger \in LedgerSet /\ env.security \in BOOLEAN
         /\ IsSeq(todo) /\ Left \subseteq Units
         /\ kept \subseteq repos /\ \A o \in owners : byOwner[o] \subseteq kept \cap OwnedBy[o]
<1>1. ledger \in LedgerSet /\ todo \in Seq(Units) /\ env \in EnvType
  BY EnvsAssumption DEF TypeInv, TypeOK, LedgerSet, Units, owners, repos
<1>2. env.security \in BOOLEAN
  BY <1>1 DEF EnvType
<1>3. IsSeq(todo)
  BY <1>1, SequenceBasics
<1>4. Left \subseteq Units
  BY <1>1 DEF Left, ToSet
<1>5. kept \subseteq repos /\ \A o \in owners : byOwner[o] \subseteq kept \cap OwnedBy[o]
  BY DEF TypeInv, FoundType, kept
<1>6. QED
  BY <1>1, <1>2, <1>3, <1>4, <1>5

LEMMA FaultyType ==
  ASSUME TypeInv, NEW end, Faulty(end)
  PROVE  faults' \in 0..MaxFaults
BY MaxFaultsAssumption DEF Faulty, TypeInv, TypeOK

LEMMA FailedEffect ==
  ASSUME NEW f, NEW err, NEW l, NEW rest, Failed(f, err, l, rest)
  PROVE  \/ /\ err \in Stops /\ ledger' = Stopped(ledger, f, err)
            /\ step' = "end" /\ todo' = <<>>
         \/ /\ err \notin Stops /\ ctx # "live" /\ ledger' = ledger
            /\ step' = "end" /\ todo' = <<>>
         \/ /\ err \notin Stops /\ ctx = "live" /\ ledger' = l
            /\ step' = (IF f = "repos" THEN "end" ELSE step) /\ todo' = rest
BY DEF Failed

LEMMA OpenFailureFields ==
  ASSUME NEW l \in LedgerSet, NEW err \in Errors \cup {"connection", "ended", "refused"}
  PROVE  LET m == OpenFailure(l, err)
         IN  /\ m \in LedgerSet /\ Keeps(l, m) /\ m.ok = l.ok
             /\ l.begun \subseteq m.begun /\ m.begun \subseteq l.begun \cup {"repos"}
             /\ l.drops \subseteq m.drops
             /\ \A d \in m.drops \ l.drops :
                   d[1] \in m.begun /\ d[2] \in {"stopped", "failed", "refused"} /\ (m.stop = "none" => d[2] # "stopped")
             /\ m.stop = "none" => l.stop = "none"
             /\ m.stop = "none" /\ ctx = "live" => Dropped(m, "repos", {"failed", "refused"})
             /\ \A f \in m.begun \ m.done : f \in l.begun \/ Dropped(m, f, {"failed", "refused", "stopped"})
             /\ m.flags \cap Tracked = l.flags \cap Tracked
             /\ "rateLimited" \in m.flags => "rateLimited" \in l.flags \/ m.stop # "none"
<1> DEFINE m == OpenFailure(l, err)
<1>0. "repos" \in Families
  BY DEF Families
<1>1. CASE err \in Stops
  <2>1. m = Stopped(l, "repos", err)
    BY <1>1 DEF OpenFailure
  <2> HIDE DEF m
  <2>2. /\ m \in LedgerSet
        /\ m.stop \in {"rate_limited", "read_reserve"}
        /\ l.begun \subseteq m.begun /\ m.begun \subseteq l.begun \cup {"repos"}
        /\ l.drops \subseteq m.drops
        /\ \A d \in m.drops \ l.drops : d[1] \in m.begun /\ d[2] \in {"stopped", "failed"}
        /\ \A g \in m.begun \ m.done : <<g, "stopped">> \in m.drops
        /\ m.flags \cap {"github", "opened", "timedOut", "connFailed"}
             = l.flags \cap {"github", "opened", "timedOut", "connFailed"}
        /\ m.ok = l.ok /\ Keeps(l, m)
    BY <1>0, <1>1, <2>1, StoppedFields DEF Keeps
  <2>3. m.flags \cap Tracked = l.flags \cap Tracked
    BY <2>2 DEF Tracked
  <2>4. \A f \in m.begun \ m.done : Dropped(m, f, {"failed", "refused", "stopped"})
    BY <2>2 DEF Dropped
  <2>5. QED
    BY <2>2, <2>3, <2>4 DEF m
<1>2. CASE err \notin Stops /\ ctx # "live"
  <2>1. m = l
    BY <1>2 DEF OpenFailure
  <2> HIDE DEF m
  <2>2. QED
    BY <1>2, <2>1 DEF m, Keeps
<1>3. CASE err \notin Stops /\ ctx = "live"
  <2> DEFINE r == Record(l, "repos", err)
  <2>1. m = Flag(r, {"connFailed"}) /\ err \notin {"whole", "none", "cut", "limited"}
    BY <1>3 DEF OpenFailure, Stops, Errors
  <2>2. /\ r \in LedgerSet /\ r.begun = l.begun \cup {"repos"} /\ r.ok = l.ok
        /\ r.drops = l.drops \cup Shortfall("repos", err)
        /\ r.flags \cap Tracked = l.flags \cap Tracked
        /\ "rateLimited" \in r.flags => "rateLimited" \in l.flags
        /\ Keeps(l, r) /\ r.stop = l.stop
    <3>1. Noted(l, r, "repos", err) /\ Told(l, r, err)
      BY <1>0, RecordFields
    <3> HIDE DEF r
    <3>2. QED
      BY <2>1, <3>1 DEF Noted, Told
  <2>3. Shortfall("repos", err) \in {{<<"repos", "failed">>}, {<<"repos", "refused">>}}
    BY <2>1 DEF Shortfall
  <2> HIDE DEF r, m
  <2>4. /\ m \in LedgerSet /\ m.begun = r.begun /\ m.ok = r.ok /\ m.drops = r.drops
        /\ m.flags = r.flags \cup {"connFailed"}
        /\ Keeps(r, m) /\ m.stop = r.stop
    BY <2>1, <2>2, FlagFields DEF Keeps, Flags
  <2>5. Keeps(l, m)
    BY <2>2, <2>4 DEF Keeps
  <2>6. \A d \in m.drops \ l.drops : d[1] = "repos" /\ d[2] \in {"failed", "refused"}
    BY <2>2, <2>3, <2>4
  <2>7. Dropped(m, "repos", {"failed", "refused"})
    BY <2>2, <2>3, <2>4 DEF Dropped
  <2>8. \A f \in m.begun \ m.done : f \in l.begun \/ Dropped(m, f, {"failed", "refused", "stopped"})
    <3>1. Dropped(m, "repos", {"failed", "refused", "stopped"})
      BY <2>7 DEF Dropped
    <3>2. QED
      BY <2>2, <2>4, <3>1
  <2>9. QED
    BY <2>2, <2>4, <2>5, <2>6, <2>7, <2>8 DEF m, Tracked
<1>4. QED
  BY <1>1, <1>2, <1>3

(* A read that returns, in full or in part, tells nothing of the connection. *)
LEMMA AnswerFields ==
  ASSUME NEW l \in LedgerSet, NEW f \in Families, NEW end \in {"whole", "cut", "none", "refused", "failed"}
  PROVE  Noted(l, Record(l, f, end), f, end) /\ Record(l, f, end).flags = l.flags
<1> DEFINE m == Record(l, f, end)
<1>1. CASE end = "whole"
  <2> DEFINE b == Begin(l, {f})
  <2>1. m = [b EXCEPT !.ok = @ \cup {f}] /\ Shortfall(f, end) = {}
    BY <1>1 DEF Record, Shortfall
  <2>2. /\ b \in LedgerSet /\ b.begun = l.begun \cup {f}
        /\ b.done = l.done /\ b.ok = l.ok /\ b.unsupported = l.unsupported /\ b.off = l.off
        /\ b.drops = l.drops /\ b.unresolved = l.unresolved /\ b.flags = l.flags /\ b.stop = l.stop
    BY BeginFields
  <2> HIDE DEF b, m
  <2>3. /\ m \in LedgerSet /\ m.begun = b.begun /\ m.ok = b.ok \cup {f}
        /\ m.done = b.done /\ m.unsupported = b.unsupported /\ m.off = b.off
        /\ m.drops = b.drops /\ m.unresolved = b.unresolved /\ m.flags = b.flags /\ m.stop = b.stop
    BY <2>1, <2>2 DEF LedgerSet, Ledgers
  <2>4. QED
    BY <1>1, <2>1, <2>2, <2>3 DEF m, Noted, Keeps
<1>2. CASE end = "none"
  <2>1. m = Begin(l, {f}) /\ Shortfall(f, end) = {}
    BY <1>2 DEF Record, Shortfall
  <2> HIDE DEF m
  <2>2. QED
    BY <1>2, <2>1, BeginFields DEF m, Noted, Keeps
<1>3. CASE end \in {"cut", "refused"}
  <2>1. m = Drop(l, f, end) /\ Shortfall(f, end) = {<<f, end>>} /\ end \in Reasons
    BY <1>3 DEF Record, Shortfall, Reasons, Partial
  <2> HIDE DEF m
  <2>2. QED
    BY <1>3, <2>1, DropFields DEF m, Noted, Keeps
<1>4. CASE end = "failed"
  <2> DEFINE d == Drop(l, f, "failed")
  <2>1. m = Flag(d, {}) /\ Shortfall(f, end) = {<<f, "failed">>} /\ "failed" \in Reasons
    BY <1>4 DEF Record, Shortfall, Reasons, Partial, Tells
  <2>2. /\ d \in LedgerSet /\ d.begun = l.begun \cup {f} /\ d.drops = l.drops \cup {<<f, "failed">>}
        /\ d.done = l.done /\ d.ok = l.ok /\ d.unsupported = l.unsupported /\ d.off = l.off
        /\ d.unresolved = l.unresolved /\ d.flags = l.flags /\ d.stop = l.stop
    BY <2>1, DropFields
  <2> HIDE DEF d, m
  <2>3. /\ m \in LedgerSet /\ m.flags = d.flags \cup {}
        /\ m.begun = d.begun /\ m.ok = d.ok /\ m.done = d.done /\ m.off = d.off
        /\ m.drops = d.drops /\ m.unresolved = d.unresolved
        /\ m.unsupported = d.unsupported /\ m.stop = d.stop
    BY <2>1, <2>2, FlagFields
  <2>4. QED
    BY <1>4, <2>1, <2>2, <2>3 DEF m, Noted, Keeps
<1>5. QED
  BY <1>1, <1>2, <1>3, <1>4

LEMMA DropMany ==
  ASSUME NEW l \in LedgerSet, NEW f \in Families, NEW reason \in Reasons
  PROVE  LET m == Drop(l, f, reason)
         IN  /\ m \in LedgerSet /\ Keeps(l, m) /\ m.stop = l.stop /\ m.ok = l.ok /\ m.flags = l.flags
             /\ m.begun = l.begun \cup {f} /\ m.drops = l.drops \cup {<<f, reason>>}
BY DropFields DEF Keeps

(* What is noted of a listing that answers items of the repositories xs. *)
LEMMA ItemsFields ==
  ASSUME NEW l \in LedgerSet, NEW f \in Families, f \in l.begun, NEW xs
  PROVE  LET m == Items(l, f, xs)
         IN  /\ m \in LedgerSet /\ Keeps(l, m) /\ m.stop = l.stop /\ m.ok = l.ok /\ m.flags = l.flags
             /\ m.begun = l.begun
             /\ l.drops \subseteq m.drops
             /\ \A d \in m.drops \ l.drops : d[1] = f /\ d[2] \in {"excludedRepo", "unlisted"}
<1> DEFINE m == Items(l, f, xs)
           a == IF xs \cap listed \cap env.excluded = {} THEN l ELSE Drop(l, f, "excludedRepo")
<1>1. {"excludedRepo", "unlisted"} \subseteq Reasons
  BY DEF Reasons, Excluded, Partial
<1>2. /\ a \in LedgerSet /\ Keeps(l, a) /\ a.stop = l.stop /\ a.ok = l.ok /\ a.flags = l.flags
      /\ a.begun = l.begun /\ l.drops \subseteq a.drops
      /\ \A d \in a.drops \ l.drops : d[1] = f /\ d[2] = "excludedRepo"
  <2>1. CASE a = l
    BY <2>1 DEF Keeps
  <2>2. CASE a = Drop(l, f, "excludedRepo")
    <3> HIDE DEF a
    <3>1. /\ a \in LedgerSet /\ Keeps(l, a) /\ a.stop = l.stop /\ a.ok = l.ok /\ a.flags = l.flags
          /\ a.begun = l.begun \cup {f} /\ a.drops = l.drops \cup {<<f, "excludedRepo">>}
      BY <1>1, <2>2, DropMany
    <3>2. QED
      BY <3>1
  <2>3. QED
    BY <2>1, <2>2
<1>3. m = a \/ m = Drop(a, f, "unlisted")
  BY DEF Items
<1> HIDE DEF a, m
<1>4. CASE m = a
  BY <1>2, <1>4 DEF m
<1>5. CASE m = Drop(a, f, "unlisted")
  <2>1. /\ m \in LedgerSet /\ Keeps(a, m) /\ m.stop = a.stop /\ m.ok = a.ok /\ m.flags = a.flags
        /\ m.begun = a.begun \cup {f} /\ m.drops = a.drops \cup {<<f, "unlisted">>}
    BY <1>1, <1>2, <1>5, DropMany
  <2>2. QED
    BY <1>2, <2>1 DEF m, Keeps
<1>6. QED
  BY <1>3, <1>4, <1>5

(* The drops of a read that returns. *)
ReturnDrops(f, end) ==
    CASE end = "cut" -> {<<f, "cut">>}
      [] end \in {"noHead", "tokenUnsupported"} -> {<<f, end>>}
      [] OTHER -> {}

ReturnEffect(u, a) ==
    LET f == u[1]
    IN  /\ ledger' \in LedgerSet /\ Keeps(ledger, ledger') /\ ledger'.stop = ledger.stop
        /\ ledger'.flags = ledger.flags
        /\ ledger'.begun = ledger.begun \cup {f}
        /\ ledger'.ok = (IF a.end \in {"whole", "empty"} THEN ledger.ok \cup {f} ELSE ledger.ok)
        /\ ledger.drops \cup ReturnDrops(f, a.end) \subseteq ledger'.drops
        /\ \A d \in ledger'.drops \ (ledger.drops \cup ReturnDrops(f, a.end)) :
              d[1] = f /\ d[2] \in {"excludedRepo", "unlisted"}

LEMMA ReturnsFields ==
  ASSUME ledger \in LedgerSet, NEW u, u[1] \in Families, NEW a,
         a.end \in {"whole", "cut", "empty", "none", "noHead", "tokenUnsupported"}, Returns(u, a)
  PROVE  ReturnEffect(u, a)
<1> DEFINE f == u[1]
           end == IF a.end = "empty" THEN "whole" ELSE a.end
           got == IF a.end \in {"whole", "cut"} THEN Lists(u) ELSE {}
           r == Record(ledger, f, end)
<1>1. CASE a.end \in {"noHead", "tokenUnsupported"}
  <2>1. ledger' = Drop(ledger, f, a.end)
    BY <1>1 DEF Returns
  <2>2. a.end \in Reasons
    BY <1>1 DEF Reasons, Partial, Excluded
  <2>3. ReturnDrops(f, a.end) = {<<f, a.end>>}
    BY <1>1 DEF ReturnDrops
  <2>4. QED
    <3>1. /\ ledger' \in LedgerSet /\ Keeps(ledger, ledger') /\ ledger'.stop = ledger.stop
          /\ ledger'.ok = ledger.ok /\ ledger'.flags = ledger.flags
          /\ ledger'.begun = ledger.begun \cup {f} /\ ledger'.drops = ledger.drops \cup {<<f, a.end>>}
      BY <2>1, <2>2, DropMany
    <3>2. QED
      BY <1>1, <2>3, <3>1 DEF ReturnEffect
<1>2. CASE a.end \in {"whole", "cut", "empty", "none"}
  <2>1. ledger' = IF f \in {"prs", "issues"} THEN Items(r, f, got) ELSE r
    BY <1>2 DEF Returns
  <2>2. end \in {"whole", "cut", "none"} /\ (end = "whole" <=> a.end \in {"whole", "empty"})
    BY <1>2
  <2>3. Shortfall(f, end) = ReturnDrops(f, a.end)
    BY <1>2 DEF Shortfall, ReturnDrops
  <2> HIDE DEF end
  <2>4. /\ r \in LedgerSet /\ Keeps(ledger, r) /\ r.stop = ledger.stop
        /\ r.begun = ledger.begun \cup {f}
        /\ r.ok = (IF end = "whole" THEN ledger.ok \cup {f} ELSE ledger.ok)
        /\ r.drops = ledger.drops \cup Shortfall(f, end)
        /\ r.flags = ledger.flags
    <3>1. f \in Families
      OBVIOUS
    <3> HIDE DEF f
    <3>2. Noted(ledger, r, f, end) /\ r.flags = ledger.flags
      BY <2>2, <3>1, AnswerFields
    <3> HIDE DEF r
    <3>3. QED
      BY <3>2 DEF Noted
  <2> HIDE DEF r, got
  <2>5. CASE f \in {"prs", "issues"}
    <3>1. f \in r.begun /\ ledger' = Items(r, f, got)
      BY <2>1, <2>4, <2>5
    <3>2. /\ ledger' \in LedgerSet /\ Keeps(r, ledger') /\ ledger'.stop = r.stop /\ ledger'.ok = r.ok
          /\ ledger'.flags = r.flags /\ ledger'.begun = r.begun
          /\ r.drops \subseteq ledger'.drops
          /\ \A d \in ledger'.drops \ r.drops : d[1] = f /\ d[2] \in {"excludedRepo", "unlisted"}
      BY <2>4, <3>1, ItemsFields
    <3>3. Keeps(ledger, ledger')
      BY <2>4, <3>2 DEF Keeps
    <3> HIDE DEF f
    <3>4. QED
      BY <2>2, <2>3, <2>4, <3>2, <3>3 DEF f, ReturnEffect
  <2>6. CASE f \notin {"prs", "issues"}
    BY <2>1, <2>2, <2>3, <2>4, <2>6 DEF ReturnEffect
  <2>7. QED
    BY <2>5, <2>6
<1>3. QED
  BY <1>1, <1>2

(* What discovery notes: the owners that did not answer, what was cut and
   what the operator excludes. *)
LEMMA DiscoversFields ==
  ASSUME TypeInv, NEW ends, NEW got, DOMAIN ends = owners, Discovers(ends, got)
  PROVE  LET unresolved == {o \in owners : ends[o] = "unresolved"}
             cut == \E o \in owners : ends[o] = "cut"
         IN  /\ ledger' \in LedgerSet
             /\ ledger'.begun = ledger.begun \cup {"repos"} /\ ledger'.done = ledger.done \cup {"repos"}
             /\ ledger'.off = ledger.off /\ ledger'.unsupported = ledger.unsupported
             /\ ledger'.stop = ledger.stop /\ ledger'.flags = ledger.flags
             /\ ledger'.ok = (IF cut THEN ledger.ok ELSE ledger.ok \cup {"repos"})
             /\ ledger'.unresolved = (IF unresolved = {} THEN ledger.unresolved ELSE unresolved)
             /\ ledger.drops \subseteq ledger'.drops
             /\ cut => <<"repos", "cut">> \in ledger'.drops
             /\ unresolved # {} => <<"repos", "unresolved">> \in ledger'.drops
             /\ unresolved = owners => <<"repos", "noRepos">> \in ledger'.drops
             /\ \A d \in ledger'.drops \ ledger.drops :
                   /\ d[1] = "repos" /\ d[2] \in {"cut", "unresolved", "noRepos", "excludedRepo"}
                   /\ d[2] = "cut" => cut
                   /\ d[2] = "noRepos" => unresolved = owners
<1> DEFINE unresolved == {o \in owners : ends[o] = "unresolved"}
           cut == \E o \in owners : ends[o] = "cut"
           l1 == Record(ledger, "repos", IF cut THEN "cut" ELSE "whole")
           l2 == IF unresolved = {} THEN l1 ELSE [Drop(l1, "repos", "unresolved") EXCEPT !.unresolved = unresolved]
           l3 == IF unresolved = owners THEN Drop(l2, "repos", "noRepos") ELSE l2
           l4 == IF listed' \cap env.excluded = {} THEN l3 ELSE Drop(l3, "repos", "excludedRepo")
<1>0. ledger' = Finish(l4, {"repos"})
  BY DEF Discovers
<1>1. ledger \in LedgerSet
  BY TypeFacts
<1>2. PICK f \in Families : f = "repos"
  BY DEF Families
<1>3. {"cut", "unresolved", "noRepos", "excludedRepo"} \subseteq Reasons
  BY DEF Reasons, Partial, Excluded, BlindReasons
<1>4. unresolved \in SUBSET owners
  OBVIOUS
<1> HIDE DEF unresolved, cut
<1>5. /\ l1 \in LedgerSet /\ Keeps(ledger, l1) /\ l1.stop = ledger.stop /\ l1.flags = ledger.flags
      /\ l1.begun = ledger.begun \cup {f}
      /\ l1.ok = (IF cut THEN ledger.ok ELSE ledger.ok \cup {f})
      /\ l1.drops = ledger.drops \cup (IF cut THEN {<<f, "cut">>} ELSE {})
  <2> DEFINE end == IF cut THEN "cut" ELSE "whole"
  <2>1. l1 = Record(ledger, f, end)
    BY <1>2
  <2>a. end \in {"whole", "cut", "none", "refused", "failed"}
    OBVIOUS
  <2> HIDE DEF end, l1
  <2>2. /\ l1 \in LedgerSet /\ Keeps(ledger, l1) /\ l1.stop = ledger.stop /\ l1.flags = ledger.flags
        /\ l1.begun = ledger.begun \cup {f}
        /\ l1.ok = (IF end = "whole" THEN ledger.ok \cup {f} ELSE ledger.ok)
        /\ l1.drops = ledger.drops \cup Shortfall(f, end)
    <3>1. Noted(ledger, l1, f, end) /\ l1.flags = ledger.flags
      BY <1>1, <2>a, <2>1, AnswerFields
    <3>2. QED
      BY <3>1 DEF Noted
  <2>3. Shortfall(f, end) = IF cut THEN {<<f, "cut">>} ELSE {}
    BY DEF Shortfall, end
  <2>4. end = "whole" <=> ~cut
    BY DEF end
  <2>5. QED
    BY <2>2, <2>3, <2>4
<1> HIDE DEF l1
<1>6. /\ l2 \in LedgerSet /\ l2.done = l1.done /\ l2.off = l1.off /\ l2.unsupported = l1.unsupported
      /\ l2.stop = l1.stop /\ l2.flags = l1.flags /\ l2.ok = l1.ok /\ l2.begun = ledger.begun \cup {f}
      /\ l2.unresolved = (IF unresolved = {} THEN l1.unresolved ELSE unresolved)
      /\ l2.drops = l1.drops \cup (IF unresolved = {} THEN {} ELSE {<<f, "unresolved">>})
  <2>1. CASE unresolved = {}
    <3>1. l2 = l1
      BY <2>1
    <3> HIDE DEF l2
    <3>2. QED
      BY <1>5, <2>1, <3>1
  <2>2. CASE unresolved # {}
    <3> DEFINE m == Drop(l1, f, "unresolved")
    <3>1. /\ m \in LedgerSet /\ Keeps(l1, m) /\ m.stop = l1.stop /\ m.ok = l1.ok /\ m.flags = l1.flags
          /\ m.begun = l1.begun \cup {f} /\ m.drops = l1.drops \cup {<<f, "unresolved">>}
      BY <1>3, <1>5, DropMany
    <3>2. l2 = [m EXCEPT !.unresolved = unresolved]
      BY <1>2, <2>2
    <3> HIDE DEF m, l2
    <3>3. /\ l2 \in LedgerSet /\ l2.unresolved = unresolved
          /\ l2.done = m.done /\ l2.off = m.off /\ l2.unsupported = m.unsupported /\ l2.begun = m.begun
          /\ l2.stop = m.stop /\ l2.flags = m.flags /\ l2.ok = m.ok /\ l2.drops = m.drops
      BY <1>4, <3>1, <3>2 DEF LedgerSet, Ledgers
    <3>4. QED
      BY <1>5, <2>2, <3>1, <3>3 DEF Keeps
  <2>3. QED
    BY <2>1, <2>2
<1> HIDE DEF l2
<1>7. /\ l3 \in LedgerSet /\ Keeps(l2, l3) /\ l3.stop = l2.stop /\ l3.flags = l2.flags /\ l3.ok = l2.ok
      /\ l3.begun = l2.begun
      /\ l3.drops = l2.drops \cup (IF unresolved = owners THEN {<<f, "noRepos">>} ELSE {})
  <2>1. CASE unresolved = owners
    <3>1. l3 = Drop(l2, f, "noRepos")
      BY <1>2, <2>1
    <3> HIDE DEF l3
    <3>2. /\ l3 \in LedgerSet /\ Keeps(l2, l3) /\ l3.stop = l2.stop /\ l3.ok = l2.ok /\ l3.flags = l2.flags
          /\ l3.begun = l2.begun \cup {f} /\ l3.drops = l2.drops \cup {<<f, "noRepos">>}
      BY <1>3, <1>6, <3>1, DropMany
    <3>3. QED
      BY <1>6, <2>1, <3>2
  <2>2. CASE unresolved # owners
    <3>1. l3 = l2
      BY <2>2
    <3> HIDE DEF l3
    <3>2. QED
      BY <1>6, <2>2, <3>1 DEF Keeps
  <2>3. QED
    BY <2>1, <2>2
<1> HIDE DEF l3
<1>8. /\ l4 \in LedgerSet /\ Keeps(l3, l4) /\ l4.stop = l3.stop /\ l4.flags = l3.flags /\ l4.ok = l3.ok
      /\ l4.begun = l3.begun
      /\ l3.drops \subseteq l4.drops /\ \A d \in l4.drops \ l3.drops : d = <<f, "excludedRepo">>
  <2>1. CASE listed' \cap env.excluded = {}
    <3>1. l4 = l3
      BY <2>1
    <3> HIDE DEF l4
    <3>2. QED
      BY <1>7, <3>1 DEF Keeps
  <2>2. CASE listed' \cap env.excluded # {}
    <3>1. l4 = Drop(l3, f, "excludedRepo")
      BY <1>2, <2>2
    <3> HIDE DEF l4
    <3>2. /\ l4 \in LedgerSet /\ Keeps(l3, l4) /\ l4.stop = l3.stop /\ l4.ok = l3.ok /\ l4.flags = l3.flags
          /\ l4.begun = l3.begun \cup {f} /\ l4.drops = l3.drops \cup {<<f, "excludedRepo">>}
      BY <1>3, <1>7, <3>1, DropMany
    <3>3. QED
      BY <1>6, <1>7, <3>2
  <2>3. QED
    BY <2>1, <2>2
<1> HIDE DEF l4
<1>9. /\ ledger' \in LedgerSet /\ ledger'.done = l4.done \cup {f}
      /\ ledger'.begun = l4.begun /\ ledger'.ok = l4.ok
      /\ ledger'.unsupported = l4.unsupported /\ ledger'.off = l4.off
      /\ ledger'.drops = l4.drops /\ ledger'.unresolved = l4.unresolved
      /\ ledger'.flags = l4.flags /\ ledger'.stop = l4.stop
  BY <1>0, <1>2, <1>8, FinishFields
<1>10. \A d \in ledger'.drops \ ledger.drops :
          /\ d[1] = "repos" /\ d[2] \in {"cut", "unresolved", "noRepos", "excludedRepo"}
          /\ d[2] = "cut" => cut
          /\ d[2] = "noRepos" => unresolved = owners
  <2> SUFFICES ASSUME NEW d \in ledger'.drops \ ledger.drops
               PROVE  \/ d = <<f, "cut">> /\ cut
                      \/ d = <<f, "unresolved">>
                      \/ d = <<f, "noRepos">> /\ unresolved = owners
                      \/ d = <<f, "excludedRepo">>
    BY <1>2
  <2>1. QED
    BY <1>5, <1>6, <1>7, <1>8, <1>9
<1>11. ledger.drops \subseteq ledger'.drops
  BY <1>5, <1>6, <1>7, <1>8, <1>9
<1>12. /\ cut => <<"repos", "cut">> \in ledger'.drops
       /\ unresolved # {} => <<"repos", "unresolved">> \in ledger'.drops
       /\ unresolved = owners => <<"repos", "noRepos">> \in ledger'.drops
  BY <1>2, <1>5, <1>6, <1>7, <1>8, <1>9
<1>13. /\ ledger'.begun = ledger.begun \cup {"repos"} /\ ledger'.done = ledger.done \cup {"repos"}
       /\ ledger'.off = ledger.off /\ ledger'.unsupported = ledger.unsupported
       /\ ledger'.stop = ledger.stop /\ ledger'.flags = ledger.flags
       /\ ledger'.ok = (IF cut THEN ledger.ok ELSE ledger.ok \cup {"repos"})
       /\ ledger'.unresolved = (IF unresolved = {} THEN ledger.unresolved ELSE unresolved)
  BY <1>2, <1>5, <1>6, <1>7, <1>8, <1>9 DEF Keeps
<1>14. QED
  BY <1>9, <1>10, <1>11, <1>12, <1>13 DEF unresolved, cut

LEMMA SettledFields ==
  ASSUME NEW l \in LedgerSet
  PROVE  LET m == Settled(l)
         IN  /\ m \in LedgerSet /\ m.done = l.done /\ m.off = l.off /\ m.unresolved = l.unresolved
             /\ m.stop = l.stop /\ m.ok = l.ok /\ m.flags = l.flags
             /\ m.unsupported = (IF "undated" \in dates /\ "dated" \notin dates
                                 THEN l.unsupported \cup {"runs", "failing"} ELSE l.unsupported)
             /\ m.begun = (IF "undated" \in dates /\ "dated" \in dates THEN l.begun \cup {"runs"} ELSE l.begun)
             /\ m.drops = (IF "undated" \in dates /\ "dated" \in dates
                           THEN l.drops \cup {<<"runs", "failed">>} ELSE l.drops)
<1> DEFINE m == Settled(l)
<1>0. "runs" \in Families /\ "failing" \in Families
  BY DEF Families
<1>1. CASE "undated" \notin dates
  <2>1. m = l
    BY <1>1 DEF Settled
  <2> HIDE DEF m
  <2>2. QED
    BY <1>1, <2>1 DEF m
<1>2. CASE "undated" \in dates /\ "dated" \in dates
  <2>1. m = Record(l, "runs", "failed")
    BY <1>2 DEF Settled
  <2> HIDE DEF m
  <2>2. Noted(l, m, "runs", "failed") /\ m.flags = l.flags
    BY <1>0, <2>1, AnswerFields
  <2>3. Shortfall("runs", "failed") = {<<"runs", "failed">>}
    BY DEF Shortfall
  <2>4. QED
    BY <1>2, <2>2, <2>3 DEF m, Noted, Keeps
<1>3. CASE "undated" \in dates /\ "dated" \notin dates
  <2>1. m = Unsupport(l, {"runs", "failing"})
    BY <1>3 DEF Settled
  <2> HIDE DEF m
  <2>2. QED
    BY <1>0, <1>3, <2>1, UnsupportFields DEF m
<1>4. QED
  BY <1>1, <1>2, <1>3

LEMMA ReadingFamilies ==
  ASSUME NEW s, NEW l
  PROVE  Reading(s, l) \subseteq FamiliesOf(s) /\ Reading(s, l) \in SUBSET Families
BY DEF Reading, FamiliesOf, Families

(* The ledger at the end of a step, with its families read, and at the
   beginning of the next. *)
LEMMA NextStepCases ==
  ASSUME TypeInv, NextStep
  PROVE  \E l \in LedgerSet :
           /\ todo = <<>> /\ step \in ReadsSteps \cup {"discover"} /\ ~Discovering
           /\ l = Finish(IF step = "runs" THEN Settled(ledger) ELSE ledger, Reading(step, ledger))
           /\ l.done = ledger.done \cup Reading(step, ledger)
           /\ l.off = ledger.off /\ l.unresolved = ledger.unresolved /\ l.stop = ledger.stop
           /\ l.ok = ledger.ok /\ l.flags = ledger.flags
           /\ l.unsupported = (IF step = "runs" /\ "undated" \in dates /\ "dated" \notin dates
                               THEN ledger.unsupported \cup {"runs", "failing"} ELSE ledger.unsupported)
           /\ l.begun = (IF step = "runs" /\ "undated" \in dates /\ "dated" \in dates
                         THEN ledger.begun \cup {"runs"} ELSE ledger.begun)
           /\ l.drops = (IF step = "runs" /\ "undated" \in dates /\ "dated" \in dates
                         THEN ledger.drops \cup {<<"runs", "failed">>} ELSE ledger.drops)
           /\ \/ /\ Dropped(l, "repos", {"noRepos"})
                 /\ step' = "end" /\ ledger' = l /\ todo' = todo
              \/ /\ ~Dropped(l, "repos", {"noRepos"})
                 /\ step' = After(step)
                 /\ ledger' = Begin(l, Reading(After(step), l)) /\ todo' = ReadsOf(After(step), l)
<1> DEFINE s == IF step = "runs" THEN Settled(ledger) ELSE ledger
           l == Finish(s, Reading(step, ledger))
<1>1. /\ todo = <<>> /\ step \in ReadsSteps \cup {"discover"} /\ ~Discovering
      /\ \/ /\ Dropped(l, "repos", {"noRepos"})
            /\ step' = "end" /\ ledger' = l /\ todo' = todo
         \/ /\ ~Dropped(l, "repos", {"noRepos"})
            /\ step' = After(step)
            /\ ledger' = Begin(l, Reading(After(step), l)) /\ todo' = ReadsOf(After(step), l)
  <2>1. /\ todo = <<>>
        /\ step \in {"snapshots", "runs", "checks", "github"} \/ (step = "discover" /\ ~Discovering)
    BY DEF NextStep
  <2>2. step \in ReadsSteps \cup {"discover"} /\ ~Discovering
    BY <2>1 DEF ReadsSteps, Discovering
  <2>3. IF Dropped(l, "repos", {"noRepos"})
        THEN step' = "end" /\ ledger' = l /\ UNCHANGED todo
        ELSE /\ step' = After(step)
             /\ ledger' = Begin(l, Reading(After(step), l))
             /\ todo' = ReadsOf(After(step), l)
    BY DEF NextStep
  <2> HIDE DEF l
  <2>4. QED
    BY <2>1, <2>2, <2>3
<1>2. ledger \in LedgerSet
  BY TypeFacts
<1>3. /\ s \in LedgerSet /\ s.done = ledger.done /\ s.off = ledger.off /\ s.unresolved = ledger.unresolved
      /\ s.stop = ledger.stop /\ s.ok = ledger.ok /\ s.flags = ledger.flags
      /\ s.unsupported = (IF step = "runs" /\ "undated" \in dates /\ "dated" \notin dates
                          THEN ledger.unsupported \cup {"runs", "failing"} ELSE ledger.unsupported)
      /\ s.begun = (IF step = "runs" /\ "undated" \in dates /\ "dated" \in dates
                    THEN ledger.begun \cup {"runs"} ELSE ledger.begun)
      /\ s.drops = (IF step = "runs" /\ "undated" \in dates /\ "dated" \in dates
                    THEN ledger.drops \cup {<<"runs", "failed">>} ELSE ledger.drops)
  <2>1. CASE step = "runs"
    <3>1. s = Settled(ledger)
      BY <2>1
    <3> HIDE DEF s
    <3>2. QED
      BY <1>2, <2>1, <3>1, SettledFields
  <2>2. CASE step # "runs"
    BY <1>2, <2>2
  <2>3. QED
    BY <2>1, <2>2
<1> HIDE DEF s
<1>4. /\ l \in LedgerSet /\ l.done = s.done \cup Reading(step, ledger)
      /\ l.begun = s.begun /\ l.ok = s.ok /\ l.unsupported = s.unsupported /\ l.off = s.off
      /\ l.drops = s.drops /\ l.unresolved = s.unresolved /\ l.flags = s.flags /\ l.stop = s.stop
  BY <1>3, FinishFields, ReadingFamilies
<1>5. l = Finish(IF step = "runs" THEN Settled(ledger) ELSE ledger, Reading(step, ledger))
  BY DEF s
<1> HIDE DEF l
<1>6. QED
  BY <1>1, <1>3, <1>4, <1>5

LEMMA SaveFields ==
  ASSUME TypeInv, NEW answer \in {"stored", "notDurable", "failed", "cut"}, Save(answer)
  PROVE  /\ ledger' \in LedgerSet
         /\ ledger'.begun = ledger.begun \cup {"state"} /\ ledger'.done = ledger.done \cup {"state"}
         /\ ledger'.ok = ledger.ok /\ ledger'.off = ledger.off
         /\ ledger'.unsupported = ledger.unsupported /\ ledger'.unresolved = ledger.unresolved
         /\ ledger.drops \subseteq ledger'.drops
         /\ \A d \in ledger'.drops \ ledger.drops :
               \/ d[1] = "state" /\ d[2] \in {"notDurable", "unwritable"}
               \/ d[1] \in ledger'.begun /\ d[2] = "stopped" /\ ledger'.stop # "none"
         /\ ledger.stop # "none" => ledger'.stop = ledger.stop
         /\ \/ ledger'.flags = ledger.flags /\ ledger'.stop = ledger.stop
            \/ ledger'.flags = ledger.flags \cup {"timedOut"} /\ ledger'.stop # "none"
<1> DEFINE l == Begin(ledger, {"state"})
           l1 == CASE answer = "stored" -> l
                   [] answer = "notDurable" -> Drop(l, "state", "notDurable")
                   [] OTHER -> Drop(l, "state", "unwritable")
           l2 == IF answer = "cut" /\ l.stop = "none"
                 THEN Halt(Flag(l1, {"timedOut"}), "scan_timeout") ELSE l1
<1>0. ledger' = Finish(l2, {"state"})
  BY DEF Save
<1>1. ledger \in LedgerSet
  BY TypeFacts
<1>2. {"state"} \in SUBSET Families /\ {"notDurable", "unwritable"} \subseteq Reasons
      /\ {"timedOut"} \in SUBSET Flags /\ "scan_timeout" \in StopReasons /\ "scan_timeout" # "none"
  BY DEF Families, Reasons, Partial, Flags, StopReasons
<1>3. /\ l \in LedgerSet /\ l.begun = ledger.begun \cup {"state"}
      /\ l.done = ledger.done /\ l.ok = ledger.ok /\ l.unsupported = ledger.unsupported /\ l.off = ledger.off
      /\ l.drops = ledger.drops /\ l.unresolved = ledger.unresolved /\ l.flags = ledger.flags
      /\ l.stop = ledger.stop
  BY <1>1, <1>2, BeginFields
<1> HIDE DEF l
<1>4. /\ l1 \in LedgerSet /\ Keeps(l, l1) /\ l1.stop = l.stop /\ l1.ok = l.ok /\ l1.flags = l.flags
      /\ l1.begun = l.begun /\ l.drops \subseteq l1.drops
      /\ \A d \in l1.drops \ l.drops : d[1] = "state" /\ d[2] \in {"notDurable", "unwritable"}
  <2>1. CASE answer = "stored"
    <3>1. l1 = l
      BY <2>1
    <3> HIDE DEF l1
    <3>2. QED
      BY <1>3, <3>1 DEF Keeps
  <2>2. CASE answer # "stored"
    <3>1. PICK reason \in {"notDurable", "unwritable"} : l1 = Drop(l, "state", reason)
      BY <2>2
    <3> HIDE DEF l1
    <3>2. "state" \in Families /\ reason \in Reasons
      BY <1>2
    <3>3. /\ l1 \in LedgerSet /\ Keeps(l, l1) /\ l1.stop = l.stop /\ l1.ok = l.ok /\ l1.flags = l.flags
          /\ l1.begun = l.begun \cup {"state"} /\ l1.drops = l.drops \cup {<<"state", reason>>}
      BY <1>3, <3>1, <3>2, DropMany
    <3>4. QED
      BY <1>3, <3>3
  <2>3. QED
    BY <2>1, <2>2
<1> HIDE DEF l1
<1>5. /\ l2 \in LedgerSet /\ Keeps(l1, l2) /\ l2.ok = l1.ok /\ l2.begun = l1.begun
      /\ l1.drops \subseteq l2.drops
      /\ \A d \in l2.drops \ l1.drops : d[1] \in l1.begun /\ d[2] = "stopped" /\ l2.stop # "none"
      /\ l1.stop # "none" => l2.stop = l1.stop
      /\ \/ l2.flags = l1.flags /\ l2.stop = l1.stop
         \/ l2.flags = l1.flags \cup {"timedOut"} /\ l2.stop # "none"
  <2>1. CASE ~(answer = "cut" /\ l.stop = "none")
    <3>1. l2 = l1
      BY <2>1
    <3> HIDE DEF l2
    <3>2. QED
      BY <1>4, <3>1 DEF Keeps
  <2>2. CASE answer = "cut" /\ l.stop = "none"
    <3> DEFINE g == Flag(l1, {"timedOut"})
    <3>1. l2 = Halt(g, "scan_timeout")
      BY <2>2
    <3> HIDE DEF l2
    <3>2. /\ g \in LedgerSet /\ g.flags = l1.flags \cup {"timedOut"} /\ g.begun = l1.begun /\ g.ok = l1.ok
          /\ g.done = l1.done /\ g.off = l1.off /\ g.drops = l1.drops /\ g.unresolved = l1.unresolved
          /\ g.unsupported = l1.unsupported /\ g.stop = l1.stop
      BY <1>2, <1>4, FlagFields
    <3> HIDE DEF g
    <3>3. /\ l2 \in LedgerSet /\ l2.stop = "scan_timeout"
          /\ l2.drops = g.drops \cup {<<f, "stopped">> : f \in g.begun \ g.done}
          /\ l2.begun = g.begun /\ l2.ok = g.ok /\ l2.done = g.done /\ l2.off = g.off
          /\ l2.unsupported = g.unsupported /\ l2.unresolved = g.unresolved /\ l2.flags = g.flags
      BY <1>2, <3>1, <3>2, HaltFields
    <3>4. \A d \in l2.drops \ l1.drops : d[1] \in l1.begun /\ d[2] = "stopped"
      BY <3>2, <3>3
    <3>5. QED
      BY <1>2, <1>4, <2>2, <3>2, <3>3, <3>4 DEF Keeps
  <2>3. QED
    BY <2>1, <2>2
<1> HIDE DEF l2
<1>6. /\ ledger' \in LedgerSet /\ ledger'.done = l2.done \cup {"state"}
      /\ ledger'.begun = l2.begun /\ ledger'.ok = l2.ok
      /\ ledger'.unsupported = l2.unsupported /\ ledger'.off = l2.off
      /\ ledger'.drops = l2.drops /\ ledger'.unresolved = l2.unresolved
      /\ ledger'.flags = l2.flags /\ ledger'.stop = l2.stop
  BY <1>0, <1>2, <1>5, FinishFields
<1>7. QED
  BY <1>3, <1>4, <1>5, <1>6 DEF Keeps

LEMMA DeriveFields ==
  ASSUME NEW l \in LedgerSet
  PROVE  LET m == Derive(l)
         IN  /\ m \in LedgerSet
             /\ m.ok = l.ok /\ m.off = l.off /\ m.unsupported = l.unsupported
             /\ m.unresolved = l.unresolved /\ m.flags = l.flags /\ m.stop = l.stop
             /\ \/ m = l /\ ("runs" \notin l.begun \/ "runs" \in l.unsupported)
                \/ /\ Blind(l, "runs") /\ m.begun = l.begun \cup {"failing"} /\ m.done = l.done
                   /\ m.drops = l.drops \cup {<<"failing", "sourceBlind">>}
                \/ /\ "runs" \in l.begun /\ ~Blind(l, "runs")
                   /\ m.begun = l.begun \cup {"failing"} /\ m.done = l.done \cup {"failing"} /\ m.drops = l.drops
<1> DEFINE m == Derive(l)
<1>0. "failing" \in Families /\ "sourceBlind" \in Reasons
  BY DEF Families, Reasons, BlindReasons
<1>1. CASE "runs" \notin l.begun \/ "runs" \in l.unsupported
  <2>1. m = l
    BY <1>1 DEF Derive
  <2> HIDE DEF m
  <2>2. QED
    BY <1>1, <2>1 DEF m
<1>2. CASE ~("runs" \notin l.begun \/ "runs" \in l.unsupported) /\ Blind(l, "runs")
  <2>1. m = Drop(l, "failing", "sourceBlind")
    BY <1>2 DEF Derive
  <2> HIDE DEF m
  <2>2. QED
    BY <1>0, <1>2, <2>1, DropMany DEF m, Keeps
<1>3. CASE ~("runs" \notin l.begun \/ "runs" \in l.unsupported) /\ ~Blind(l, "runs")
  <2> DEFINE b == Begin(l, {"failing"})
  <2>1. m = Finish(b, {"failing"})
    BY <1>3 DEF Derive
  <2>2. /\ b \in LedgerSet /\ b.begun = l.begun \cup {"failing"}
        /\ b.done = l.done /\ b.ok = l.ok /\ b.unsupported = l.unsupported /\ b.off = l.off
        /\ b.drops = l.drops /\ b.unresolved = l.unresolved /\ b.flags = l.flags /\ b.stop = l.stop
    BY <1>0, BeginFields
  <2> HIDE DEF b, m
  <2>3. /\ m \in LedgerSet /\ m.done = b.done \cup {"failing"}
        /\ m.begun = b.begun /\ m.ok = b.ok /\ m.unsupported = b.unsupported /\ m.off = b.off
        /\ m.drops = b.drops /\ m.unresolved = b.unresolved /\ m.flags = b.flags /\ m.stop = b.stop
    BY <1>0, <2>1, <2>2, FinishFields
  <2>4. QED
    BY <1>3, <2>2, <2>3 DEF m
<1>4. QED
  BY <1>1, <1>2, <1>3

(* The seven ways of a read: it stops the scan, the scan's context ended,
   it failed, of a snapshot or not, it falls back, it answers undated runs,
   or it returns. *)
ReadStops(u, err) ==
    /\ err \in Stops /\ ledger' = Stopped(ledger, u[1], err) /\ step' = "end" /\ todo' = <<>>
ReadLost == ctx # "live" /\ ledger' = ledger /\ step' = "end" /\ todo' = <<>>
ReadShort(u, err) ==
    /\ ctx = "live" /\ err \in Failures \ (Stops \cup {"ended"}) /\ u[1] \notin {"prs", "issues"}
    /\ ledger' = Record(ledger, u[1], err)
    /\ step' = (IF u[1] = "repos" THEN "end" ELSE step) /\ todo' = Tail(todo)
SnapshotLost(u, err) ==
    /\ ctx = "live" /\ err \in Failures \ (Stops \cup {"ended"}) /\ u[1] \in {"prs", "issues"}
    /\ ledger' = Drop(Record(ledger, u[1], err), u[1], "ownerFailed")
    /\ step' = step /\ todo' = Among(Tail(todo), {v \in Left : v[1] # u[1] \/ IsOwner(v)})
FellBack(u) ==
    /\ u[1] \in {"prs", "issues"} /\ IsOwner(u) /\ FallsBack(u)
    /\ step' = step /\ ledger' = ledger
ReadUndated(u) ==
    /\ u[1] = "runs" /\ todo' = Tail(todo) /\ dates' = dates \cup {"undated"}
    /\ step' = step /\ ledger' = ledger
Returned(u, a) ==
    /\ a.end \in {"whole", "cut", "empty", "none", "noHead", "tokenUnsupported"}
    /\ Returns(u, a) /\ step' = step
    /\ a.all \in BOOLEAN
    /\ a.end \in {"whole", "empty", "none", "tokenUnsupported"} => a.all
    /\ a.end \in {"noHead", "tokenUnsupported"} => u[1] = "checks"
    /\ a.end = "empty" => u[1] = "runs"
    /\ a.end = "none" => u[1] = "security"
    /\ u[1] \in {"prs", "issues"} => a.end = "whole"
    /\ whole' = whole \cup IF a.all THEN {<<u[1], x>> : x \in Lists(u)} ELSE {}

(* A read under way leaves what is whole of the other families as it is. *)
ReadsOnly(u) ==
    /\ whole \subseteq whole' /\ whole' \subseteq whole \cup {<<u[1], x>> : x \in Lists(u)}
    /\ u[1] \in {"prs", "issues"} => whole' = whole
    /\ rows' = rows

LEMMA ReadCases ==
  ASSUME TypeInv, Read
  PROVE  \E u, a :
            /\ todo # <<>> /\ u = Head(todo) /\ u \in Left /\ ~Skips(u)
            /\ faults' \in 0..MaxFaults
            /\ env' = env /\ open' = open /\ ctx' = ctx /\ listed' = listed /\ byOwner' = byOwner /\ keptWhole' = keptWhole
            /\ \/ ReadStops(u, a.end) /\ ReadsOnly(u) /\ dates' = dates
               \/ ReadLost /\ ReadsOnly(u) /\ dates' = dates
               \/ ReadShort(u, a.end) /\ ReadsOnly(u) /\ dates' = dates
               \/ SnapshotLost(u, a.end) /\ ReadsOnly(u) /\ dates' = dates
               \/ FellBack(u) /\ ReadsOnly(u) /\ dates' = dates
               \/ ReadUndated(u) /\ ReadsOnly(u)
               \/ Returned(u, a)
<1> DEFINE u == Head(todo)
<1>1. /\ todo # <<>> /\ ~Skips(u)
      /\ env' = env /\ open' = open /\ ctx' = ctx /\ listed' = listed /\ byOwner' = byOwner /\ keptWhole' = keptWhole
  BY DEF Read
<1>2. PICK a \in Answers(u[1], IsOwner(u)) \cup {[end |-> e, all |-> FALSE] : e \in {"refused", "ended"}} :
         /\ Faulty(a.end) /\ Allowed(a.end)
         /\ whole' = whole \cup IF a.all THEN {<<u[1], x>> : x \in Lists(u)} ELSE {}
         /\ CASE a.end \in Failures -> ReadFails(u, a.end) /\ UNCHANGED <<rows, dates>>
              [] a.end = "unresolved" -> FallsBack(u) /\ UNCHANGED <<step, ledger, rows, dates>>
              [] a.end = "undated" ->
                     /\ todo' = Tail(todo) /\ dates' = dates \cup {"undated"}
                     /\ UNCHANGED <<step, ledger, rows>>
              [] OTHER -> Returns(u, a) /\ UNCHANGED step
  BY DEF Read
<1>3. u \in Left
  BY <1>1, TypeFacts, TailElements DEF Left
<1>4. u[1] \in Families
  BY <1>3, TypeFacts DEF Units
<1>5. faults' \in 0..MaxFaults
  BY <1>2, FaultyType
<1> DEFINE f == u[1]
           owner == IsOwner(u)
<1>6. owner \in BOOLEAN
  BY DEF IsOwner
<1>7. /\ a.all \in BOOLEAN
      /\ a.end \in {"whole", "empty", "none", "tokenUnsupported"} => a.all
      /\ a.end \in {"whole", "cut", "empty", "none", "noHead", "tokenUnsupported", "undated", "unresolved"} \cup Failures
      /\ a.end \in {"noHead", "tokenUnsupported"} => f = "checks"
      /\ a.end \in {"empty", "undated"} => f = "runs"
      /\ a.end = "none" => f = "security"
      /\ a.end = "unresolved" => f \in {"prs", "issues"} /\ owner
      /\ f \in {"prs", "issues"} => a.end # "cut" /\ (a.all => a.end = "whole")
  <2>1. CASE a \in Answers(u[1], IsOwner(u))
    <3>1. a \in Answers(f, owner) /\ f \in Families
      BY <1>4, <2>1
    <3> HIDE DEF f, owner
    <3>2. QED
      BY <1>6, <3>1, AnswersType DEF Failures
  <2>2. CASE a \in {[end |-> e, all |-> FALSE] : e \in {"refused", "ended"}}
    <3>1. a.end \in {"refused", "ended"} /\ a.all = FALSE
      BY <2>2
    <3>2. QED
      BY <3>1 DEF Failures
  <2>3. QED
    BY <1>2, <2>1, <2>2
<1> DEFINE xs == {<<f, x>> : x \in Lists(u)}
<1>8. whole' = whole \cup IF a.all THEN xs ELSE {}
  BY <1>2
<1>9. Failures = {"failed", "token", "forbidden", "refused", "ended"} \cup Stops /\ Stops = {"deferred", "limited"}
  BY DEF Failures, Errors, Stops
<1>10. (ReadsOnly(u) /\ dates' = dates) \/ a.end \notin Failures \cup {"unresolved"}
  <2>1. SUFFICES ASSUME a.end \in Failures \cup {"unresolved"}
                 PROVE  ReadsOnly(u) /\ dates' = dates
    OBVIOUS
  <2>2. rows' = rows /\ dates' = dates
    BY <1>2, <1>9, <2>1
  <2>3. f \in {"prs", "issues"} => ~a.all
    BY <1>7, <1>9, <2>1
  <2> HIDE DEF xs
  <2>4. whole \subseteq whole' /\ whole' \subseteq whole \cup xs /\ (f \in {"prs", "issues"} => whole' = whole)
    BY <1>8, <2>3
  <2>5. QED
    BY <2>2, <2>4 DEF ReadsOnly, xs
<1>11. CASE a.end \in Failures
  <2>1. ReadFails(u, a.end)
    <3> HIDE DEF u
    <3>1. a.end \in Failures => ReadFails(u, a.end) /\ UNCHANGED <<rows, dates>>
      <4> DEFINE p == ReadFails(u, a.end) /\ UNCHANGED <<rows, dates>>
                 q == FallsBack(u) /\ UNCHANGED <<step, ledger, rows, dates>>
                 r == Returns(u, a) /\ UNCHANGED step
                 v == /\ todo' = Tail(todo) /\ dates' = dates \cup {"undated"}
                      /\ UNCHANGED <<step, ledger, rows>>
      <4>1. (CASE a.end \in Failures -> p [] a.end = "unresolved" -> q [] a.end = "undated" -> v [] OTHER -> r)
        BY <1>2
      <4>2. a.end \in Failures => a.end # "unresolved" /\ a.end # "undated"
        BY <1>9
      <4> HIDE DEF p, q, r, v
      <4>3. a.end \in Failures => p
        BY <4>1, <4>2
      <4>4. QED
        BY <4>3 DEF p
    <3>2. QED
      BY <1>11, <3>1
  <2> DEFINE l == Record(ledger, f, a.end)
  <2>2. CASE f \in {"prs", "issues"}
    <3>1. Failed(f, a.end, Drop(l, f, "ownerFailed"), Among(Tail(todo), {v \in Left : v[1] # f \/ IsOwner(v)}))
      BY <2>1, <2>2 DEF ReadFails, Left
    <3>2. \/ ReadStops(u, a.end)
          \/ a.end \notin Stops /\ ctx # "live" /\ ledger' = ledger /\ step' = "end" /\ todo' = <<>>
          \/ /\ a.end \notin Stops /\ ctx = "live" /\ ledger' = Drop(l, f, "ownerFailed")
             /\ step' = (IF f = "repos" THEN "end" ELSE step)
             /\ todo' = Among(Tail(todo), {v \in Left : v[1] # f \/ IsOwner(v)})
      BY <3>1, FailedEffect DEF ReadStops
    <3>3. ReadStops(u, a.end) \/ ReadLost \/ SnapshotLost(u, a.end)
      BY <1>2, <1>11, <2>2, <3>2 DEF ReadLost, SnapshotLost, Allowed
    <3>4. QED
      BY <1>1, <1>3, <1>5, <1>10, <1>11, <3>3
  <2>3. CASE f \notin {"prs", "issues"}
    <3>1. Failed(f, a.end, l, Tail(todo))
      BY <2>1, <2>3 DEF ReadFails
    <3>2. \/ ReadStops(u, a.end)
          \/ a.end \notin Stops /\ ctx # "live" /\ ledger' = ledger /\ step' = "end" /\ todo' = <<>>
          \/ /\ a.end \notin Stops /\ ctx = "live" /\ ledger' = l
             /\ step' = (IF f = "repos" THEN "end" ELSE step) /\ todo' = Tail(todo)
      BY <3>1, FailedEffect DEF ReadStops
    <3>3. ReadStops(u, a.end) \/ ReadLost \/ ReadShort(u, a.end)
      BY <1>2, <1>11, <2>3, <3>2 DEF ReadLost, ReadShort, Allowed
    <3>4. QED
      BY <1>1, <1>3, <1>5, <1>10, <1>11, <3>3
  <2>4. QED
    BY <2>2, <2>3
<1>12. CASE a.end = "unresolved"
  <2>1. FallsBack(u) /\ step' = step /\ ledger' = ledger
    BY <1>2, <1>9, <1>12
  <2>2. FellBack(u)
    BY <1>7, <1>12, <2>1 DEF FellBack
  <2>3. QED
    BY <1>1, <1>3, <1>5, <1>10, <1>12, <2>2
<1>13. CASE a.end = "undated"
  <2>1. todo' = Tail(todo) /\ dates' = dates \cup {"undated"} /\ step' = step /\ ledger' = ledger /\ rows' = rows
    BY <1>2, <1>9, <1>13
  <2>2. f = "runs"
    BY <1>7, <1>13
  <2>3. ReadUndated(u)
    BY <2>1, <2>2 DEF ReadUndated
  <2>4. whole \subseteq whole' /\ whole' \subseteq whole \cup xs
    <3> HIDE DEF xs
    <3>1. QED
      BY <1>8
  <2>5. ReadsOnly(u)
    BY <2>1, <2>2, <2>4 DEF ReadsOnly
  <2>6. QED
    BY <1>1, <1>3, <1>5, <2>3, <2>5
<1>14. CASE a.end \notin Failures \cup {"unresolved", "undated"}
  <2>1. Returns(u, a) /\ step' = step
    BY <1>2, <1>14
  <2>2. a.end \in {"whole", "cut", "empty", "none", "noHead", "tokenUnsupported"}
    BY <1>7, <1>14
  <2>3. f \in {"prs", "issues"} => a.end = "whole"
    BY <1>7, <2>2
  <2>4. Returned(u, a)
    BY <1>7, <1>8, <2>1, <2>2, <2>3 DEF Returned
  <2>5. QED
    BY <1>1, <1>3, <1>5, <2>4
<1>15. QED
  BY <1>11, <1>12, <1>13, <1>14

-----------------------------------------------------------------------------
(* Types. *)

LEMMA TypeInit ==
  ASSUME Init
  PROVE  TypeInv
<1>1. NewLedger \in LedgerSet
  BY DEF NewLedger, LedgerSet, Ledgers
<1>2. <<>> \in Seq(Units)
  OBVIOUS
<1>3. /\ env \in Envs /\ step = "open" /\ todo = <<>> /\ open = FALSE /\ ctx = "live" /\ ledger = NewLedger
      /\ listed = {} /\ byOwner = NoneFound /\ keptWhole = Unset /\ rows = {} /\ dates = {} /\ faults = 0
  BY DEF Init, Fresh
<1>4. ledger \in Ledgers(owners) /\ todo \in Seq(Units)
  BY <1>1, <1>2, <1>3 DEF LedgerSet
<1>5. faults \in 0..MaxFaults
  BY <1>3, MaxFaultsAssumption
<1>6. FoundType
  BY <1>3 DEF FoundType, NoneFound, owners
<1>7. QED
  BY <1>3, <1>4, <1>5, <1>6 DEF TypeInv, TypeOK, FoundType, Units, owners, repos, EmptyScan

(* The types but the variables a handler changes. *)
StepNames == ToSet(ReadSteps) \cup Ends \cup {"open", "unopened", "opened", "reused", "save", "saved"}

LEMMA TypeKept ==
  ASSUME TypeInv, env' \in Envs, step' \in StepNames, IsSeq(todo'), ToSet(todo') \subseteq Units, open' \in BOOLEAN,
         ctx' \in {"live", "limit", "shutdown"}, ledger' \in LedgerSet,
         listed' \subseteq repos, UNCHANGED <<env, listed, byOwner>> \/ FoundType',
         rows' \subseteq Families \X (listed' \ env'.excluded),
         keptWhole' \in {Unset} \cup SUBSET repos, dates' \subseteq {"undated", "dated"}, faults' \in 0..MaxFaults,
         Early' => EmptyScan'
  PROVE  TypeInv'
<1>1. todo' \in Seq(Units)
  BY Elements
<1>2. FoundType'
  BY DEF TypeInv, FoundType, kept
<1>3. QED
  BY <1>1, <1>2 DEF TypeInv, TypeOK, FoundType, LedgerSet, Units, owners, repos, StepNames

LEMMA StepNamed ==
  /\ StepNames = {"discover", "snapshots", "runs", "checks", "github", "end", "complete", "stopped", "interrupted",
                  "open", "unopened", "opened", "reused", "save", "saved"}
  /\ \A s \in ReadsSteps \cup {"discover"} : After(s) \in ReadsSteps \cup {"end"}
BY Steps DEF StepNames, Ends, ReadsSteps

LEMMA EmptySequence == IsSeq(<<>>) /\ ToSet(<<>>) = {}
<1>1. <<>> \in Seq({}) /\ DOMAIN <<>> = {}
  OBVIOUS
<1>2. IsSeq(<<>>)
  BY <1>1, SequenceBasics
<1>3. QED
  BY <1>1, <1>2 DEF ToSet

LEMMA TypeNow ==
  ASSUME TypeInv
  PROVE  /\ env \in Envs /\ step \in StepNames /\ IsSeq(todo) /\ Left \subseteq Units /\ open \in BOOLEAN
         /\ ctx \in {"live", "limit", "shutdown"} /\ ledger \in LedgerSet
         /\ listed \subseteq repos
         /\ rows \subseteq Families \X (listed \ env.excluded)
         /\ keptWhole \in {Unset} \cup SUBSET repos /\ dates \subseteq {"undated", "dated"} /\ faults \in 0..MaxFaults
         /\ Early => EmptyScan
<1>1. IsSeq(todo) /\ Left \subseteq Units
  BY TypeFacts
<1>2. QED
  BY <1>1 DEF TypeInv, TypeOK, LedgerSet, repos, owners, StepNames

LEMMA TypeOpens ==
  ASSUME TypeInv,
         \/ \E err \in Errors \cup {"connection", "ended"}, named \in BOOLEAN : OpenFails(err, named)
         \/ Opens \/ SharesAccount \/ GateCut \/ StartReads
  PROVE  TypeInv'
<1> USE TypeNow, StepNamed
<1>1. env.security \in BOOLEAN /\ UNCHANGED Left
  <2>1. UNCHANGED todo
    BY DEF OpenFails, Opens, SharesAccount, GateCut, StartReads
  <2>2. QED
    BY <2>1, TypeFacts DEF Left
<1>a. EmptyScan'
  <2>1. EmptyScan
    BY DEF OpenFails, Opens, SharesAccount, GateCut, StartReads, Early
  <2>2. UNCHANGED <<listed, byOwner, keptWhole, rows, dates, todo>>
    BY DEF OpenFails, Opens, SharesAccount, GateCut, StartReads, scan
  <2>3. QED
    BY <2>1, <2>2 DEF EmptyScan
<1>2. ASSUME NEW err \in Errors \cup {"connection", "ended"}, NEW named \in BOOLEAN, OpenFails(err, named)
      PROVE  TypeInv'
  <2> DEFINE l == IF named THEN Classify(ledger, env.product, env.security) ELSE ledger
  <2>1. ledger' = OpenFailure(l, err) /\ Faulty(err)
    BY <1>2 DEF OpenFails
  <2>2. Classify(ledger, env.product, env.security) \in LedgerSet
    BY <1>1, ClassifyFields
  <2>3. l \in LedgerSet
    BY <2>2
  <2> HIDE DEF l
  <2>4. ledger' \in LedgerSet
    BY <2>1, <2>3, OpenFailureFields
  <2>5. faults' \in 0..MaxFaults
    BY <2>1, FaultyType
  <2>6. step' = "unopened" /\ UNCHANGED <<env, todo, open, ctx, listed, byOwner, keptWhole, rows, dates>>
    BY <1>2 DEF OpenFails, scan
  <2>7. QED
    BY <1>1, <1>a, <2>4, <2>5, <2>6, TypeKept DEF Left
<1>3. CASE Opens
  <2>1. ledger' \in LedgerSet
    BY <1>1, <1>3, ClassifyFields DEF Opens
  <2>2. /\ step' \in {"reused", "opened"} /\ open' = TRUE
        /\ UNCHANGED <<env, todo, ctx, listed, byOwner, keptWhole, rows, dates, faults>>
    BY <1>3 DEF Opens, scan
  <2>3. QED
    BY <1>1, <1>a, <2>1, <2>2, TypeKept DEF Left
<1>4. CASE SharesAccount
  <2>1. ledger' = OpenFailure(ledger, "connection") /\ Faulty("connection")
    BY <1>4 DEF SharesAccount
  <2>2. ledger' \in LedgerSet
    BY <2>1, OpenFailureFields
  <2>3. faults' \in 0..MaxFaults
    BY <2>1, FaultyType
  <2>4. step' = "unopened" /\ open' = FALSE /\ UNCHANGED <<env, todo, ctx, listed, byOwner, keptWhole, rows, dates>>
    BY <1>4 DEF SharesAccount, scan
  <2>5. QED
    BY <1>1, <1>a, <2>2, <2>3, <2>4, TypeKept DEF Left
<1>5. CASE GateCut
  <2>1. step' = "end" /\ UNCHANGED <<env, todo, open, ctx, ledger, listed, byOwner, keptWhole, rows, dates, faults>>
    BY <1>5 DEF GateCut, scan
  <2>2. QED
    BY <1>1, <1>a, <2>1, TypeKept DEF Left
<1>6. CASE StartReads
  <2> DEFINE l == IF step = "opened" THEN Flag(ledger, {"opened"}) ELSE ledger
  <2>1. ledger' = Begin(l, {"repos"})
    BY <1>6 DEF StartReads
  <2>2. Flag(ledger, {"opened"}) \in LedgerSet
    BY FlagFields DEF Flags
  <2>3. l \in LedgerSet
    BY <2>2
  <2> HIDE DEF l
  <2>4. ledger' \in LedgerSet
    BY <2>1, <2>3, BeginFields DEF Families
  <2>5. step' = "discover" /\ UNCHANGED <<env, todo, open, ctx, listed, byOwner, keptWhole, rows, dates, faults>>
    BY <1>6 DEF StartReads, scan
  <2>6. QED
    BY <1>1, <1>a, <2>4, <2>5, TypeKept DEF Left
<1>7. QED
  BY <1>2, <1>3, <1>4, <1>5, <1>6

LEMMA TypeDiscovery ==
  ASSUME TypeInv, (\E err \in Failures : DiscoveryFails(err)) \/ Discovered
  PROVE  TypeInv'
<1> USE TypeNow, StepNamed
<1>1. ASSUME NEW err \in Failures, DiscoveryFails(err)
      PROVE  TypeInv'
  <2> DEFINE r == Record(ledger, "repos", err)
             l == Flag(r, {"connFailed"})
  <2>1. Failed("repos", err, l, <<>>) /\ Faulty(err)
    BY <1>1 DEF DiscoveryFails
  <2>2. Noted(ledger, r, "repos", err)
    BY RecordFields DEF Families
  <2> HIDE DEF r
  <2>3. l \in LedgerSet
    BY <2>2, FlagFields DEF Noted, Flags
  <2> HIDE DEF l
  <2>4. \/ err \in Stops /\ ledger' = Stopped(ledger, "repos", err)
        \/ ledger' = ledger
        \/ ledger' = l
    BY <2>1, FailedEffect
  <2>5. err \in Stops => Stopped(ledger, "repos", err) \in LedgerSet
    BY StoppedFields DEF Families
  <2>6. ledger' \in LedgerSet
    BY <2>3, <2>4, <2>5
  <2>7. step' = "end" /\ todo' = <<>>
    BY <2>1, FailedEffect
  <2>8. faults' \in 0..MaxFaults
    BY <2>1, FaultyType
  <2>9. UNCHANGED <<env, open, ctx, listed, byOwner, keptWhole, rows, dates>>
    BY <1>1 DEF DiscoveryFails, scan
  <2>10. ~Early'
    BY <2>7 DEF Early, Discovering
  <2>11. QED
    BY <2>6, <2>7, <2>8, <2>9, <2>10, TypeKept, EmptySequence
<1>2. CASE Discovered
  <2>1. PICK ends \in [owners -> ({Listing(p) : p \in RepoPages} \cap {"whole", "cut"}) \cup {"unresolved"}],
             got \in [owners -> SUBSET repos] :
           /\ faults' = faults + Cardinality({o \in owners : ends[o] # "whole"})
           /\ faults' <= MaxFaults
           /\ \A o \in owners : got[o] \subseteq OwnedBy[o]
           /\ Discovers(ends, got)
    BY <1>2 DEF Discovered, owners, repos
  <2>2. UNCHANGED <<env, step, todo, open, ctx, rows, dates>> /\ Discovering
    BY <1>2 DEF Discovered
  <2>3. ledger' \in LedgerSet
    BY <2>1, DiscoversFields
  <2>4. faults' \in 0..MaxFaults
    <3> DEFINE S == {o \in owners : ends[o] # "whole"}
    <3>1. IsFiniteSet(owners)
      BY NamesSequences, SequenceFinite DEF owners
    <3>2. IsFiniteSet(S)
      BY <3>1, FS_Subset
    <3> HIDE DEF S
    <3>3. Cardinality(S) \in Nat
      BY <3>2, FS_CardinalityType
    <3>4. faults' = faults + Cardinality(S) /\ faults' <= MaxFaults /\ faults \in Nat /\ MaxFaults \in Nat
      BY <2>1, MaxFaultsAssumption DEF S
    <3>5. QED
      BY <3>3, <3>4
  <2>5. listed' \subseteq repos /\ keptWhole' \in {Unset} \cup SUBSET repos
    <3>1. listed' = UNION {got[o] : o \in owners}
          /\ (keptWhole' = listed' \ env.excluded \/ keptWhole' = Unset)
      BY <2>1 DEF Discovers
    <3>2. listed' \subseteq repos
      BY <2>1, <3>1
    <3>3. QED
      BY <3>1, <3>2
  <2>6. ~Early'
    <3>1. "repos" \in ledger'.done
      BY <2>1, DiscoversFields
    <3>2. QED
      BY <2>2, <3>1 DEF Early, Discovering
  <2>7. rows' \subseteq Families \X (listed' \ env'.excluded)
    <3>1. rows = {}
      BY <2>2 DEF Early, EmptyScan
    <3>2. QED
      BY <2>2, <3>1
  <2>8. FoundType'
    <3>1. /\ listed' = UNION {got[o] : o \in owners} /\ env' = env
          /\ byOwner' = [o \in owners |-> got[o] \ env.excluded]
      BY <2>1, <2>2 DEF Discovers
    <3>2. \A o \in owners : got[o] \subseteq repos /\ got[o] \subseteq OwnedBy[o]
      BY <2>1
    <3>3. QED
      BY <3>1, <3>2 DEF FoundType, kept
  <2>9. QED
    BY <2>2, <2>3, <2>4, <2>5, <2>6, <2>7, <2>8, TypeKept DEF Left
<1>3. QED
  BY <1>1, <1>2

LEMMA FamiliesWritten ==
  /\ {"prs", "issues", "runs", "checks", "security", "workflows", "repos", "failing", "state"} = Families
  /\ \A s : FamiliesOf(s) \subseteq Families
BY DEF Families, FamiliesOf

LEMMA TypeSteps ==
  ASSUME TypeInv, NextStep \/ Skip
  PROVE  TypeInv'
<1> USE TypeNow, StepNamed
<1>1. CASE NextStep
  <2>1. UNCHANGED <<env, open, ctx, listed, byOwner, keptWhole, rows, dates, faults>>
    BY <1>1 DEF NextStep, scan
  <2>2. PICK l \in LedgerSet :
           /\ todo = <<>> /\ step \in ReadsSteps \cup {"discover"}
           /\ \/ /\ step' = "end" /\ ledger' = l /\ todo' = todo
              \/ /\ step' = After(step)
                 /\ ledger' = Begin(l, Reading(After(step), l)) /\ todo' = ReadsOf(After(step), l)
    BY <1>1, NextStepCases
  <2>3. After(step) \in ReadsSteps \cup {"end"}
    BY <2>2
  <2>4. step' \in ReadsSteps \cup {"end"} /\ ~Early'
    BY <2>2, <2>3 DEF Early, Discovering, ReadsSteps
  <2>5. ledger' \in LedgerSet
    BY <2>2, BeginFields, ReadingFamilies
  <2>6. IsSeq(todo') /\ ToSet(todo') \subseteq Units
    <3>1. CASE todo' = <<>>
      BY <3>1, EmptySequence
    <3>2. CASE todo' = ReadsOf(After(step), l)
      <4> DEFINE s == After(step)
      <4>1. s \in {"snapshots", "runs", "checks", "github", "end"}
        BY <2>3 DEF ReadsSteps
      <4> HIDE DEF s
      <4>2. /\ IsSeq(ReadsOf(s, l))
            /\ \A u : u \in ToSet(ReadsOf(s, l)) <=> \E f \in Reading(s, l), x \in Over(s, l) : u = <<f, x>>
        BY <4>1, ReadsElements
      <4>3. Over(s, l) \subseteq owners \cup repos
        BY TypeFacts DEF Over
      <4>4. Reading(s, l) \subseteq Families
        BY ReadingFamilies
      <4>5. ToSet(ReadsOf(s, l)) \subseteq Units
        <5> SUFFICES ASSUME NEW u \in ToSet(ReadsOf(s, l))
                     PROVE  u \in Units
          OBVIOUS
        <5>1. PICK f \in Reading(s, l), x \in Over(s, l) : u = <<f, x>>
          BY <4>2
        <5>2. QED
          BY <4>3, <4>4, <5>1 DEF Units
      <4>6. QED
        BY <3>2, <4>2, <4>5 DEF s
    <3>3. QED
      BY <2>2, <3>1, <3>2
  <2>7. QED
    BY <2>1, <2>4, <2>5, <2>6, TypeKept DEF ReadsSteps
<1>2. CASE Skip
  <2>1. /\ todo # <<>> /\ todo' = Tail(todo)
        /\ ledger' = IF IsOwner(Head(todo)) THEN ledger ELSE Drop(ledger, Head(todo)[1], "skipped")
        /\ UNCHANGED <<env, step, open, ctx, listed, byOwner, keptWhole, rows, dates, faults>>
    BY <1>2 DEF Skip, scan
  <2>2. IsSeq(todo') /\ ToSet(todo') \subseteq Units /\ Head(todo) \in Units
    BY <2>1, TailElements DEF Left
  <2>3. PICK f \in Families : f = Head(todo)[1]
    BY <2>2 DEF Units
  <2>4. Drop(ledger, f, "skipped") \in LedgerSet
    <3>1. "skipped" \in Reasons
      BY DEF Reasons, Excluded
    <3>2. QED
      BY <3>1, DropMany
  <2>5. ledger' \in LedgerSet
    BY <2>1, <2>3, <2>4
  <2>6. ~Early
    BY <2>1 DEF EmptyScan
  <2>7. ledger'.done = ledger.done
    <3>1. Drop(ledger, f, "skipped").done = ledger.done
      BY DropMany DEF Reasons, Excluded, Keeps
    <3>2. QED
      BY <2>1, <2>3, <3>1
  <2>8. ~Early'
    BY <2>1, <2>6, <2>7 DEF Early, Discovering
  <2>9. QED
    BY <2>1, <2>2, <2>5, <2>8, TypeKept
<1>3. QED
  BY <1>1, <1>2

(* What falling back leaves to read. *)
LEMMA FallsBackElements ==
  ASSUME TypeInv, NEW u, IsOwner(u), IsSeq(Tail(todo)),
         todo' = [i \in DOMAIN Among(Repos, byOwner[u[2]]) |-> <<u[1], Among(Repos, byOwner[u[2]])[i]>>]
                 \o Tail(todo)
  PROVE  /\ IsSeq(todo')
         /\ \A v : v \in Left' <=> v \in ToSet(Tail(todo)) \/ \E x \in byOwner[u[2]] : v = <<u[1], x>>
<1> DEFINE own == Among(Repos, byOwner[u[2]])
           each == [i \in DOMAIN own |-> <<u[1], own[i]>>]
<1>0. byOwner[u[2]] \subseteq repos
  BY TypeFacts DEF IsOwner, owners
<1>1. IsSeq(own) /\ \A x : x \in ToSet(own) <=> x \in repos /\ x \in byOwner[u[2]]
  BY NamesSequences, AmongElements DEF repos
<1>2. todo' = each \o Tail(todo)
  OBVIOUS
<1> HIDE DEF own
<1>3. /\ Len(own) \in Nat /\ DOMAIN own = 1..Len(own)
      /\ \A x : x \in ToSet(own) <=> \E i \in 1..Len(own) : own[i] = x
  <2>1. Len(own) \in Nat /\ DOMAIN own = 1..Len(own)
    <3>1. IsSeq(own)
      BY <1>1
    <3>2. QED
      BY <3>1, SequenceBasics DEF IsSeq
  <2>2. ToSet(own) = {own[i] : i \in 1..Len(own)}
    BY <2>1, Zenon DEF ToSet
  <2>3. QED
    BY <2>1, <2>2
<1>4. DOMAIN each = 1..Len(own) /\ \A i \in 1..Len(own) : each[i] = <<u[1], own[i]>>
  BY <1>3
<1>5. each = [i \in 1..Len(own) |-> each[i]]
  BY <1>3, <1>4
<1> HIDE DEF each
<1>6. IsSeq(each) /\ ToSet(each) = {each[i] : i \in 1..Len(own)}
  BY <1>3, <1>5, TabulatedElements
<1>7. \A v : v \in ToSet(each) <=> \E x \in byOwner[u[2]] : v = <<u[1], x>>
  <2>1. ASSUME NEW v \in ToSet(each)
        PROVE  \E x \in byOwner[u[2]] : v = <<u[1], x>>
    <3>1. PICK i \in 1..Len(own) : v = <<u[1], own[i]>>
      BY <1>4, <1>6
    <3>2. own[i] \in byOwner[u[2]]
      BY <1>1, <1>3
    <3>3. QED
      BY <3>1, <3>2
  <2>2. ASSUME NEW x \in byOwner[u[2]]
        PROVE  <<u[1], x>> \in ToSet(each)
    <3>1. x \in ToSet(own)
      BY <1>0, <1>1
    <3>2. PICK i \in 1..Len(own) : own[i] = x
      BY <1>3, <3>1
    <3>3. each[i] = <<u[1], x>>
      BY <1>4, <3>2
    <3>4. QED
      BY <1>6, <3>3
  <2>3. QED
    BY <2>1, <2>2
<1>8. IsSeq(todo') /\ ToSet(todo') = ToSet(each) \cup ToSet(Tail(todo))
  BY <1>2, <1>6, JoinElements
<1>9. QED
  BY <1>7, <1>8 DEF Left

LEMMA TypeRead ==
  ASSUME TypeInv, Read
  PROVE  TypeInv'
<1> USE TypeNow, StepNamed
<1>1. PICK u, a :
         /\ todo # <<>> /\ u = Head(todo) /\ u \in Left
         /\ faults' \in 0..MaxFaults
         /\ env' = env /\ open' = open /\ ctx' = ctx /\ listed' = listed /\ byOwner' = byOwner /\ keptWhole' = keptWhole
         /\ \/ ReadStops(u, a.end) /\ ReadsOnly(u) /\ dates' = dates
            \/ ReadLost /\ ReadsOnly(u) /\ dates' = dates
            \/ ReadShort(u, a.end) /\ ReadsOnly(u) /\ dates' = dates
            \/ SnapshotLost(u, a.end) /\ ReadsOnly(u) /\ dates' = dates
            \/ FellBack(u) /\ ReadsOnly(u) /\ dates' = dates
            \/ ReadUndated(u) /\ ReadsOnly(u)
            \/ Returned(u, a)
  BY ReadCases
<1>2. PICK f \in Families : f = u[1]
  BY <1>1 DEF Units
<1>3. IsSeq(Tail(todo)) /\ ToSet(Tail(todo)) \subseteq Units
  BY <1>1, TailElements DEF Left
<1>4. ~Early
  BY <1>1 DEF EmptyScan
<1>5. ASSUME ledger' \in LedgerSet, ledger'.done = ledger.done, step' \in {step, "end"},
             IsSeq(todo'), ToSet(todo') \subseteq Units,
             rows' \subseteq Families \X (listed \ env.excluded), dates' \subseteq {"undated", "dated"}
      PROVE  TypeInv'
  <2>1. ~Early'
    BY <1>4, <1>5 DEF Early, Discovering
  <2>2. QED
    BY <1>1, <1>5, <2>1, TypeKept
<1>6. CASE ReadStops(u, a.end) /\ ReadsOnly(u) /\ dates' = dates
  <2>1. ledger' = Stopped(ledger, f, a.end) /\ a.end \in Stops
    BY <1>2, <1>6 DEF ReadStops
  <2>2. ledger' \in LedgerSet /\ ledger'.done = ledger.done
    BY <2>1, StoppedFields
  <2>3. QED
    BY <1>5, <1>6, <2>2, EmptySequence DEF ReadStops, ReadsOnly
<1>7. CASE ReadLost /\ ReadsOnly(u) /\ dates' = dates
  BY <1>5, <1>7, EmptySequence DEF ReadLost, ReadsOnly
<1>8. CASE ReadShort(u, a.end) /\ ReadsOnly(u) /\ dates' = dates
  <2>1. ledger' = Record(ledger, f, a.end) /\ step' \in {step, "end"} /\ todo' = Tail(todo)
    BY <1>2, <1>8 DEF ReadShort
  <2>2. Noted(ledger, ledger', f, a.end)
    BY <2>1, RecordFields
  <2>3. QED
    BY <1>3, <1>5, <1>8, <2>1, <2>2 DEF ReadsOnly, Noted, Keeps
<1>9. CASE SnapshotLost(u, a.end) /\ ReadsOnly(u) /\ dates' = dates
  <2> DEFINE r == Record(ledger, f, a.end)
  <2>1. ledger' = Drop(r, f, "ownerFailed") /\ step' = step
        /\ todo' = Among(Tail(todo), {v \in Left : v[1] # u[1] \/ IsOwner(v)})
    BY <1>2, <1>9 DEF SnapshotLost
  <2>2. Noted(ledger, r, f, a.end)
    BY RecordFields
  <2> HIDE DEF r
  <2>3. "ownerFailed" \in Reasons
    BY DEF Reasons, BlindReasons
  <2>4. ledger' \in LedgerSet /\ ledger'.done = ledger.done
    BY <2>1, <2>2, <2>3, DropMany DEF Noted, Keeps
  <2>5. IsSeq(todo') /\ ToSet(todo') \subseteq Units
    BY <1>3, <2>1, AmongElements
  <2>6. QED
    BY <1>5, <1>9, <2>1, <2>4, <2>5 DEF ReadsOnly
<1>10. CASE FellBack(u) /\ ReadsOnly(u) /\ dates' = dates
  <2>1. /\ todo' = [i \in DOMAIN Among(Repos, byOwner[u[2]]) |-> <<u[1], Among(Repos, byOwner[u[2]])[i]>>]
                   \o Tail(todo)
        /\ step' = step /\ ledger' = ledger /\ IsOwner(u) /\ byOwner[u[2]] \subseteq kept
    BY <1>10, TypeFacts DEF FellBack, FallsBack, IsOwner, owners
  <2>2. /\ IsSeq(todo')
        /\ \A v : v \in Left' <=> v \in ToSet(Tail(todo)) \/ \E x \in byOwner[u[2]] : v = <<u[1], x>>
    BY <1>3, <2>1, FallsBackElements
  <2>3. ToSet(todo') \subseteq Units
    <3> SUFFICES ASSUME NEW x \in kept
                 PROVE  <<f, x>> \in Units
      BY <1>2, <1>3, <2>1, <2>2 DEF Left
    <3>1. QED
      BY TypeFacts DEF Units
  <2>4. QED
    BY <1>5, <1>10, <2>1, <2>2, <2>3 DEF ReadsOnly
<1>11. CASE ReadUndated(u) /\ ReadsOnly(u)
  BY <1>3, <1>5, <1>11 DEF ReadUndated, ReadsOnly
<1>12. CASE Returned(u, a)
  <2>1. Returns(u, a) /\ step' = step /\ a.end \in {"whole", "cut", "empty", "none", "noHead", "tokenUnsupported"}
    BY <1>12 DEF Returned
  <2>2. ledger' \in LedgerSet /\ ledger'.done = ledger.done
    <3>1. u[1] \in Families
      BY <1>2
    <3>2. ReturnEffect(u, a)
      BY <2>1, <3>1, ReturnsFields
    <3>3. QED
      BY <3>2 DEF ReturnEffect, Keeps
  <2> DEFINE got == IF a.end \in {"whole", "cut"} THEN Lists(u) ELSE {}
  <2>3. /\ rows' = rows \cup IF f = "checks" THEN {} ELSE {<<f, x>> : x \in got \cap kept}
        /\ dates' \in {dates, dates \cup {"dated"}} /\ todo' = Tail(todo)
    BY <1>2, <2>1 DEF Returns
  <2> HIDE DEF got
  <2>4. rows' \subseteq Families \X (listed \ env.excluded)
    BY <2>3 DEF kept
  <2>5. QED
    BY <1>3, <1>5, <2>1, <2>2, <2>3, <2>4
<1>13. QED
  BY <1>1, <1>6, <1>7, <1>8, <1>9, <1>10, <1>11, <1>12

LEMMA TypeEnds ==
  ASSUME TypeInv,
         \/ EndReads \/ \E answer \in {"stored", "notDurable", "failed", "cut"} : Save(answer)
         \/ Publish \/ NextScan \/ \E how \in {"limit", "shutdown"} : CtxEnds(how)
  PROVE  TypeInv'
<1> USE TypeNow, StepNamed
<1>1. CASE EndReads
  <2> DEFINE g == Flag(ledger, {"timedOut"})
  <2>1. /\ ledger' = IF ledger.stop = "none" /\ ctx = "limit" THEN Halt(g, "scan_timeout") ELSE ledger
        /\ step' = "save" /\ rows' \subseteq rows
        /\ UNCHANGED <<env, todo, open, ctx, listed, byOwner, keptWhole, dates, faults>>
    BY <1>1 DEF EndReads, Approve
  <2>2. g \in LedgerSet
    BY FlagFields DEF Flags
  <2> HIDE DEF g
  <2>3. Halt(g, "scan_timeout") \in LedgerSet
    BY <2>2, HaltFields DEF StopReasons
  <2>4. ledger' \in LedgerSet
    BY <2>1, <2>3
  <2>5. ~Early'
    BY <2>1 DEF Early, Discovering
  <2>6. QED
    BY <2>1, <2>4, <2>5, TypeKept DEF Left
<1>2. ASSUME NEW answer \in {"stored", "notDurable", "failed", "cut"}, Save(answer)
      PROVE  TypeInv'
  <2>1. ledger' \in LedgerSet
    BY <1>2, SaveFields
  <2>2. /\ faults' \in {faults, faults + 1} /\ (faults' # faults => faults < MaxFaults) /\ step' = "saved"
        /\ UNCHANGED <<env, todo, open, ctx, listed, byOwner, keptWhole, rows, dates>>
    BY <1>2 DEF Save, scan
  <2>3. faults' \in 0..MaxFaults
    BY <2>2, MaxFaultsAssumption
  <2>4. ~Early'
    BY <2>2 DEF Early, Discovering
  <2>5. QED
    BY <2>1, <2>2, <2>3, <2>4, TypeKept DEF Left
<1>3. CASE Publish
  <2>1. /\ ledger' = IF ledger.stop = "none" THEN Derive(ledger) ELSE ledger
        /\ step' \in Ends
        /\ UNCHANGED <<env, todo, open, ctx, listed, byOwner, keptWhole, rows, dates, faults>>
    BY <1>3 DEF Publish, scan, Ends
  <2>2. ledger' \in LedgerSet
    BY <2>1, DeriveFields
  <2>3. ~Early' /\ step' \in StepNames
    BY <2>1 DEF Early, Discovering, Ends
  <2>4. QED
    BY <2>1, <2>2, <2>3, TypeKept DEF Left
<1>4. CASE NextScan
  <2>1. /\ step' = "open" /\ todo' = <<>> /\ ctx' = "live" /\ ledger' = NewLedger
        /\ listed' = {} /\ byOwner' = NoneFound /\ keptWhole' = Unset /\ rows' = {} /\ dates' = {}
        /\ faults' = 0 /\ env' \in Envs /\ open' = open
    BY <1>4 DEF NextScan
  <2>2. NewLedger \in LedgerSet
    BY DEF NewLedger, LedgerSet, Ledgers
  <2>3. faults' \in 0..MaxFaults
    BY <2>1, MaxFaultsAssumption
  <2>4. EmptyScan'
    BY <2>1 DEF EmptyScan
  <2>5. FoundType'
    BY <2>1 DEF FoundType, NoneFound, owners
  <2>6. QED
    BY <2>1, <2>2, <2>3, <2>4, <2>5, TypeKept, EmptySequence
<1>5. ASSUME NEW how \in {"limit", "shutdown"}, CtxEnds(how)
      PROVE  TypeInv'
  <2>1. ctx' = how /\ UNCHANGED <<env, step, todo, open, ledger, listed, byOwner, keptWhole, rows, dates, faults>>
    BY <1>5 DEF CtxEnds, scan
  <2>2. Early' => EmptyScan'
    BY <2>1 DEF Early, Discovering, EmptyScan
  <2>3. QED
    BY <2>1, <2>2, TypeKept DEF Left
<1>6. QED
  BY <1>1, <1>2, <1>3, <1>4, <1>5

LEMMA TypeStep ==
  ASSUME TypeInv, [Next]_vars
  PROVE  TypeInv'
<1>1. CASE UNCHANGED vars
  <2>1. UNCHANGED <<env, step, todo, open, ctx, ledger, listed, byOwner, keptWhole, rows, dates, faults>>
    BY <1>1 DEF vars, scan
  <2>2. Early' => EmptyScan'
    BY <2>1 DEF TypeInv, Early, Discovering, EmptyScan
  <2>3. QED
    BY <2>1, <2>2, TypeNow, TypeKept DEF Left
<1>2. QED
  BY <1>1, TypeOpens, TypeDiscovery, TypeSteps, TypeRead, TypeEnds DEF Next

(* Every variable has its type, and the rows are of kept repositories,
   whatever the forge answers and whenever a scan's context ends. *)
THEOREM ScanTypes == Spec => []TypeOK
<1>1. Init => TypeInv
  BY TypeInit
<1>2. TypeInv /\ [Next]_vars => TypeInv'
  BY TypeStep
<1>3. TypeInv => TypeOK
  BY DEF TypeInv
<1>4. QED
  BY <1>1, <1>2, <1>3, PTL DEF Spec

-----------------------------------------------------------------------------
(* The steps of a scan, its ledger, what is still to read and what discovery
   answered. *)

InReads == Gated \cup ReadsSteps \cup {"discover"}

LEMMA LedgerGrows ==
  ASSUME LedgerInv, env' = env,
         ledger'.done \subseteq ledger'.begun, ledger.begun \subseteq ledger'.begun,
         \A d \in ledger'.drops : d \in ledger.drops \/ DropFits(ledger', d),
         ledger.stop # "none" => ledger'.stop # "none",
         ledger'.off = ledger.off, ledger'.unsupported = ledger.unsupported,
         "security" \in ledger'.begun => "security" \in ledger.begun \/ env.security,
         step' \in InReads => step \in InReads
  PROVE  LedgerInv'
<1>1. ASSUME NEW d \in ledger'.drops
      PROVE  DropFits(ledger', d)
  <2>1. CASE d \in ledger.drops
    <3>1. DropFits(ledger, d)
      BY <2>1 DEF LedgerInv
    <3>2. QED
      BY <3>1 DEF DropFits
  <2>2. QED
    BY <1>1, <2>1
<1>2. (\A d \in ledger.drops : DropFits(ledger, d))'
  BY <1>1
<1>3. ledger'.off \cap ledger'.begun = {}
  BY DEF LedgerInv
<1>4. QED
  BY <1>2, <1>3 DEF LedgerInv, InReads

LEMMA NoReads ==
  ASSUME todo = <<>>
  PROVE  TodoInv
BY EmptySequence DEF TodoInv, Left

LEMMA CoreInit ==
  ASSUME Init
  PROVE  CoreInv
<1>1. /\ env \in Envs /\ step = "open" /\ todo = <<>> /\ ctx = "live" /\ ledger = NewLedger
      /\ listed = {} /\ byOwner = NoneFound /\ keptWhole = Unset /\ rows = {} /\ dates = {} /\ whole = {}
  BY DEF Init, Fresh
<1>2. /\ ledger.begun = {} /\ ledger.done = {} /\ ledger.unsupported = {} /\ ledger.off = {}
      /\ ledger.drops = {} /\ ledger.unresolved = {} /\ ledger.stop = "none"
  BY <1>1 DEF NewLedger
<1>3. StepInv
  BY <1>1, <1>2 DEF StepInv, Gated, ReadsSteps, Discovering, EmptyScan
<1>4. LedgerInv
  BY <1>1, <1>2 DEF LedgerInv, Gated, ReadsSteps
<1>5. EndInv
  BY <1>1 DEF EndInv, Closed, Ends
<1>6. ReposInv
  BY <1>1, <1>2 DEF ReposInv, EmptyScan, FoundInv, kept
<1>7. QED
  BY <1>1, <1>3, <1>4, <1>5, <1>6, NoReads DEF CoreInv

(* The connection does not open. *)
LEMMA CoreUnopened ==
  ASSUME TypeInv, EmptyScan', whole' = {}, step' = "unopened", env' = env, ctx' = ctx,
         NEW l \in LedgerSet, NEW err \in Errors \cup {"connection", "ended", "refused"},
         ledger' = OpenFailure(l, err),
         l.begun = {}, l.done = {}, l.drops = {}, l.unresolved = {}, l.off \subseteq {"security"},
         l.off # {} => ~env.security, ("runs" \in l.unsupported) <=> ("failing" \in l.unsupported),
         l.unsupported \cap {"repos", "prs", "issues", "state"} = {}
  PROVE  CoreInv'
<1> DEFINE m == OpenFailure(l, err)
<1>1. /\ m \in LedgerSet /\ Keeps(l, m)
      /\ l.begun \subseteq m.begun /\ m.begun \subseteq l.begun \cup {"repos"}
      /\ l.drops \subseteq m.drops
      /\ \A d \in m.drops \ l.drops :
            d[1] \in m.begun /\ d[2] \in {"stopped", "failed", "refused"} /\ (m.stop = "none" => d[2] # "stopped")
      /\ \A f \in m.begun \ m.done : f \in l.begun \/ Dropped(m, f, {"failed", "refused", "stopped"})
  BY OpenFailureFields
<1>2. ledger' = m
  OBVIOUS
<1> HIDE DEF m
<1>3. /\ ledger'.done = {} /\ ledger'.unresolved = {} /\ ledger'.off = l.off
      /\ ledger'.unsupported = l.unsupported /\ ledger'.begun \subseteq {"repos"}
      /\ \A d \in ledger'.drops : DropFits(ledger', d)
      /\ \A f \in ledger'.begun : Dropped(ledger', f, {"failed", "refused", "stopped"})
  BY <1>1, <1>2 DEF Keeps, DropFits
<1>4. StepInv'
  BY <1>3 DEF StepInv, Gated, ReadsSteps, Discovering, EmptyScan
<1>5. LedgerInv'
  BY <1>3 DEF LedgerInv, Gated, ReadsSteps
<1>6. EndInv'
  BY DEF EndInv, Closed, Ends
<1>7. ReposInv'
  BY <1>3 DEF ReposInv, EmptyScan, ReadFamilies, FoundInv, kept
<1>8. TodoInv'
  <2>1. Left' = {}
    BY EmptySequence DEF EmptyScan, Left
  <2>2. QED
    BY <2>1 DEF TodoInv
<1>9. QED
  BY <1>4, <1>5, <1>6, <1>7, <1>8 DEF CoreInv

LEMMA CoreOpens ==
  ASSUME TypeInv, CoreInv,
         \/ \E err \in Errors \cup {"connection", "ended"}, named \in BOOLEAN : OpenFails(err, named)
         \/ Opens \/ SharesAccount \/ GateCut \/ StartReads
  PROVE  CoreInv'
<1>1. /\ step \in {"open"} \cup Gated
      /\ UNCHANGED <<listed, byOwner, keptWhole, rows, dates, todo, env, ctx>>
  BY DEF OpenFails, Opens, SharesAccount, GateCut, StartReads, scan, Gated
<1>2. /\ EmptyScan /\ whole = {} /\ ledger \in LedgerSet /\ env.security \in BOOLEAN
      /\ ledger.begun = {} /\ ledger.done = {} /\ ledger.ok = {} /\ ledger.drops = {}
      /\ ledger.unresolved = {} /\ ledger.stop = "none" /\ "opened" \notin ledger.flags
      /\ ledger.flags \subseteq {"github", "opened"}
  <2>1. CASE step = "open"
    BY <2>1, TypeFacts DEF CoreInv, StepInv, NewLedger
  <2>2. CASE step \in Gated
    BY <2>2, TypeFacts DEF CoreInv, StepInv, Untouched
  <2>3. QED
    BY <1>1, <2>1, <2>2
<1>3. EmptyScan' /\ todo' = <<>>
  BY <1>1, <1>2 DEF EmptyScan
<1>4. /\ ledger.off \subseteq {"security"}
      /\ ledger.off # {} => ~env.security
      /\ ("runs" \in ledger.unsupported) <=> ("failing" \in ledger.unsupported)
      /\ ledger.unsupported \cap {"repos", "prs", "issues", "state"} = {}
  BY DEF CoreInv, LedgerInv
<1>5. TodoInv'
  <2>1. Left' = {}
    BY <1>3, EmptySequence DEF Left
  <2>2. QED
    BY <2>1 DEF TodoInv
<1> DEFINE c == Classify(ledger, env.product, env.security)
<1>6. /\ c \in LedgerSet
      /\ c.unsupported = ledger.unsupported \cup (IF env.product = "plain" THEN {"checks"} ELSE {})
                                            \cup (IF env.product = "github" THEN {} ELSE {"security", "workflows"})
      /\ c.off = (IF env.product = "github" /\ ~env.security THEN {"security"} ELSE {})
      /\ c.flags = ledger.flags \cup (IF env.product = "github" THEN {"github"} ELSE {})
      /\ c.begun = {} /\ c.ok = {} /\ c.done = {} /\ c.drops = {}
      /\ c.unresolved = {} /\ c.stop = "none"
  BY <1>2, ClassifyFields
<1> HIDE DEF c
<1>7. /\ c.off \subseteq {"security"}
      /\ c.off # {} => ~env.security
      /\ ("runs" \in c.unsupported) <=> ("failing" \in c.unsupported)
      /\ c.unsupported \cap {"repos", "prs", "issues", "state"} = {}
      /\ c.flags \subseteq {"github", "opened"} /\ "opened" \notin c.flags
      /\ env.product # "github" => {"security", "workflows"} \subseteq c.unsupported
      /\ env.product = "github" /\ ~env.security => "security" \in c.off
  BY <1>2, <1>4, <1>6
<1>8. ASSUME NEW err \in Errors \cup {"connection", "ended"}, NEW named \in BOOLEAN, OpenFails(err, named)
      PROVE  CoreInv'
  <2> DEFINE l == IF named THEN c ELSE ledger
  <2>1. ledger' = OpenFailure(l, err) /\ step' = "unopened" /\ whole' = whole
    BY <1>8 DEF OpenFails, c
  <2>2. /\ l \in LedgerSet /\ l.begun = {} /\ l.done = {} /\ l.drops = {} /\ l.unresolved = {}
        /\ l.off \subseteq {"security"}
        /\ l.off # {} => ~env.security
        /\ (("runs" \in l.unsupported) <=> ("failing" \in l.unsupported))
        /\ l.unsupported \cap {"repos", "prs", "issues", "state"} = {}
    BY <1>2, <1>4, <1>6, <1>7
  <2> HIDE DEF l
  <2>3. QED
    BY <1>1, <1>2, <1>3, <2>1, <2>2, CoreUnopened
<1>9. CASE SharesAccount
  <2>1. ledger' = OpenFailure(ledger, "connection") /\ step' = "unopened" /\ whole' = whole
    BY <1>9 DEF SharesAccount
  <2>2. QED
    BY <1>1, <1>2, <1>3, <1>4, <2>1, CoreUnopened
<1>10. CASE Opens
  <2>1. ledger' = c /\ step' \in Gated /\ whole' = whole
    BY <1>10 DEF Opens, Gated, c
  <2>2. StepInv'
    BY <1>2, <1>3, <1>6, <1>7, <2>1 DEF StepInv, Gated, ReadsSteps, Discovering, Untouched
  <2>3. LedgerInv'
    BY <1>1, <1>6, <1>7, <2>1 DEF LedgerInv
  <2>4. EndInv'
    BY <2>1 DEF EndInv, Closed, Ends, Gated
  <2>5. ReposInv'
    BY <1>3, <1>6, <2>1 DEF ReposInv, EmptyScan, FoundInv, kept
  <2>6. QED
    BY <1>5, <2>2, <2>3, <2>4, <2>5 DEF CoreInv
<1>11. CASE GateCut
  <2>1. ledger' = ledger /\ step' = "end" /\ whole' = whole
    BY <1>11 DEF GateCut
  <2>2. StepInv'
    BY <1>3, <2>1 DEF StepInv, Gated, ReadsSteps, Discovering
  <2>3. LedgerInv'
    BY <1>1, <2>1 DEF CoreInv, LedgerInv, Gated, ReadsSteps
  <2>4. EndInv'
    BY <2>1 DEF EndInv, Closed, Ends
  <2>5. ReposInv'
    BY <1>2, <1>3, <2>1 DEF ReposInv, EmptyScan, FoundInv, kept
  <2>6. QED
    BY <1>5, <2>2, <2>3, <2>4, <2>5 DEF CoreInv
<1>12. CASE StartReads
  <2> DEFINE l == IF step = "opened" THEN Flag(ledger, {"opened"}) ELSE ledger
  <2>1. /\ ledger' = Begin(l, {"repos"}) /\ step' = "discover" /\ whole' \subseteq {<<"open", env.product>>}
        /\ step \in Gated
    BY <1>12 DEF StartReads, Gated
  <2>2. /\ l \in LedgerSet /\ Keeps(ledger, l) /\ l.begun = {} /\ l.ok = {} /\ l.drops = {} /\ l.stop = "none"
        /\ l.flags \subseteq {"github", "opened"}
    <3>1. CASE step = "opened"
      <4>1. l = Flag(ledger, {"opened"}) /\ {"opened"} \in SUBSET Flags
        BY <3>1 DEF Flags
      <4> HIDE DEF l
      <4>2. QED
        BY <1>2, <4>1, FlagFields DEF Keeps
    <3>2. CASE step # "opened"
      BY <1>2, <3>2 DEF Keeps
    <3>3. QED
      BY <3>1, <3>2
  <2> HIDE DEF l
  <2>3. /\ ledger'.begun = {"repos"} /\ ledger'.done = {} /\ ledger'.ok = {} /\ ledger'.drops = {}
        /\ ledger'.stop = "none" /\ ledger'.unresolved = {} /\ ledger'.off = ledger.off
        /\ ledger'.unsupported = ledger.unsupported /\ ledger'.flags \subseteq {"github", "opened"}
    BY <1>2, <2>1, <2>2, BeginFields DEF Keeps, Families
  <2>4. StepInv'
    BY <1>1, <1>3, <2>1, <2>3 DEF StepInv, Gated, ReadsSteps, Discovering, Untouched
  <2>5. LedgerInv'
    BY <1>1, <1>4, <2>1, <2>3 DEF CoreInv, LedgerInv, Gated, ReadsSteps
  <2>6. EndInv'
    BY <2>1 DEF EndInv, Closed, Ends
  <2>7. ReposInv'
    BY <1>3, <2>1, <2>3 DEF ReposInv, EmptyScan, ReadFamilies, FoundInv, kept
  <2>8. QED
    BY <1>5, <2>4, <2>5, <2>6, <2>7 DEF CoreInv
<1>13. QED
  BY <1>8, <1>9, <1>10, <1>11, <1>12

(* Discovery fails, or the scan's context ended under it. *)
FailedDiscovery ==
    /\ EmptyScan /\ whole \subseteq {<<"open", env.product>>} /\ step' = "end" /\ todo' = <<>>
    /\ UNCHANGED <<env, ctx, listed, byOwner, keptWhole, rows, dates, whole>>
    /\ ledger'.begun = {"repos"} /\ ledger'.done = {} /\ ledger'.unresolved = {}
    /\ ledger'.off = ledger.off /\ ledger'.unsupported = ledger.unsupported
    /\ \A d \in ledger'.drops : DropFits(ledger', d)
    /\ \/ Dropped(ledger', "repos", {"failed", "refused", "stopped"})
       \/ ctx # "live" /\ ledger'.stop = "none"
    /\ {"timedOut", "opened"} \cap ledger'.flags \subseteq ledger.flags
    /\ ledger.flags \subseteq ledger'.flags
    /\ "rateLimited" \in ledger'.flags => ledger'.stop # "none"

LEMMA DiscoveryFailsFields ==
  ASSUME TypeInv, CoreInv, NEW err \in Failures, DiscoveryFails(err)
  PROVE  FailedDiscovery
<1> DEFINE r == Record(ledger, "repos", err)
           l == Flag(r, {"connFailed"})
<1>1. /\ Failed("repos", err, l, <<>>) /\ Discovering
      /\ UNCHANGED <<env, ctx, listed, byOwner, keptWhole, rows, dates, whole>>
  BY DEF DiscoveryFails, scan
<1>2. /\ step' = "end" /\ todo' = <<>>
      /\ \/ err \in Stops /\ ledger' = Stopped(ledger, "repos", err)
         \/ ctx # "live" /\ ledger' = ledger
         \/ err \notin Stops /\ ledger' = l
  <2> HIDE DEF l
  <2>1. QED
    BY <1>1, FailedEffect
<1>3. /\ EmptyScan /\ ledger \in LedgerSet /\ "repos" \in Families
      /\ ledger.begun = {"repos"} /\ ledger.done = {} /\ ledger.ok = {} /\ ledger.drops = {}
      /\ ledger.unresolved = {} /\ ledger.stop = "none" /\ ledger.flags \subseteq {"github", "opened"}
  BY <1>1, TypeFacts DEF CoreInv, StepInv, Untouched, Families
<1>4. /\ ledger'.begun = {"repos"} /\ ledger'.done = {} /\ ledger'.unresolved = {}
      /\ ledger'.off = ledger.off /\ ledger'.unsupported = ledger.unsupported
      /\ \A d \in ledger'.drops : DropFits(ledger', d)
      /\ \/ Dropped(ledger', "repos", {"failed", "refused", "stopped"})
         \/ ctx # "live" /\ ledger'.stop = "none"
      /\ {"timedOut", "opened"} \cap ledger'.flags \subseteq ledger.flags
      /\ ledger.flags \subseteq ledger'.flags
      /\ "rateLimited" \in ledger'.flags => ledger'.stop # "none"
  <2>1. CASE err \in Stops /\ ledger' = Stopped(ledger, "repos", err)
    <3> DEFINE m == Stopped(ledger, "repos", err)
    <3>1. /\ m.stop \in {"rate_limited", "read_reserve"}
          /\ ledger.begun \subseteq m.begun /\ m.begun \subseteq ledger.begun \cup {"repos"}
          /\ \A d \in m.drops \ ledger.drops : d[1] \in m.begun /\ d[2] \in {"stopped", "failed"}
          /\ \A g \in m.begun \ m.done : <<g, "stopped">> \in m.drops
          /\ Keeps(ledger, m)
          /\ ledger.flags \subseteq m.flags
          /\ m.flags \cap {"github", "opened", "timedOut", "connFailed"}
               = ledger.flags \cap {"github", "opened", "timedOut", "connFailed"}
      BY <1>3, <2>1, StoppedFields DEF Keeps
    <3> HIDE DEF m
    <3>2. ledger' = m
      BY <2>1 DEF m
    <3>3. Keeps(ledger, ledger') /\ ledger'.begun = {"repos"} /\ ledger'.done = {}
      BY <1>3, <3>1, <3>2 DEF Keeps
    <3>4. \A d \in ledger'.drops : DropFits(ledger', d)
      BY <1>3, <3>1, <3>2 DEF DropFits
    <3>5. Dropped(ledger', "repos", {"failed", "refused", "stopped"})
      BY <1>3, <3>1, <3>2, <3>3 DEF Dropped
    <3>6. {"timedOut", "opened"} \cap ledger'.flags \subseteq ledger.flags /\ ledger.flags \subseteq ledger'.flags
          /\ ledger'.stop # "none"
      BY <3>1, <3>2
    <3>7. QED
      BY <1>3, <3>3, <3>4, <3>5, <3>6 DEF Keeps
  <2>2. CASE ctx # "live" /\ ledger' = ledger
    BY <1>3, <2>2
  <2>3. CASE err \notin Stops /\ ledger' = l
    <3>1. Noted(ledger, r, "repos", err) /\ Told(ledger, r, err)
      BY <1>3, RecordFields
    <3>2. r \in LedgerSet /\ Keeps(ledger, r) /\ r.begun = {"repos"} /\ r.drops = Shortfall("repos", err)
      BY <1>3, <3>1 DEF Noted
    <3> HIDE DEF r
    <3>3. /\ Keeps(r, ledger') /\ ledger'.begun = r.begun /\ ledger'.drops = r.drops
      BY <2>3, <3>2, FlagFields DEF Keeps, Flags
    <3>4. err # "whole" /\ err # "none" /\ err # "cut"
      BY DEF Failures, Errors, Stops
    <3>5. Shortfall("repos", err) \in {{<<"repos", "failed">>}, {<<"repos", "refused">>}}
      BY <3>4 DEF Shortfall
    <3>6. Dropped(ledger', "repos", {"failed", "refused", "stopped"})
      BY <3>2, <3>3, <3>5 DEF Dropped
    <3>7. \A d \in ledger'.drops : DropFits(ledger', d)
      BY <3>2, <3>3, <3>5 DEF DropFits
    <3>8. /\ {"timedOut", "opened"} \cap ledger'.flags \subseteq ledger.flags /\ ledger.flags \subseteq ledger'.flags
          /\ "rateLimited" \notin ledger'.flags
      <4>1. ledger'.flags = r.flags \cup {"connFailed"}
        BY <2>3, <3>2, FlagFields DEF Flags
      <4>2. err # "limited"
        BY <2>3 DEF Stops
      <4>3. QED
        BY <1>3, <3>1, <4>1, <4>2 DEF Told, Tracked
    <3>9. QED
      BY <1>3, <3>2, <3>3, <3>6, <3>7, <3>8 DEF Keeps
  <2>4. QED
    BY <1>2, <2>1, <2>2, <2>3
<1>5. whole \subseteq {<<"open", env.product>>}
  BY <1>1 DEF CoreInv, StepInv
<1>6. QED
  BY <1>1, <1>2, <1>3, <1>4, <1>5 DEF FailedDiscovery

LEMMA CoreDiscoveryFails ==
  ASSUME TypeInv, CoreInv, NEW err \in Failures, DiscoveryFails(err)
  PROVE  CoreInv'
<1>1. FailedDiscovery
  BY DiscoveryFailsFields
<1>2. EmptyScan' /\ TodoInv'
  <2>1. EmptyScan'
    BY <1>1 DEF FailedDiscovery, EmptyScan
  <2>2. Left' = {}
    BY <1>1, EmptySequence DEF FailedDiscovery, Left
  <2>3. QED
    BY <2>1, <2>2 DEF TodoInv
<1>3. StepInv'
  BY <1>1, <1>2 DEF FailedDiscovery, StepInv, Gated, ReadsSteps, Discovering
<1>4. LedgerInv'
  BY <1>1 DEF FailedDiscovery, CoreInv, LedgerInv, Gated, ReadsSteps
<1>5. EndInv'
  BY <1>1 DEF FailedDiscovery, EndInv, Closed, Ends
<1>6. ReposInv'
  <2>1. "repos" \in ledger'.begun \ ledger'.done =>
          Lost' \/ Dropped(ledger', "repos", {"failed", "refused", "stopped"})
    BY <1>1 DEF FailedDiscovery, Lost
  <2>2. QED
    BY <1>1, <1>2, <2>1 DEF FailedDiscovery, ReposInv, EmptyScan, ReadFamilies, FoundInv, kept
<1>7. QED
  BY <1>2, <1>3, <1>4, <1>5, <1>6 DEF CoreInv

LEMMA LiveIs == \A x : x \in Live <=> \E o \in owners : x \in OwnedBy[o] \ env.late
BY DEF Live, owners

LEMMA CoreDiscovered ==
  ASSUME TypeInv, CoreInv, Discovered
  PROVE  CoreInv'
<1> DEFINE cuts(ends) == \E o \in owners : ends[o] = "cut"
           none(ends) == {o \in owners : ends[o] = "unresolved"}
<1>1. PICK ends \in [owners -> ({Listing(p) : p \in RepoPages} \cap {"whole", "cut"}) \cup {"unresolved"}],
           got \in [owners -> SUBSET repos] :
         /\ \A o \in owners :
               /\ got[o] \subseteq OwnedBy[o] \ env.late
               /\ ends[o] = "whole" => got[o] = OwnedBy[o] \ env.late
               /\ ends[o] = "unresolved" => got[o] = {}
         /\ Discovers(ends, got)
  BY DEF Discovered, owners, repos
<1>2. /\ UNCHANGED <<env, step, todo, ctx, rows, dates>> /\ Discovering
  BY DEF Discovered
<1>3. /\ EmptyScan /\ ledger \in LedgerSet /\ step = "discover"
      /\ ledger.begun = {"repos"} /\ ledger.done = {} /\ ledger.ok = {} /\ ledger.drops = {}
      /\ ledger.unresolved = {} /\ ledger.stop = "none"
  BY <1>2, TypeFacts DEF CoreInv, StepInv, Untouched, Discovering
<1>4. DOMAIN ends = owners /\ \A o \in owners : ends[o] \in {"whole", "cut", "unresolved"}
  BY <1>1
<1> DEFINE unresolved == none(ends)
           cut == cuts(ends)
<1>5. /\ ledger' \in LedgerSet
      /\ ledger'.begun = {"repos"} /\ ledger'.done = {"repos"}
      /\ ledger'.off = ledger.off /\ ledger'.unsupported = ledger.unsupported
      /\ ledger'.stop = ledger.stop
      /\ ledger'.ok = (IF cut THEN {} ELSE {"repos"})
      /\ ledger'.unresolved = unresolved
      /\ cut => <<"repos", "cut">> \in ledger'.drops
      /\ unresolved # {} => <<"repos", "unresolved">> \in ledger'.drops
      /\ \A d \in ledger'.drops : d[1] = "repos" /\ d[2] \in {"cut", "unresolved", "noRepos", "excludedRepo"}
  BY <1>1, <1>3, <1>4, DiscoversFields
<1>6. /\ listed' = UNION {got[o] : o \in owners}
      /\ byOwner' = [o \in owners |-> got[o] \ env.excluded]
      /\ keptWhole' = IF ~cut /\ unresolved = {} THEN listed' \ env.excluded ELSE Unset
      /\ whole' = whole \cup {<<"repos", o>> : o \in {p \in owners : ends[p] = "whole"}}
  BY <1>1, <1>4 DEF Discovers, KeepsWhole
<1>7. \A o \in owners : ends[o] = "whole" => <<"repos", o>> \in whole' /\ OwnedBy[o] \ env.late \subseteq listed'
  BY <1>1, <1>6
<1>8. \A x \in listed' : \E o \in owners \ unresolved : x \in OwnedBy[o] /\ x \in got[o]
  BY <1>1, <1>6
<1>9. \A o \in owners \ unresolved : ~cut => ends[o] = "whole"
  BY <1>4
<1>10. keptWhole' # Unset => Live \ env.excluded \subseteq keptWhole'
  <2> SUFFICES ASSUME keptWhole' # Unset, NEW x \in Live \ env.excluded
               PROVE  x \in keptWhole'
    OBVIOUS
  <2>1. ~cut /\ unresolved = {} /\ keptWhole' = listed' \ env.excluded
    <3> HIDE DEF cut, unresolved
    <3>1. QED
      BY <1>6
  <2>2. PICK o \in owners : x \in OwnedBy[o] \ env.late
    BY LiveIs
  <2>3. ends[o] = "whole"
    BY <1>9, <2>1
  <2>4. QED
    BY <1>7, <2>1, <2>2, <2>3
<1> HIDE DEF cut, unresolved
<1>11. StepInv'
  BY <1>2, <1>3, <1>5 DEF StepInv, Gated, ReadsSteps, Discovering, EmptyScan
<1>12. LedgerInv'
  <2>1. \A d \in ledger'.drops : DropFits(ledger', d)
    BY <1>5 DEF DropFits
  <2>2. QED
    BY <1>2, <1>3, <1>5, <2>1, LedgerGrows DEF CoreInv
<1>13. TodoInv'
  <2>1. Left' = {}
    BY <1>2, <1>3, EmptySequence DEF Left, EmptyScan
  <2>2. QED
    BY <2>1 DEF TodoInv
<1>14. EndInv'
  BY <1>2, <1>3 DEF EndInv, Closed, Ends
<1>15. ReposInv'
  <2>1. ~Dropped(ledger', "repos", {"cut"}) => ~cut
    BY <1>5 DEF Dropped
  <2>2. unresolved # {} => Dropped(ledger', "repos", {"unresolved"})
    BY <1>5 DEF Dropped
  <2>3. Answered(ledger', "repos")
    BY <1>5 DEF Answered, Dropped
  <2>4. /\ (\A x \in listed : \E o \in owners \ ledger.unresolved : x \in OwnedBy[o])'
    BY <1>5, <1>8
  <2>5. ~cut => \A o \in owners \ unresolved : <<"repos", o>> \in whole' /\ OwnedBy[o] \ env.late \subseteq listed'
    BY <1>7, <1>9
  <2>6. Live' = Live
    BY <1>2 DEF Live
  <2>7. FoundInv'
    <3> SUFFICES ASSUME NEW x \in kept'
                 PROVE  \E o \in owners \ unresolved : x \in byOwner'[o]
      BY <1>5 DEF FoundInv
    <3>1. PICK o \in owners \ unresolved : x \in got[o]
      BY <1>8 DEF kept
    <3>2. x \in byOwner'[o]
      BY <1>2, <1>6, <3>1 DEF kept
    <3>3. QED
      BY <3>1, <3>2
  <2>8. QED
    BY <1>2, <1>5, <1>10, <2>1, <2>2, <2>3, <2>4, <2>5, <2>6, <2>7 DEF ReposInv
<1>16. QED
  BY <1>11, <1>12, <1>13, <1>14, <1>15 DEF CoreInv

(* What decides whether the checks are read. *)
LEMMA ChecksSame ==
  ASSUME NEW l, NEW m, m.unsupported = l.unsupported, m.off = l.off,
         \A f \in {"repos", "prs"} : (f \in m.begun <=> f \in l.begun) /\ (f \in m.ok <=> f \in l.ok),
         l.drops \subseteq m.drops, \A d \in m.drops \ l.drops : d[1] \notin {"repos", "prs"}
  PROVE  ReadsChecks(m) <=> ReadsChecks(l)
<1>1. ASSUME NEW f \in {"repos", "prs"}, NEW rs
      PROVE  Dropped(m, f, rs) <=> Dropped(l, f, rs)
  <2>1. ASSUME NEW r, <<f, r>> \in m.drops
        PROVE  <<f, r>> \in l.drops
    <3>1. <<f, r>>[1] = f
      OBVIOUS
    <3>2. QED
      BY <2>1, <3>1
  <2>2. QED
    BY <2>1 DEF Dropped
<1>2. ASSUME NEW f \in {"repos", "prs"}
      PROVE  Blind(m, f) <=> Blind(l, f)
  BY <1>1 DEF Blind, Answered
<1>3. ASSUME NEW f \in {"repos", "prs"}
      PROVE  OwnState(m, f) = OwnState(l, f)
  BY <1>1, <1>2 DEF OwnState
<1>4. OwnState(m, "repos") = OwnState(l, "repos") /\ OwnState(m, "prs") = OwnState(l, "prs")
  BY <1>3
<1>5. State(m)["prs"] = State(l)["prs"]
  BY <1>4, StateIs
<1>6. Withheld(m, "prs") <=> Withheld(l, "prs")
  BY <1>1, <1>5 DEF Withheld
<1>7. QED
  BY <1>6 DEF ReadsChecks

LEMMA ReadingSame ==
  ASSUME NEW s, NEW l, NEW m, s = "checks" => (ReadsChecks(m) => ReadsChecks(l))
  PROVE  Reading(s, m) \subseteq Reading(s, l)
BY DEF Reading

(* A read, or one passed by, that begins no family. *)
LEMMA CoreReads ==
  ASSUME TypeInv, CoreInv, step \in ReadsSteps, step' \in {step, "end"},
         UNCHANGED <<env, ctx, listed, byOwner, keptWhole>>, whole \subseteq whole',
         Keeps(ledger, ledger'), ledger'.begun = ledger.begun,
         ledger.drops \subseteq ledger'.drops, ledger.ok \subseteq ledger'.ok,
         \A d \in ledger'.drops : d \in ledger.drops \/ DropFits(ledger', d),
         step' = "end" => todo' = <<>>,
         step' = step => ledger'.stop = ledger.stop,
         ledger.stop # "none" => ledger'.stop # "none",
         step' = "checks" => (ReadsChecks(ledger') => ReadsChecks(ledger)),
         \A v \in Left' : \/ v \in Left
                          \/ v[1] \in {"prs", "issues"} \cap FamiliesOf(step) \cap ledger.begun /\ ~IsOwner(v) /\ v[2] \in kept
  PROVE  CoreInv'
<1>1. step' = "end" \/ step' = step
  OBVIOUS
<1>2. ledger'.done = ledger.done /\ ledger'.off = ledger.off
      /\ ledger'.unsupported = ledger.unsupported /\ ledger'.unresolved = ledger.unresolved
  BY DEF Keeps
<1>3. "repos" \in ledger.done /\ ledger.stop = "none" /\ Reading(step, ledger) \subseteq ledger.begun
      /\ (step = "snapshots" => "checks" \notin ledger.begun)
  BY DEF CoreInv, StepInv
<1>4. step' = step => Reading(step, ledger') \subseteq Reading(step, ledger)
  <2>1. CASE step' = step
    <3>1. step = "checks" => (ReadsChecks(ledger') => ReadsChecks(ledger))
      BY <2>1
    <3>2. Reading(step, ledger') \subseteq Reading(step, ledger)
      BY <3>1, ReadingSame
    <3>3. QED
      BY <3>2
  <2>2. QED
    BY <2>1
<1>5. StepInv'
  <2>1. CASE step' = "end"
    BY <2>1 DEF StepInv, Gated, ReadsSteps, Discovering
  <2>2. CASE step' = step
    <3>1. Reading(step', ledger') \subseteq ledger'.begun
      BY <1>3, <1>4, <2>2
    <3>2. step' \notin {"open", "unopened", "discover"} \cup Gated /\ step' \in ReadsSteps
      BY <2>2 DEF Gated, ReadsSteps
    <3>3. Reading(step, ledger)' = Reading(step', ledger')
      BY DEF Reading, ReadsChecks
    <3>4. Reading(step, ledger)' \subseteq ledger'.begun
      BY <3>1, <3>3
    <3>5. "repos" \in ledger'.done /\ ledger'.stop = "none" /\ (step' = "snapshots" => "checks" \notin ledger'.begun)
      BY <1>2, <1>3, <2>2
    <3>6. step' \in ReadsSteps => (Reading(step, ledger) \subseteq ledger.begun)'
      BY <3>4
    <3>7. ~Discovering' /\ step' # "discover"
      BY <3>2 DEF Discovering
    <3>8. QED
      BY <3>2, <3>5, <3>6, <3>7 DEF StepInv
  <2>3. QED
    BY <1>1, <2>1, <2>2
<1>6. LedgerInv'
  <2>1. ledger'.done \subseteq ledger'.begun
    BY <1>2 DEF CoreInv, LedgerInv
  <2>2. step' \in InReads => step \in InReads
    BY DEF InReads
  <2>3. QED
    BY <1>2, <2>1, <2>2, LedgerGrows DEF CoreInv
<1>7. TodoInv'
  <2>1. CASE step' = "end"
    <3>1. Left' = {}
      BY <2>1, EmptySequence DEF Left
    <3>2. QED
      BY <3>1 DEF TodoInv
  <2>2. CASE step' = step
    <3>1. kept' = kept
      BY DEF kept
    <3> SUFFICES ASSUME NEW v \in Left'
                 PROVE  /\ v[1] \in FamiliesOf(step) \cap ledger.begun
                        /\ IsOwner(v) => v[1] \in {"prs", "issues"}
                        /\ ~IsOwner(v) => v[2] \in kept
                        /\ v[1] = "security" => env.security
      BY <2>2, <3>1 DEF TodoInv
    <3>2. CASE v \in Left
      BY <3>2 DEF CoreInv, TodoInv
    <3>3. CASE v \notin Left
      BY <3>3
    <3>4. QED
      BY <3>2, <3>3
  <2>3. QED
    BY <1>1, <2>1, <2>2
<1>8. EndInv'
  <2>1. step' \notin Closed /\ step' \notin {"complete", "stopped"}
    BY DEF Closed, Ends, ReadsSteps
  <2>2. QED
    BY <2>1 DEF EndInv
<1>9. ReposInv'
  <2>1. ASSUME NEW rs, Dropped(ledger, "repos", rs)
        PROVE  Dropped(ledger', "repos", rs)
    BY <2>1 DEF Dropped
  <2>2. Answered(ledger', "repos")
    BY <1>3, <2>1 DEF CoreInv, ReposInv, Answered
  <2>3. ~Dropped(ledger', "repos", {"cut"}) =>
          \A o \in owners \ ledger.unresolved : <<"repos", o>> \in whole' /\ OwnedBy[o] \ env.late \subseteq listed
    BY <1>3, <2>1 DEF CoreInv, ReposInv
  <2>4. ledger.unresolved # {} => Dropped(ledger', "repos", {"unresolved"})
    BY <2>1 DEF CoreInv, ReposInv
  <2>5. Live' = Live
    BY DEF Live
  <2>6. QED
    BY <1>2, <1>3, <2>2, <2>3, <2>4, <2>5 DEF CoreInv, ReposInv, FoundInv, kept
<1>10. QED
  BY <1>5, <1>6, <1>7, <1>8, <1>9 DEF CoreInv

(* A read of a step: whose it is. *)
LEMMA ReadsHead ==
  ASSUME TypeInv, CoreInv, NEW u \in Left
  PROVE  /\ step \in ReadsSteps /\ u \in Units /\ u[1] \in Families /\ u[1] \in ledger.begun /\ u[1] \in FamiliesOf(step)
         /\ u[1] \in ReadFamilies /\ (step = "checks" => u[1] = "checks")
         /\ IsOwner(u) => u[1] \in {"prs", "issues"}
         /\ ~IsOwner(u) => u[2] \in kept
<1>1. todo # <<>>
  BY EmptySequence DEF Left
<1>2. step \in ReadsSteps
  BY <1>1 DEF CoreInv, StepInv
<1>3. u[1] \in FamiliesOf(step) \cap ledger.begun /\ (IsOwner(u) => u[1] \in {"prs", "issues"})
      /\ (~IsOwner(u) => u[2] \in kept)
  BY DEF CoreInv, TodoInv
<1>4. u \in Units
  BY TypeFacts
<1>5. u[1] \in ReadFamilies /\ (step = "checks" => u[1] = "checks")
  BY <1>2, <1>3 DEF FamiliesOf, ReadsSteps, ReadFamilies
<1>6. u[1] \in Families
  BY <1>4 DEF Units
<1>7. QED
  BY <1>2, <1>3, <1>4, <1>5, <1>6

(* What a read adds to the ledger is its family's. *)
LEMMA CoreOneRead ==
  ASSUME TypeInv, CoreInv, NEW u \in Left, NEW f, f = u[1], step' = step,
         UNCHANGED <<env, ctx, listed, byOwner, keptWhole>>, whole \subseteq whole',
         Keeps(ledger, ledger'), ledger'.begun = ledger.begun, ledger'.stop = ledger.stop,
         ledger.drops \subseteq ledger'.drops, ledger.ok \subseteq ledger'.ok, ledger'.ok \subseteq ledger.ok \cup {f},
         \A d \in ledger'.drops \ ledger.drops :
            d[1] = f /\ d[2] \notin {"stopped", "noRepos", "sourceBlind"}
                     /\ (d[2] = "ownerFailed" => f \in {"prs", "issues"}) /\ (d[2] = "noHead" => f = "checks"),
         \A v \in Left' : \/ v \in Left
                          \/ v[1] \in {"prs", "issues"} \cap FamiliesOf(step) \cap ledger.begun /\ ~IsOwner(v) /\ v[2] \in kept
  PROVE  CoreInv'
<1>1. step \in ReadsSteps /\ f \in ledger.begun /\ (step = "checks" => f = "checks")
  BY ReadsHead
<1>2. \A d \in ledger'.drops : d \in ledger.drops \/ DropFits(ledger', d)
  BY <1>1 DEF DropFits
<1>3. step' = "checks" => (ReadsChecks(ledger') => ReadsChecks(ledger))
  <2> SUFFICES ASSUME step = "checks"
               PROVE  ReadsChecks(ledger') <=> ReadsChecks(ledger)
    OBVIOUS
  <2>1. f = "checks"
    BY <1>1
  <2>2. ledger'.unsupported = ledger.unsupported /\ ledger'.off = ledger.off
    BY DEF Keeps
  <2>3. \A g \in {"repos", "prs"} : (g \in ledger'.begun <=> g \in ledger.begun) /\ (g \in ledger'.ok <=> g \in ledger.ok)
    BY <2>1
  <2>4. \A d \in ledger'.drops \ ledger.drops : d[1] \notin {"repos", "prs"}
    BY <2>1
  <2>5. QED
    BY <2>2, <2>3, <2>4, ChecksSame
<1>4. step' # "end"
  BY <1>1 DEF ReadsSteps
<1>5. QED
  BY <1>1, <1>2, <1>3, <1>4, CoreReads

LEMMA CoreRead ==
  ASSUME TypeInv, CoreInv, Read
  PROVE  CoreInv'
<1>1. PICK u, a :
         /\ todo # <<>> /\ u = Head(todo) /\ u \in Left /\ ~Skips(u)
         /\ env' = env /\ open' = open /\ ctx' = ctx /\ listed' = listed /\ byOwner' = byOwner /\ keptWhole' = keptWhole
         /\ \/ ReadStops(u, a.end) /\ ReadsOnly(u) /\ dates' = dates
            \/ ReadLost /\ ReadsOnly(u) /\ dates' = dates
            \/ ReadShort(u, a.end) /\ ReadsOnly(u) /\ dates' = dates
            \/ SnapshotLost(u, a.end) /\ ReadsOnly(u) /\ dates' = dates
            \/ FellBack(u) /\ ReadsOnly(u) /\ dates' = dates
            \/ ReadUndated(u) /\ ReadsOnly(u)
            \/ Returned(u, a)
  BY ReadCases
<1>2. PICK f \in Families : f = u[1]
  BY <1>1, ReadsHead
<1>3. /\ step \in ReadsSteps /\ f \in ledger.begun /\ f \in FamiliesOf(step) /\ f \in ReadFamilies /\ f # "repos"
      /\ ledger \in LedgerSet
  BY <1>1, <1>2, ReadsHead, TypeFacts DEF ReadFamilies
<1>4. ToSet(Tail(todo)) \subseteq Left /\ IsSeq(Tail(todo))
  BY <1>1, TypeFacts, TailElements DEF Left
<1>5. ledger.stop = "none"
  BY <1>3 DEF CoreInv, StepInv
<1>6. CASE ReadStops(u, a.end) /\ ReadsOnly(u) /\ dates' = dates
  <2>1. ledger' = Stopped(ledger, f, a.end) /\ a.end \in Stops /\ step' = "end" /\ todo' = <<>> /\ whole \subseteq whole'
    BY <1>2, <1>6 DEF ReadStops, ReadsOnly
  <2>2. LET m == Stopped(ledger, f, a.end)
        IN  /\ m.stop \in {"rate_limited", "read_reserve"}
            /\ ledger.begun \subseteq m.begun /\ m.begun \subseteq ledger.begun \cup {f}
            /\ ledger.drops \subseteq m.drops
            /\ \A d \in m.drops \ ledger.drops : d[1] \in m.begun /\ d[2] \in {"stopped", "failed"}
            /\ m.ok = ledger.ok /\ m.done = ledger.done /\ m.off = ledger.off
            /\ m.unsupported = ledger.unsupported /\ m.unresolved = ledger.unresolved
    BY <1>3, <2>1, StoppedFields
  <2>3. /\ ledger'.stop # "none" /\ ledger'.begun = ledger.begun /\ ledger.drops \subseteq ledger'.drops
        /\ Keeps(ledger, ledger') /\ ledger'.ok = ledger.ok
        /\ \A d \in ledger'.drops \ ledger.drops : DropFits(ledger', d)
    BY <1>3, <2>1, <2>2 DEF Keeps, DropFits
  <2>4. step' # step /\ step' # "checks"
    BY <1>3, <2>1 DEF ReadsSteps
  <2>5. Left' = {}
    BY <2>1, EmptySequence DEF Left
  <2>6. QED
    BY <1>1, <1>3, <2>1, <2>3, <2>4, <2>5, CoreReads
<1>7. CASE ReadLost /\ ReadsOnly(u) /\ dates' = dates
  <2>1. ledger' = ledger /\ step' = "end" /\ todo' = <<>> /\ whole \subseteq whole'
    BY <1>7 DEF ReadLost, ReadsOnly
  <2>2. Keeps(ledger, ledger')
    BY <2>1 DEF Keeps
  <2>3. Left' = {}
    BY <2>1, EmptySequence DEF Left
  <2>4. QED
    BY <1>1, <1>3, <1>5, <2>1, <2>2, <2>3, CoreReads
<1>8. CASE ReadShort(u, a.end) /\ ReadsOnly(u) /\ dates' = dates
  <2>1. /\ ledger' = Record(ledger, f, a.end) /\ step' = step /\ todo' = Tail(todo) /\ whole \subseteq whole'
        /\ a.end \notin {"whole", "none", "cut"}
    BY <1>2, <1>3, <1>8 DEF ReadShort, ReadsOnly, Failures, Errors
  <2>2. Noted(ledger, ledger', f, a.end)
    BY <1>3, <2>1, RecordFields
  <2>3. Shortfall(f, a.end) \in {{<<f, "refused">>}, {<<f, "failed">>}}
    BY <2>1 DEF Shortfall
  <2>4. /\ Keeps(ledger, ledger') /\ ledger'.begun = ledger.begun /\ ledger'.stop = ledger.stop
        /\ ledger'.ok = ledger.ok /\ ledger.drops \subseteq ledger'.drops
        /\ \A d \in ledger'.drops \ ledger.drops : d[1] = f /\ d[2] \in {"refused", "failed"}
    BY <1>3, <2>1, <2>2, <2>3 DEF Noted
  <2>5. QED
    BY <1>1, <1>2, <1>4, <2>1, <2>4, CoreOneRead DEF Left
<1>9. CASE SnapshotLost(u, a.end) /\ ReadsOnly(u) /\ dates' = dates
  <2> DEFINE r == Record(ledger, f, a.end)
  <2>1. /\ ledger' = Drop(r, f, "ownerFailed") /\ step' = step /\ f \in {"prs", "issues"} /\ whole \subseteq whole'
        /\ todo' = Among(Tail(todo), {v \in Left : v[1] # u[1] \/ IsOwner(v)})
        /\ a.end \notin {"whole", "none", "cut"}
    BY <1>2, <1>9 DEF SnapshotLost, ReadsOnly, Failures, Errors
  <2>2. Noted(ledger, r, f, a.end)
    BY <1>3, RecordFields
  <2> HIDE DEF r
  <2>3. Shortfall(f, a.end) \in {{<<f, "refused">>}, {<<f, "failed">>}}
    BY <2>1 DEF Shortfall
  <2>4. LET m == Drop(r, f, "ownerFailed")
        IN  /\ m \in LedgerSet /\ Keeps(r, m) /\ m.stop = r.stop /\ m.ok = r.ok /\ m.flags = r.flags
            /\ m.begun = r.begun \cup {f} /\ m.drops = r.drops \cup {<<f, "ownerFailed">>}
    BY <2>2, DropMany DEF Noted, Reasons, BlindReasons
  <2>5. /\ Keeps(ledger, ledger') /\ ledger'.begun = ledger.begun /\ ledger'.stop = ledger.stop
        /\ ledger'.ok = ledger.ok /\ ledger.drops \subseteq ledger'.drops
        /\ ledger'.drops = (ledger.drops \cup Shortfall(f, a.end)) \cup {<<f, "ownerFailed">>}
    BY <1>3, <2>1, <2>2, <2>4 DEF Noted, Keeps
  <2>6. \A d \in ledger'.drops \ ledger.drops : d[1] = f /\ d[2] \in {"refused", "failed", "ownerFailed"}
    BY <2>3, <2>5
  <2>7. Left' \subseteq Left
    BY <1>4, <2>1, AmongElements DEF Left
  <2>8. QED
    BY <1>1, <1>2, <2>1, <2>5, <2>6, <2>7, CoreOneRead
<1>10. CASE FellBack(u) /\ ReadsOnly(u) /\ dates' = dates
  <2>1. /\ todo' = [i \in DOMAIN Among(Repos, byOwner[u[2]]) |-> <<u[1], Among(Repos, byOwner[u[2]])[i]>>] \o Tail(todo)
        /\ step' = step /\ ledger' = ledger /\ u[1] \in {"prs", "issues"} /\ whole \subseteq whole'
        /\ IsOwner(u) /\ byOwner[u[2]] \subseteq kept
    BY <1>10, TypeFacts DEF FellBack, FallsBack, ReadsOnly, IsOwner, owners
  <2>2. /\ IsSeq(todo')
        /\ \A v : v \in Left' <=> v \in ToSet(Tail(todo)) \/ \E x \in byOwner[u[2]] : v = <<u[1], x>>
    BY <1>4, <2>1, FallsBackElements
  <2>3. \A v \in Left' : \/ v \in Left
                         \/ v[1] \in {"prs", "issues"} \cap FamiliesOf(step) \cap ledger.begun /\ ~IsOwner(v) /\ v[2] \in kept
    <3> SUFFICES ASSUME NEW v \in Left', v \notin Left
                 PROVE  v[1] \in {"prs", "issues"} \cap FamiliesOf(step) \cap ledger.begun /\ ~IsOwner(v) /\ v[2] \in kept
      OBVIOUS
    <3>1. PICK x \in kept : v = <<u[1], x>>
      BY <1>4, <2>1, <2>2
    <3>2. x \notin owners
      BY TypeFacts, NamesSequences
    <3>3. v[1] = u[1] /\ v[2] = x
      BY <3>1
    <3>4. QED
      BY <1>2, <1>3, <2>1, <3>2, <3>3 DEF IsOwner, owners
  <2>4. Keeps(ledger, ledger')
    BY <2>1 DEF Keeps
  <2>5. QED
    BY <1>1, <1>2, <2>1, <2>3, <2>4, CoreOneRead
<1>11. CASE ReadUndated(u) /\ ReadsOnly(u)
  <2>1. ledger' = ledger /\ step' = step /\ todo' = Tail(todo) /\ whole \subseteq whole'
    BY <1>11 DEF ReadUndated, ReadsOnly
  <2>2. Keeps(ledger, ledger')
    BY <2>1 DEF Keeps
  <2>3. QED
    BY <1>1, <1>2, <1>4, <2>1, <2>2, CoreOneRead DEF Left
<1>12. CASE Returned(u, a)
  <2>1. /\ Returns(u, a) /\ step' = step /\ whole \subseteq whole'
        /\ a.end \in {"whole", "cut", "empty", "none", "noHead", "tokenUnsupported"}
    BY <1>12 DEF Returned
  <2>2. ReturnEffect(u, a)
    BY <1>2, <1>3, <2>1, ReturnsFields
  <2>3. /\ Keeps(ledger, ledger') /\ ledger'.begun = ledger.begun /\ ledger'.stop = ledger.stop
        /\ ledger.ok \subseteq ledger'.ok /\ ledger'.ok \subseteq ledger.ok \cup {f}
        /\ ledger.drops \subseteq ledger'.drops
        /\ \A d \in ledger'.drops \ (ledger.drops \cup ReturnDrops(f, a.end)) :
              d[1] = f /\ d[2] \in {"excludedRepo", "unlisted"}
    BY <1>2, <1>3, <2>2 DEF ReturnEffect
  <2>4. \A d \in ReturnDrops(f, a.end) :
           d[1] = f /\ d[2] \in {"cut", "noHead", "tokenUnsupported"} /\ (d[2] = "noHead" => f = "checks")
    BY <1>2, <1>12 DEF ReturnDrops, Returned
  <2>5. \A d \in ledger'.drops \ ledger.drops :
           /\ d[1] = f /\ d[2] \in {"excludedRepo", "unlisted", "cut", "noHead", "tokenUnsupported"}
           /\ d[2] = "noHead" => f = "checks"
    BY <2>3, <2>4
  <2>6. todo' = Tail(todo)
    BY <2>1 DEF Returns
  <2>7. QED
    BY <1>1, <1>2, <1>4, <2>1, <2>3, <2>5, <2>6, CoreOneRead DEF Left
<1>13. QED
  BY <1>1, <1>6, <1>7, <1>8, <1>9, <1>10, <1>11, <1>12

LEMMA CoreSkip ==
  ASSUME TypeInv, CoreInv, Skip
  PROVE  CoreInv'
<1> DEFINE u == Head(todo)
<1>1. /\ todo # <<>> /\ Skips(u) /\ todo' = Tail(todo)
      /\ ledger' = IF IsOwner(u) THEN ledger ELSE Drop(ledger, u[1], "skipped")
      /\ UNCHANGED <<env, step, ctx, listed, byOwner, keptWhole, whole>>
  BY DEF Skip, scan
<1>2. u \in Left /\ ToSet(Tail(todo)) \subseteq Left /\ ledger \in LedgerSet
  BY <1>1, TypeFacts, TailElements DEF Left
<1> HIDE DEF u
<1>3. PICK f \in Families : f = u[1]
  BY <1>2, ReadsHead
<1>4. f \in ledger.begun
  BY <1>2, <1>3, ReadsHead
<1>5. /\ Keeps(ledger, ledger') /\ ledger'.begun = ledger.begun /\ ledger'.stop = ledger.stop /\ ledger'.ok = ledger.ok
      /\ ledger.drops \subseteq ledger'.drops /\ \A d \in ledger'.drops \ ledger.drops : d[1] = f /\ d[2] = "skipped"
  <2>1. CASE IsOwner(u)
    BY <1>1, <2>1 DEF Keeps
  <2>2. CASE ~IsOwner(u)
    <3>1. ledger' = Drop(ledger, f, "skipped") /\ "skipped" \in Reasons
      BY <1>1, <1>3, <2>2 DEF Reasons, Excluded
    <3>2. LET m == Drop(ledger, f, "skipped")
          IN  /\ Keeps(ledger, m) /\ m.stop = ledger.stop /\ m.ok = ledger.ok
              /\ m.begun = ledger.begun \cup {f} /\ m.drops = ledger.drops \cup {<<f, "skipped">>}
      BY <1>2, <3>1, DropMany
    <3>3. QED
      BY <1>4, <3>1, <3>2
  <2>3. QED
    BY <2>1, <2>2
<1>6. QED
  BY <1>1, <1>2, <1>3, <1>5, CoreOneRead DEF Left

LEMMA CoreNextStep ==
  ASSUME TypeInv, CoreInv, NextStep
  PROVE  CoreInv'
<1>1. UNCHANGED <<env, ctx, listed, byOwner, keptWhole, rows, dates, whole>>
  BY DEF NextStep, scan
<1>2. PICK l \in LedgerSet :
         /\ todo = <<>> /\ step \in ReadsSteps \cup {"discover"} /\ ~Discovering
         /\ l.done = ledger.done \cup Reading(step, ledger)
         /\ l.off = ledger.off /\ l.unresolved = ledger.unresolved /\ l.stop = ledger.stop
         /\ l.ok = ledger.ok /\ l.flags = ledger.flags
         /\ l.unsupported = (IF step = "runs" /\ "undated" \in dates /\ "dated" \notin dates
                             THEN ledger.unsupported \cup {"runs", "failing"} ELSE ledger.unsupported)
         /\ l.begun = (IF step = "runs" /\ "undated" \in dates /\ "dated" \in dates
                       THEN ledger.begun \cup {"runs"} ELSE ledger.begun)
         /\ l.drops = (IF step = "runs" /\ "undated" \in dates /\ "dated" \in dates
                       THEN ledger.drops \cup {<<"runs", "failed">>} ELSE ledger.drops)
         /\ \/ /\ step' = "end" /\ ledger' = l /\ todo' = todo
            \/ /\ step' = After(step)
               /\ ledger' = Begin(l, Reading(After(step), l)) /\ todo' = ReadsOf(After(step), l)
  BY NextStepCases
<1>3. /\ "repos" \in ledger.done /\ ledger.stop = "none" /\ Reading(step, ledger) \subseteq ledger.begun
      /\ ledger.done \subseteq ledger.begun
  <2>1. step = "discover" => Reading(step, ledger) = {} /\ "repos" \in ledger.done
    BY <1>2 DEF Reading, Discovering
  <2>2. QED
    BY <1>2, <2>1 DEF CoreInv, StepInv, LedgerInv
<1>4. /\ l.done \subseteq l.begun /\ "repos" \in l.done /\ ledger.begun \subseteq l.begun
      /\ ledger.drops \subseteq l.drops /\ \A d \in l.drops \ ledger.drops : d = <<"runs", "failed">> /\ "runs" \in l.begun
  BY <1>2, <1>3
<1> DEFINE s == After(step)
<1>5. s \in ReadsSteps \cup {"end"} /\ (s = "snapshots" => step = "discover")
  BY <1>2, Steps DEF ReadsSteps
<1> HIDE DEF s
<1>6. /\ Begin(l, Reading(s, l)) \in LedgerSet
      /\ Begin(l, Reading(s, l)).begun = l.begun \cup Reading(s, l)
      /\ Begin(l, Reading(s, l)).done = l.done /\ Begin(l, Reading(s, l)).ok = l.ok
      /\ Begin(l, Reading(s, l)).unsupported = l.unsupported /\ Begin(l, Reading(s, l)).off = l.off
      /\ Begin(l, Reading(s, l)).drops = l.drops /\ Begin(l, Reading(s, l)).unresolved = l.unresolved
      /\ Begin(l, Reading(s, l)).stop = l.stop
  BY BeginFields, ReadingFamilies
<1>7. \/ step' = "end" /\ ledger'.begun = l.begun /\ todo' = <<>>
      \/ /\ step' = s /\ ledger' = Begin(l, Reading(s, l)) /\ ledger'.begun = l.begun \cup Reading(s, l)
         /\ todo' = ReadsOf(s, l)
  BY <1>2, <1>6 DEF s
<1>8. /\ ledger'.done = l.done /\ ledger'.ok = l.ok /\ ledger'.unsupported = l.unsupported /\ ledger'.off = l.off
      /\ ledger'.drops = l.drops /\ ledger'.unresolved = l.unresolved /\ ledger'.stop = l.stop
      /\ l.begun \subseteq ledger'.begun
  BY <1>2, <1>6 DEF s
<1>9. step' \in ReadsSteps \cup {"end"}
  BY <1>5, <1>7
<1>10. ASSUME NEW f \in Reading(s, l)
       PROVE  /\ f \in FamiliesOf(s) /\ (f = "security" => env.security)
              /\ s = "snapshots" => f \in {"prs", "issues"}
  BY ReadingFamilies DEF Reading, FamiliesOf
<1>11. StepInv'
  <2>1. step' \notin ReadsSteps => todo' = <<>>
    BY <1>5, <1>7 DEF ReadsOf, ReadsSteps
  <2>2. step' = "snapshots" => "checks" \notin ledger'.begun
    <3> SUFFICES ASSUME step' = "snapshots"
                 PROVE  "checks" \notin ledger'.begun
      OBVIOUS
    <3>1. step = "discover" /\ ledger'.begun = l.begun \cup Reading("snapshots", l)
      BY <1>5, <1>7
    <3>2. l.begun = {"repos"}
      BY <1>2, <3>1 DEF CoreInv, StepInv
    <3>3. QED
      BY <3>1, <3>2 DEF Reading
  <2>3. step' \in ReadsSteps => (Reading(step, ledger) \subseteq ledger.begun)'
    <3> SUFFICES ASSUME step' \in ReadsSteps
                 PROVE  (Reading(step, ledger) \subseteq ledger.begun)'
      OBVIOUS
    <3>1. step' = s /\ ledger'.begun = l.begun \cup Reading(s, l)
      BY <1>7 DEF ReadsSteps
    <3>2. s = "checks" => (ReadsChecks(ledger') => ReadsChecks(l))
      <4>1. ASSUME s = "checks"
            PROVE  ReadsChecks(ledger') <=> ReadsChecks(l)
        <5>1. Reading(s, l) \subseteq {"checks"}
          BY <4>1 DEF Reading
        <5>2. \A g \in {"repos", "prs"} : (g \in ledger'.begun <=> g \in l.begun) /\ (g \in ledger'.ok <=> g \in l.ok)
          BY <1>8, <3>1, <5>1
        <5>3. QED
          BY <1>8, <5>2, ChecksSame
      <4>2. QED
        BY <4>1
    <3>3. Reading(s, ledger') \subseteq Reading(s, l)
      BY <3>2, ReadingSame
    <3>4. Reading(step, ledger)' = Reading(s, ledger')
      BY <1>1, <3>1 DEF Reading, ReadsChecks
    <3>5. QED
      BY <3>1, <3>3, <3>4
  <2>4. "repos" \in ledger'.done /\ ledger'.stop = "none" /\ ~Discovering' /\ step' # "discover"
        /\ step' \notin Gated \cup {"open", "unopened"}
    BY <1>2, <1>3, <1>4, <1>8, <1>9 DEF Discovering, ReadsSteps, Gated
  <2>5. QED
    BY <2>1, <2>2, <2>3, <2>4 DEF StepInv
<1>12. LedgerInv'
  <2>1. ASSUME NEW d \in ledger'.drops
        PROVE  DropFits(ledger', d)
    <3>1. CASE d \in ledger.drops
      <4>1. DropFits(ledger, d)
        BY <3>1 DEF CoreInv, LedgerInv
      <4>2. QED
        BY <1>2, <1>4, <1>8, <4>1 DEF DropFits
    <3>2. CASE d \notin ledger.drops
      BY <1>4, <1>8, <3>2 DEF DropFits
    <3>3. QED
      BY <3>1, <3>2
  <2>2. (\A d \in ledger.drops : DropFits(ledger, d))'
    BY <2>1
  <2>3. ledger'.done \subseteq ledger'.begun
    BY <1>4, <1>8
  <2>4. ledger'.off = ledger.off /\ ledger.off \subseteq {"security"} /\ (ledger.off # {} => ~env.security)
        /\ ledger.off \cap ledger.begun = {}
    BY <1>2, <1>8 DEF CoreInv, LedgerInv
  <2>5. "security" \in ledger'.begun => "security" \in ledger.begun \/ env.security
    <3>1. "security" \in l.begun => "security" \in ledger.begun
      BY <1>2
    <3>2. QED
      BY <1>7, <1>10, <3>1
  <2>6. ledger'.off \cap ledger'.begun = {}
    BY <2>4, <2>5
  <2>7. /\ ("runs" \in ledger'.unsupported) <=> ("failing" \in ledger'.unsupported)
        /\ ledger'.unsupported \cap {"repos", "prs", "issues", "state"} = {}
        /\ ledger.unsupported \subseteq ledger'.unsupported
    <3>1. /\ ("runs" \in ledger.unsupported) <=> ("failing" \in ledger.unsupported)
          /\ ledger.unsupported \cap {"repos", "prs", "issues", "state"} = {}
      BY DEF CoreInv, LedgerInv
    <3>2. ledger'.unsupported \in {ledger.unsupported, ledger.unsupported \cup {"runs", "failing"}}
      BY <1>2, <1>8
    <3>3. QED
      BY <3>1, <3>2
  <2>8. /\ env.product # "github" => {"security", "workflows"} \subseteq ledger.unsupported
        /\ env.product = "github" /\ ~env.security => "security" \in ledger.off
    BY <1>2 DEF CoreInv, LedgerInv
  <2>9. QED
    BY <1>1, <2>2, <2>3, <2>4, <2>6, <2>7, <2>8 DEF LedgerInv
<1>13. TodoInv'
  <2>1. CASE todo' = <<>>
    <3>1. Left' = {}
      BY <2>1, EmptySequence DEF Left
    <3>2. QED
      BY <3>1 DEF TodoInv
  <2>2. CASE todo' # <<>>
    <3>1. step' = s /\ ledger'.begun = l.begun \cup Reading(s, l) /\ todo' = ReadsOf(s, l)
      BY <1>7, <2>2
    <3>2. /\ s \in {"snapshots", "runs", "checks", "github", "end"} /\ kept' = kept /\ listed \subseteq repos
      BY <1>1, <1>5 DEF ReadsSteps, kept, TypeInv
    <3>3. \A u : u \in Left' <=> \E f \in Reading(s, l), x \in Over(s, l) : u = <<f, x>>
      BY <3>1, <3>2, ReadsElements DEF Left
    <3> SUFFICES ASSUME NEW u \in Left'
                 PROVE  /\ u[1] \in FamiliesOf(s) \cap ledger'.begun
                        /\ IsOwner(u) => u[1] \in {"prs", "issues"}
                        /\ ~IsOwner(u) => u[2] \in kept
                        /\ u[1] = "security" => env.security
      BY <1>1, <3>1, <3>2 DEF TodoInv, IsOwner
    <3>4. PICK f \in Reading(s, l), x \in Over(s, l) : u = <<f, x>>
      BY <3>3
    <3>5. u[1] = f /\ u[2] = x
      BY <3>4
    <3>6. x \in owners => s = "snapshots"
      <4>1. s # "snapshots" => Over(s, l) \subseteq repos
        BY TypeFacts DEF Over
      <4>2. QED
        BY <4>1, NamesSequences
    <3>7. x \notin owners => x \in kept
      <4>1. rows \subseteq Families \X kept
        BY TypeNow DEF kept
      <4>2. {row[2] : row \in {q \in rows : q[1] = "prs"}} \subseteq kept
        BY <4>1
      <4>3. Over(s, l) \subseteq kept \cup owners
        BY <4>2 DEF Over
      <4>4. QED
        BY <4>3
    <3>8. QED
      BY <1>10, <3>1, <3>5, <3>6, <3>7 DEF IsOwner, owners
  <2>3. QED
    BY <2>1, <2>2
<1>14. EndInv'
  <2>1. step' \notin Closed /\ step' \notin {"complete", "stopped"}
    BY <1>9 DEF Closed, Ends, ReadsSteps
  <2>2. QED
    BY <2>1 DEF EndInv
<1>15. ReposInv'
  <2>1. ASSUME NEW rs
        PROVE  Dropped(ledger, "repos", rs) <=> Dropped(ledger', "repos", rs)
    <3>1. \A r : <<"repos", r>> # <<"runs", "failed">>
      OBVIOUS
    <3>2. QED
      BY <1>4, <1>8, <3>1 DEF Dropped
  <2>2. Answered(ledger', "repos") /\ ReposInv
    BY <1>2, <1>3, <1>8, <2>1 DEF CoreInv, ReposInv, Answered
  <2>3. Live' = Live /\ ledger'.unresolved = ledger.unresolved /\ "repos" \in ledger'.done
    BY <1>1, <1>2, <1>4, <1>8 DEF Live
  <2>4. ~Dropped(ledger', "repos", {"cut"}) =>
          \A o \in owners \ ledger.unresolved : <<"repos", o>> \in whole /\ OwnedBy[o] \ env.late \subseteq listed
    BY <1>3, <2>1, <2>2 DEF ReposInv
  <2>5. ledger.unresolved # {} => Dropped(ledger', "repos", {"unresolved"})
    BY <2>1, <2>2 DEF ReposInv
  <2>6. QED
    BY <1>1, <2>2, <2>3, <2>4, <2>5 DEF ReposInv, FoundInv, kept
<1>16. QED
  BY <1>11, <1>12, <1>13, <1>14, <1>15 DEF CoreInv

(* The reads are over. *)
LEMMA CoreClosing ==
  ASSUME TypeInv, CoreInv, step \in Closed \cup {"end", "unopened"}, step' \in Closed,
         UNCHANGED <<env, todo, listed, byOwner, keptWhole, dates, whole>>, rows' \subseteq rows,
         ledger'.done \subseteq ledger'.begun, ledger.begun \subseteq ledger'.begun,
         \A d \in ledger'.drops : d \in ledger.drops \/ DropFits(ledger', d),
         ledger.stop # "none" => ledger'.stop # "none",
         ledger'.off = ledger.off, ledger'.unsupported = ledger.unsupported, ledger'.unresolved = ledger.unresolved,
         ledger'.begun \cap ReadFamilies \subseteq ledger.begun,
         ledger.drops \subseteq ledger'.drops, ledger.ok \subseteq ledger'.ok,
         \A d \in ledger'.drops \ ledger.drops : d[1] = "repos" => d[2] = "stopped",
         "repos" \in ledger'.done <=> "repos" \in ledger.done,
         "repos" \in ledger'.begun <=> "repos" \in ledger.begun,
         Lost /\ "repos" \in ledger.begun \ ledger.done => Lost' \/ Dropped(ledger', "repos", {"stopped"}),
         EndInv'
  PROVE  CoreInv'
<1>1. StepInv'
  <2>1. step' \notin {"open", "unopened", "discover"} \cup Gated \cup ReadsSteps
        /\ step \notin {"open", "discover"} \cup Gated \cup ReadsSteps
    BY DEF Closed, Ends, Gated, ReadsSteps
  <2>2. todo' = <<>> /\ ~Discovering'
    BY <2>1 DEF CoreInv, StepInv, Discovering
  <2>3. QED
    BY <2>1, <2>2 DEF StepInv, Gated, ReadsSteps
<1>2. LedgerInv'
  <2>1. step' \notin InReads
    BY DEF InReads, Closed, Ends, Gated, ReadsSteps
  <2>2. "security" \in ledger'.begun => "security" \in ledger.begun
    BY DEF ReadFamilies
  <2>3. QED
    BY <2>1, <2>2, LedgerGrows DEF CoreInv
<1>3. TodoInv'
  <2>1. todo' = <<>>
    BY DEF CoreInv, StepInv, Closed, Ends, ReadsSteps
  <2>2. Left' = {}
    BY <2>1, EmptySequence DEF Left
  <2>3. QED
    BY <2>2 DEF TodoInv
<1>4. ReposInv'
  <2>1. ASSUME NEW rs, Dropped(ledger, "repos", rs)
        PROVE  Dropped(ledger', "repos", rs)
    BY <2>1 DEF Dropped
  <2>2. Dropped(ledger', "repos", {"cut"}) => Dropped(ledger, "repos", {"cut"})
    <3>1. <<"repos", "cut">>[1] = "repos" /\ <<"repos", "cut">>[2] = "cut"
      OBVIOUS
    <3>2. QED
      BY <3>1 DEF Dropped
  <2>3. "repos" \in ledger'.done => Answered(ledger', "repos")
    BY <2>1 DEF CoreInv, ReposInv, Answered
  <2>4. "repos" \in ledger'.done /\ ~Dropped(ledger', "repos", {"cut"}) =>
          \A o \in owners \ ledger.unresolved : <<"repos", o>> \in whole /\ OwnedBy[o] \ env.late \subseteq listed
    BY <2>1 DEF CoreInv, ReposInv
  <2>5. ledger.unresolved # {} => Dropped(ledger', "repos", {"unresolved"})
    BY <2>1 DEF CoreInv, ReposInv
  <2>6. "repos" \in ledger'.begun \ ledger'.done =>
          Lost' \/ Dropped(ledger', "repos", {"failed", "refused", "stopped"})
    <3> SUFFICES ASSUME "repos" \in ledger.begun \ ledger.done
                 PROVE  Lost' \/ Dropped(ledger', "repos", {"failed", "refused", "stopped"})
      OBVIOUS
    <3>1. step # "discover"
      BY DEF Closed, Ends
    <3>2. CASE Lost
      BY <3>2 DEF Dropped
    <3>3. CASE ~Lost
      BY <2>1, <3>1, <3>3 DEF CoreInv, ReposInv
    <3>4. QED
      BY <3>2, <3>3
  <2>7. "repos" \notin ledger'.done => EmptyScan' /\ ledger'.begun \cap ReadFamilies = {}
    BY DEF CoreInv, ReposInv, EmptyScan
  <2>8. Live' = Live
    BY DEF Live
  <2>9. keptWhole # Unset => Live \ env.excluded \subseteq keptWhole
    BY DEF CoreInv, ReposInv
  <2>10. \A x \in listed : \E o \in owners \ ledger.unresolved : x \in OwnedBy[o]
    BY DEF CoreInv, ReposInv
  <2>11. FoundInv'
    BY DEF CoreInv, ReposInv, FoundInv, kept
  <2>12. QED
    BY <2>3, <2>4, <2>5, <2>6, <2>7, <2>8, <2>9, <2>10, <2>11 DEF ReposInv
<1>5. QED
  BY <1>1, <1>2, <1>3, <1>4 DEF CoreInv

LEMMA CoreEndReads ==
  ASSUME TypeInv, CoreInv, EndReads
  PROVE  CoreInv'
<1> DEFINE g == Flag(ledger, {"timedOut"})
           m == Halt(g, "scan_timeout")
<1>1. /\ step \in {"end", "unopened"} /\ step' = "save"
      /\ ledger' = IF ledger.stop = "none" /\ ctx = "limit" THEN m ELSE ledger
      /\ rows' \subseteq rows /\ UNCHANGED <<env, todo, ctx, listed, byOwner, keptWhole, dates, whole>>
  BY DEF EndReads, Approve
<1>2. ledger \in LedgerSet /\ ledger.done \subseteq ledger.begun
  BY TypeFacts DEF CoreInv, LedgerInv
<1>3. /\ Keeps(ledger, m) /\ m.stop = "scan_timeout" /\ m.begun = ledger.begun /\ m.ok = ledger.ok
      /\ m.drops = ledger.drops \cup {<<f, "stopped">> : f \in ledger.begun \ ledger.done}
  <2>1. g \in LedgerSet /\ Keeps(ledger, g) /\ g.begun = ledger.begun /\ g.ok = ledger.ok /\ g.drops = ledger.drops
    BY <1>2, FlagFields DEF Flags, Keeps
  <2> HIDE DEF g
  <2>2. /\ m.stop = "scan_timeout" /\ m.drops = g.drops \cup {<<f, "stopped">> : f \in g.begun \ g.done}
        /\ m.begun = g.begun /\ m.ok = g.ok /\ Keeps(g, m)
    BY <2>1, HaltFields DEF StopReasons, Keeps
  <2> HIDE DEF m
  <2>3. QED
    BY <2>1, <2>2 DEF Keeps
<1> HIDE DEF m
<1>4. EndInv'
  BY <1>1, <1>3 DEF EndInv
<1>5. step' \in Closed
  BY <1>1 DEF Closed
<1>6. CASE ledger' = m /\ ledger.stop = "none" /\ ctx = "limit"
  <2>1. \A d \in ledger'.drops \ ledger.drops : d[1] \in ledger.begun \ ledger.done /\ d[2] = "stopped"
    BY <1>3, <1>6
  <2>2. \A d \in ledger'.drops : d \in ledger.drops \/ DropFits(ledger', d)
    BY <1>3, <1>6, <2>1 DEF DropFits
  <2>3. "repos" \in ledger.begun \ ledger.done => Dropped(ledger', "repos", {"stopped"})
    BY <1>3, <1>6 DEF Dropped
  <2>4. ledger'.done = ledger.done /\ ledger'.off = ledger.off /\ ledger'.unsupported = ledger.unsupported
        /\ ledger'.unresolved = ledger.unresolved /\ ledger'.begun = ledger.begun /\ ledger'.stop # "none"
        /\ ledger'.ok = ledger.ok /\ ledger.drops \subseteq ledger'.drops
    BY <1>3, <1>6 DEF Keeps
  <2>5. QED
    BY <1>1, <1>2, <1>4, <1>5, <2>1, <2>2, <2>3, <2>4, CoreClosing
<1>7. CASE ledger' = ledger /\ ~(ledger.stop = "none" /\ ctx = "limit")
  <2>1. Lost => Lost'
    BY <1>1, <1>5, <1>7, TypeNow DEF Lost
  <2>2. QED
    BY <1>1, <1>2, <1>4, <1>5, <1>7, <2>1, CoreClosing
<1>8. QED
  BY <1>1, <1>6, <1>7

LEMMA CoreSave ==
  ASSUME TypeInv, CoreInv, NEW answer \in {"stored", "notDurable", "failed", "cut"}, Save(answer)
  PROVE  CoreInv'
<1>1. step = "save" /\ step' = "saved" /\ UNCHANGED <<env, todo, ctx, listed, byOwner, keptWhole, rows, dates, whole>>
  BY DEF Save, scan
<1>2. /\ ledger'.begun = ledger.begun \cup {"state"} /\ ledger'.done = ledger.done \cup {"state"}
      /\ ledger'.ok = ledger.ok /\ ledger'.off = ledger.off
      /\ ledger'.unsupported = ledger.unsupported /\ ledger'.unresolved = ledger.unresolved
      /\ ledger.drops \subseteq ledger'.drops
      /\ \A d \in ledger'.drops \ ledger.drops :
            \/ d[1] = "state" /\ d[2] \in {"notDurable", "unwritable"}
            \/ d[1] \in ledger'.begun /\ d[2] = "stopped" /\ ledger'.stop # "none"
      /\ ledger.stop # "none" => ledger'.stop = ledger.stop
  BY SaveFields
<1>3. ledger.done \subseteq ledger.begun
  BY DEF CoreInv, LedgerInv
<1>4. \A d \in ledger'.drops : d \in ledger.drops \/ DropFits(ledger', d)
  BY <1>2 DEF DropFits
<1>5. EndInv'
  BY <1>1, <1>2 DEF CoreInv, EndInv, Closed
<1>6. Lost => Lost'
  BY <1>1 DEF Lost, Closed
<1>7. step \in Closed /\ step' \in Closed
  BY <1>1 DEF Closed
<1>8. ledger'.begun \cap ReadFamilies \subseteq ledger.begun
  BY <1>2 DEF ReadFamilies
<1>9. QED
  BY <1>1, <1>2, <1>3, <1>4, <1>5, <1>6, <1>7, <1>8, CoreClosing

LEMMA CorePublish ==
  ASSUME TypeInv, CoreInv, Publish
  PROVE  CoreInv'
<1>1. /\ step = "saved" /\ step' \in Ends
      /\ step' = IF ctx = "shutdown" THEN "interrupted" ELSE IF ledger.stop = "none" THEN "complete" ELSE "stopped"
      /\ ledger' = IF ledger.stop = "none" THEN Derive(ledger) ELSE ledger
      /\ UNCHANGED <<env, todo, ctx, listed, byOwner, keptWhole, rows, dates, whole>>
  BY DEF Publish, scan, Ends
<1>2. /\ ledger'.ok = ledger.ok /\ ledger'.off = ledger.off /\ ledger'.unsupported = ledger.unsupported
      /\ ledger'.unresolved = ledger.unresolved /\ ledger'.stop = ledger.stop
      /\ \/ ledger' = ledger
         \/ /\ ledger'.begun = ledger.begun \cup {"failing"} /\ ledger'.done = ledger.done
            /\ ledger'.drops = ledger.drops \cup {<<"failing", "sourceBlind">>}
         \/ /\ ledger'.begun = ledger.begun \cup {"failing"} /\ ledger'.done = ledger.done \cup {"failing"}
            /\ ledger'.drops = ledger.drops
  BY <1>1, TypeFacts, DeriveFields
<1>3. ledger.done \subseteq ledger.begun
  BY DEF CoreInv, LedgerInv
<1>4. /\ ledger'.done \subseteq ledger'.begun /\ ledger.begun \subseteq ledger'.begun /\ ledger.drops \subseteq ledger'.drops
      /\ \A d \in ledger'.drops \ ledger.drops : d = <<"failing", "sourceBlind">> /\ "failing" \in ledger'.begun
      /\ \A f \in {"repos", "security"} :
            (f \in ledger'.begun <=> f \in ledger.begun) /\ (f \in ledger'.done <=> f \in ledger.done)
  BY <1>2, <1>3
<1>5. \A d \in ledger'.drops : d \in ledger.drops \/ DropFits(ledger', d)
  BY <1>4 DEF DropFits
<1>6. EndInv'
  <2>1. ctx = "limit" => ledger.stop # "none"
    BY <1>1 DEF CoreInv, EndInv, Closed
  <2>2. QED
    BY <1>1, <1>2, <2>1, TypeNow DEF EndInv, Closed
<1>7. Lost => Lost'
  BY <1>1 DEF Lost, Closed
<1>8. step \in Closed /\ step' \in Closed
  BY <1>1 DEF Closed
<1>9. ledger'.begun \cap ReadFamilies \subseteq ledger.begun
  BY <1>2 DEF ReadFamilies
<1>10. QED
  BY <1>1, <1>2, <1>4, <1>5, <1>6, <1>7, <1>8, <1>9, CoreClosing

LEMMA CoreNextScan ==
  ASSUME TypeInv, CoreInv, NextScan
  PROVE  CoreInv'
<1>1. /\ step' = "open" /\ todo' = <<>> /\ ctx' = "live" /\ ledger' = NewLedger
      /\ listed' = {} /\ byOwner' = NoneFound /\ keptWhole' = Unset /\ rows' = {} /\ dates' = {} /\ whole' = {}
  BY DEF NextScan
<1>2. /\ ledger'.begun = {} /\ ledger'.done = {} /\ ledger'.unsupported = {} /\ ledger'.off = {}
      /\ ledger'.drops = {} /\ ledger'.unresolved = {} /\ ledger'.stop = "none"
  BY <1>1 DEF NewLedger
<1>3. StepInv'
  BY <1>1, <1>2 DEF StepInv, Gated, ReadsSteps, Discovering, EmptyScan
<1>4. LedgerInv'
  BY <1>1, <1>2 DEF LedgerInv, Gated, ReadsSteps
<1>5. EndInv'
  BY <1>1 DEF EndInv, Closed, Ends
<1>6. ReposInv'
  BY <1>1, <1>2 DEF ReposInv, EmptyScan, FoundInv, kept
<1>7. TodoInv'
  <2>1. Left' = {}
    BY <1>1, EmptySequence DEF Left
  <2>2. QED
    BY <2>1 DEF TodoInv
<1>8. QED
  BY <1>3, <1>4, <1>5, <1>6, <1>7 DEF CoreInv

(* The scan's context ends, or nothing happens. *)
LEMMA CoreSame ==
  ASSUME TypeInv, CoreInv, UNCHANGED <<env, step, todo, ledger, listed, byOwner, keptWhole, rows, dates, whole>>,
         ctx' = ctx \/ (ctx = "live" /\ step \notin Ends /\ (ctx' = "limit" => step \notin {"save", "saved"}))
  PROVE  CoreInv'
<1>1. StepInv'
  BY DEF CoreInv, StepInv, Discovering, EmptyScan, Untouched, Reading, ReadsChecks
<1>2. LedgerInv'
  BY DEF CoreInv, LedgerInv
<1>3. TodoInv'
  BY DEF CoreInv, TodoInv, Left, kept
<1>4. EndInv'
  BY DEF CoreInv, EndInv, Closed, Ends
<1>5. Lost => Lost'
  BY DEF Lost
<1>6. ReposInv'
  <2>1. Live' = Live /\ (EmptyScan => EmptyScan')
    BY DEF Live, EmptyScan
  <2>2. QED
    BY <1>5, <2>1 DEF CoreInv, ReposInv, FoundInv, kept
<1>7. QED
  BY <1>1, <1>2, <1>3, <1>4, <1>6 DEF CoreInv

LEMMA CoreStep ==
  ASSUME TypeInv, CoreInv, [Next]_vars
  PROVE  CoreInv'
<1>1. CASE UNCHANGED vars
  <2>1. UNCHANGED <<env, step, todo, ctx, ledger, listed, byOwner, keptWhole, rows, dates, whole>>
    BY <1>1 DEF vars, scan
  <2>2. QED
    BY <2>1, CoreSame
<1>2. ASSUME NEW how \in {"limit", "shutdown"}, CtxEnds(how)
      PROVE  CoreInv'
  <2>1. /\ ctx = "live" /\ step \notin Ends /\ (ctx' = "limit" => step \notin {"save", "saved"})
        /\ UNCHANGED <<env, step, todo, ledger, listed, byOwner, keptWhole, rows, dates, whole>>
    BY <1>2 DEF CtxEnds, scan
  <2>2. QED
    BY <2>1, CoreSame
<1>3. QED
  BY <1>1, <1>2, CoreOpens, CoreDiscoveryFails, CoreDiscovered, CoreNextStep, CoreSkip, CoreRead, CoreEndReads,
     CoreSave, CorePublish, CoreNextScan DEF Next

(* The repositories a save keeps the runs of, when it drops the others', are
   all that are there, whatever the forge answers of each owner: no run is
   forgotten for an owner that did not answer or a listing cut short. *)
THEOREM KeepsAllThere == Spec => []KeptIsWhole
<1> DEFINE Inv == TypeInv /\ CoreInv
<1>1. Init => Inv
  BY TypeInit, CoreInit
<1>2. Inv /\ [Next]_vars => Inv'
  BY TypeStep, CoreStep
<1>3. Inv => KeptIsWhole
  BY DEF CoreInv, ReposInv, KeptIsWhole
<1>4. QED
  BY <1>1, <1>2, <1>3, PTL DEF Spec

-----------------------------------------------------------------------------
(* What is read of a family. *)

(* Before discovery answers, nothing is wanted. *)
LEMMA CoverNothing ==
  ASSUME listed = {}
  PROVE  CoverInv
<1>1. \A f : WantedOf(f) = {}
  BY DEF WantedOf, kept
<1>2. QED
  BY <1>1 DEF CoverInv, Covered, Met

LEMMA CoverFirst ==
  ASSUME listed' = {} \/ ledger'.begun \cap ReadFamilies = {}
  PROVE  CoverInv'
<1>1. CASE listed' = {}
  <2>1. \A f : WantedOf(f)' = {}
    BY <1>1 DEF WantedOf, kept
  <2>2. QED
    BY <2>1 DEF CoverInv, Covered, Met
<1>2. CASE ledger'.begun \cap ReadFamilies = {}
  BY <1>2 DEF CoverInv
<1>3. QED
  BY <1>1, <1>2

LEMMA CoverOpens ==
  ASSUME TypeInv, CoreInv, CoreInv',
         \/ \E err \in Errors \cup {"connection", "ended"}, named \in BOOLEAN : OpenFails(err, named)
         \/ Opens \/ SharesAccount \/ GateCut \/ StartReads
         \/ \E err \in Failures : DiscoveryFails(err)
         \/ Discovered \/ NextScan
  PROVE  CoverInv'
<1>1. CASE Discovered
  <2>1. step' = "discover"
    BY <1>1 DEF Discovered, Discovering
  <2>2. ledger'.begun = {"repos"}
    BY <2>1 DEF CoreInv, StepInv
  <2>3. QED
    BY <2>2, CoverFirst DEF ReadFamilies
<1>2. CASE NextScan
  BY <1>2, CoverFirst DEF NextScan
<1>3. CASE ~Discovered /\ ~NextScan
  <2>1. listed' = listed /\ Early
    BY <1>3 DEF OpenFails, Opens, SharesAccount, GateCut, StartReads, DiscoveryFails, scan, Early
  <2>2. QED
    BY <2>1, CoverFirst DEF TypeInv, EmptyScan
<1>4. QED
  BY <1>1, <1>2, <1>3

LEMMA CoverNextStep ==
  ASSUME TypeInv, CoreInv, CoverInv, NextStep
  PROVE  CoverInv'
<1>1. UNCHANGED <<env, ctx, listed, byOwner, rows, dates, whole>>
  BY DEF NextStep, scan
<1>2. PICK l \in LedgerSet :
         /\ todo = <<>> /\ step \in ReadsSteps \cup {"discover"} /\ ~Discovering
         /\ l.done = ledger.done \cup Reading(step, ledger)
         /\ l.unresolved = ledger.unresolved
         /\ l.unsupported = (IF step = "runs" /\ "undated" \in dates /\ "dated" \notin dates
                             THEN ledger.unsupported \cup {"runs", "failing"} ELSE ledger.unsupported)
         /\ l.begun = (IF step = "runs" /\ "undated" \in dates /\ "dated" \in dates
                       THEN ledger.begun \cup {"runs"} ELSE ledger.begun)
         /\ l.drops = (IF step = "runs" /\ "undated" \in dates /\ "dated" \in dates
                       THEN ledger.drops \cup {<<"runs", "failed">>} ELSE ledger.drops)
         /\ \/ /\ step' = "end" /\ ledger' = l /\ todo' = todo
            \/ /\ step' = After(step)
               /\ ledger' = Begin(l, Reading(After(step), l)) /\ todo' = ReadsOf(After(step), l)
  BY NextStepCases
<1>3. Reading(step, ledger) \subseteq ledger.begun /\ ledger.done \subseteq ledger.begun
  <2>1. step = "discover" => Reading(step, ledger) = {}
    BY DEF Reading
  <2>2. QED
    BY <1>2, <2>1 DEF CoreInv, StepInv, LedgerInv
<1>4. l.done \subseteq ledger.begun /\ l.begun = ledger.begun
  <2>1. step = "runs" => "runs" \in ledger.begun
    BY <1>3 DEF Reading
  <2>2. QED
    BY <1>2, <1>3, <2>1
<1> DEFINE s == After(step)
<1>5. s \in ReadsSteps \cup {"end"}
  BY <1>2, Steps DEF ReadsSteps
<1> HIDE DEF s
<1>6. /\ Begin(l, Reading(s, l)).begun = l.begun \cup Reading(s, l)
      /\ Begin(l, Reading(s, l)).done = l.done /\ Begin(l, Reading(s, l)).unsupported = l.unsupported
      /\ Begin(l, Reading(s, l)).drops = l.drops
  BY BeginFields, ReadingFamilies
<1>7. /\ ledger'.done = l.done /\ ledger'.unsupported = l.unsupported /\ ledger'.drops = l.drops
      /\ ledger.unsupported \subseteq l.unsupported /\ ledger.drops \subseteq l.drops
      /\ \/ step' = "end" /\ ledger'.begun = ledger.begun
         \/ step' = s /\ ledger'.begun = ledger.begun \cup Reading(s, l) /\ todo' = ReadsOf(s, l)
  BY <1>2, <1>4, <1>6 DEF s
<1>8. \A f : WantedOf(f)' = WantedOf(f)
  BY <1>1 DEF WantedOf, kept
<1>9. ASSUME NEW f \in ReadFamilies, f \in ledger.begun, f \notin ledger'.unsupported, ~Dropped(ledger', f, Gaps)
      PROVE  Met(f)'
  <2>1. Covered(f) /\ ~Dropped(ledger, f, Gaps)
    BY <1>7, <1>9 DEF CoverInv, Dropped
  <2>2. ~Unread(f)
    BY <1>2 DEF Unread, Lost, Closed, Ends, ReadsSteps
  <2>3. Left = {}
    BY <1>2, EmptySequence DEF Left
  <2>4. ~(f = "runs" /\ step = "runs" /\ "undated" \in dates)
    <3> SUFFICES ASSUME f = "runs", step = "runs", "undated" \in dates
                 PROVE  FALSE
      OBVIOUS
    <3>1. "runs" \in ledger'.unsupported \/ <<"runs", "failed">> \in ledger'.drops
      BY <1>2, <1>7
    <3>2. "failed" \in Gaps
      BY DEF Gaps
    <3>3. QED
      BY <1>9, <3>1, <3>2 DEF Dropped
  <2>5. \A x : ~Coming(f, x)
    BY <2>3, <2>4 DEF Coming
  <2>6. Met(f)
    BY <2>1, <2>2, <2>5 DEF Covered, Met, Reached
  <2>7. QED
    BY <1>1, <1>8, <2>6 DEF Met
<1>10. ASSUME NEW f \in ReadFamilies, f \in ledger'.begun \ ledger.begun
       PROVE  Reached(f)'
  <2>1. step' = s /\ f \in Reading(s, l) /\ todo' = ReadsOf(s, l)
    BY <1>7, <1>10
  <2>2. f \notin ledger'.done
    BY <1>4, <1>7, <1>10
  <2>3. s \in ReadsSteps /\ f \in FamiliesOf(s)
    <3>1. s # "end"
      BY <2>1 DEF Reading
    <3>2. QED
      BY <1>5, <2>1, <3>1, ReadingFamilies
  <2>4. s \in {"snapshots", "runs", "checks", "github", "end"} /\ listed \subseteq repos
    BY <1>5 DEF ReadsSteps, TypeInv
  <2>5. \A u : u \in Left' <=> \E g \in Reading(s, l), x \in Over(s, l) : u = <<g, x>>
    BY <2>1, <2>4, ReadsElements DEF Left
  <2>6. ASSUME NEW x \in WantedOf(f)
        PROVE  Coming(f, x)'
    <3>0. x \in kept /\ x \in repos /\ x \notin owners
      BY TypeFacts, NamesSequences DEF WantedOf
    <3>1. CASE s = "snapshots"
      <4>1. f # "checks" /\ f \in {"prs", "issues"} /\ Over(s, l) = owners \ ledger.unresolved
        BY <1>2, <2>3, <3>1 DEF FamiliesOf, Over
      <4>2. PICK o \in owners \ ledger.unresolved : x \in byOwner[o]
        BY <3>0 DEF CoreInv, ReposInv, FoundInv
      <4>3. <<f, o>> \in Left'
        BY <2>1, <2>5, <4>1, <4>2
      <4>4. x \in Found(<<f, o>>) /\ <<f, o>>[1] = f
        BY <4>2 DEF Found, IsOwner, owners
      <4>5. QED
        BY <1>1, <4>3, <4>4 DEF Coming, Found, IsOwner
    <3>2. CASE s # "snapshots"
      <4>1. x \in Over(s, l)
        <5>1. CASE s = "checks"
          <6>1. f = "checks"
            BY <2>3, <5>1 DEF FamiliesOf
          <6>2. <<"prs", x>> \in rows
            BY <6>1 DEF WantedOf
          <6>3. <<"prs", x>>[1] = "prs" /\ <<"prs", x>>[2] = x
            OBVIOUS
          <6>4. x \in {row[2] : row \in {q \in rows : q[1] = "prs"}}
            BY <6>2, <6>3
          <6>5. QED
            BY <3>0, <5>1, <6>4 DEF Over
        <5>2. CASE s # "checks"
          BY <3>0, <3>2, <5>2 DEF Over
        <5>3. QED
          BY <5>1, <5>2
      <4>2. <<f, x>> \in Left'
        BY <2>1, <2>5, <4>1
      <4>3. Found(<<f, x>>) = {x} /\ <<f, x>>[1] = f
        BY <3>0 DEF Found, IsOwner, owners
      <4>4. QED
        BY <1>1, <4>2, <4>3 DEF Coming, Found, IsOwner
    <3>3. QED
      BY <3>1, <3>2
  <2>7. \A x \in WantedOf(f)' : Coming(f, x)'
    BY <1>8, <2>6
  <2>8. QED
    BY <2>1, <2>2, <2>3, <2>7 DEF Reached
<1>11. ASSUME NEW f \in (ReadFamilies \cap ledger'.begun) \ ledger'.unsupported
       PROVE  Covered(f)'
  BY <1>9, <1>10 DEF Covered
<1>12. QED
  BY <1>11 DEF CoverInv

(* One read, or one passed by. *)
LEMMA CoverOneRead ==
  ASSUME TypeInv, CoreInv, CoverInv, step \in ReadsSteps, step' = step, NEW f,
         UNCHANGED <<env, ctx, listed, byOwner>>,
         ledger'.begun = ledger.begun, ledger'.done = ledger.done, ledger'.unsupported = ledger.unsupported,
         ledger.drops \subseteq ledger'.drops, whole \subseteq whole', dates \subseteq dates',
         "checks" \in ledger.begun => \A x : <<"prs", x>> \in rows' <=> <<"prs", x>> \in rows,
         \A v \in Left : v[1] # f => v \in Left',
         \/ Dropped(ledger', f, Gaps)
         \/ \A v \in Left, x \in WantedOf(f) : v[1] = f /\ x \in Found(v) => <<f, x>> \in whole' \/ Coming(f, x)'
  PROVE  CoverInv'
<1>1. ASSUME NEW g \in (ReadFamilies \cap ledger.begun) \ ledger.unsupported, ~Dropped(ledger', g, Gaps)
      PROVE  Met(g)' \/ Reached(g)'
  <2>1. Covered(g) /\ ~Dropped(ledger, g, Gaps)
    BY <1>1 DEF CoverInv, Dropped
  <2>2. ~Unread(g)
    BY DEF Unread, Lost, Closed, Ends, ReadsSteps
  <2>3. WantedOf(g)' = WantedOf(g)
    <3>1. kept' = kept
      BY DEF kept
    <3>2. CASE g = "checks"
      <4>1. \A x : <<"prs", x>> \in rows' <=> <<"prs", x>> \in rows
        BY <3>2
      <4>2. QED
        BY <3>1, <3>2, <4>1 DEF WantedOf
    <3>3. CASE g # "checks"
      BY <3>1, <3>3 DEF WantedOf
    <3>4. QED
      BY <3>2, <3>3
  <2>4. CASE Met(g)
    BY <2>3, <2>4 DEF Met
  <2>5. CASE Reached(g)
    <3>1. ASSUME NEW x \in WantedOf(g), <<g, x>> \notin whole
          PROVE  <<g, x>> \in whole' \/ Coming(g, x)'
      <4>1. Coming(g, x)
        BY <2>5, <3>1 DEF Reached
      <4>2. CASE g = "runs" /\ step = "runs" /\ "undated" \in dates
        BY <4>2 DEF Coming
      <4>3. CASE \E v \in Left : v[1] = g /\ x \in Found(v)
        <5>1. PICK v \in Left : v[1] = g /\ x \in Found(v)
          BY <4>3
        <5>2. CASE v \in Left'
          BY <5>1, <5>2 DEF Coming, Found, IsOwner
        <5>3. CASE v \notin Left'
          BY <1>1, <3>1, <5>1, <5>3
        <5>4. QED
          BY <5>2, <5>3
      <4>4. QED
        BY <4>1, <4>2, <4>3 DEF Coming
    <3>2. \A x \in WantedOf(g)' : <<g, x>> \in whole' \/ Coming(g, x)'
      BY <2>3, <3>1
    <3>3. g \notin ledger'.done /\ step' \in ReadsSteps
      BY <2>5 DEF Reached
    <3>4. QED
      BY <3>2, <3>3 DEF Reached
  <2>6. QED
    BY <2>1, <2>2, <2>4, <2>5 DEF Covered
<1>2. ASSUME NEW g \in (ReadFamilies \cap ledger'.begun) \ ledger'.unsupported
      PROVE  Covered(g)'
  BY <1>1 DEF Covered
<1>3. QED
  BY <1>2 DEF CoverInv

LEMMA CoverSkip ==
  ASSUME TypeInv, CoreInv, CoverInv, Skip
  PROVE  CoverInv'
<1> DEFINE u == Head(todo)
<1>1. /\ todo # <<>> /\ Skips(u) /\ todo' = Tail(todo)
      /\ ledger' = IF IsOwner(u) THEN ledger ELSE Drop(ledger, u[1], "skipped")
      /\ UNCHANGED <<env, step, ctx, listed, byOwner, rows, dates, whole>>
  BY DEF Skip, scan
<1>2. u \in Left /\ Left = {u} \cup Left' /\ ledger \in LedgerSet
  BY <1>1, TypeFacts, TailElements DEF Left
<1> HIDE DEF u
<1>3. PICK f \in Families : f = u[1]
  BY <1>2, ReadsHead
<1>4. f \in ledger.begun /\ step \in ReadsSteps /\ (IsOwner(u) => f \in {"prs", "issues"})
  BY <1>2, <1>3, ReadsHead
<1>5. /\ ledger'.begun = ledger.begun /\ ledger'.done = ledger.done /\ ledger'.unsupported = ledger.unsupported
      /\ ledger.drops \subseteq ledger'.drops
  <2>1. CASE IsOwner(u)
    BY <1>1, <2>1
  <2>2. CASE ~IsOwner(u)
    <3>1. ledger' = Drop(ledger, f, "skipped") /\ "skipped" \in Reasons
      BY <1>1, <1>3, <2>2 DEF Reasons, Excluded
    <3>2. LET m == Drop(ledger, f, "skipped")
          IN  /\ Keeps(ledger, m) /\ m.begun = ledger.begun \cup {f} /\ m.drops = ledger.drops \cup {<<f, "skipped">>}
      BY <1>2, <3>1, DropMany
    <3>3. QED
      BY <1>4, <3>1, <3>2 DEF Keeps
  <2>3. QED
    BY <2>1, <2>2
<1>6. \/ Dropped(ledger', f, Gaps)
      \/ \A v \in Left, x \in WantedOf(f) : v[1] = f /\ x \in Found(v) => <<f, x>> \in whole' \/ Coming(f, x)'
  <2>1. CASE IsOwner(u) /\ Blind(ledger, f)
    <3>1. ~Dropped(ledger, f, {"noRepos", "sourceBlind"})
      <4>1. \A d \in ledger.drops : d[1] = f => d[2] \notin {"noRepos", "sourceBlind"}
        BY <1>4, <2>1 DEF CoreInv, LedgerInv, DropFits
      <4>2. \A r : <<f, r>>[1] = f /\ <<f, r>>[2] = r
        OBVIOUS
      <4>3. QED
        BY <4>1, <4>2 DEF Dropped
    <3>2. Dropped(ledger, f, {"ownerFailed", "failed", "refused"})
      BY <2>1, <3>1 DEF Blind, Dropped, BlindReasons
    <3>3. QED
      BY <1>5, <3>2 DEF Dropped, Gaps
  <2>2. CASE f \in {"security", "workflows"} /\ u[2] \in env.forks
    <3>1. ~IsOwner(u)
      BY <1>4, <2>2
    <3>2. \A x \in WantedOf(f) : x \notin Found(u)
      BY <2>2, <3>1 DEF WantedOf, Found
    <3>3. \A v \in Left, x \in WantedOf(f) : v[1] = f /\ x \in Found(v) => v \in Left'
      BY <1>2, <3>2
    <3>4. QED
      BY <1>1, <3>3 DEF Coming, Found, IsOwner
  <2>3. QED
    BY <1>1, <1>3, <2>1, <2>2 DEF Skips
<1>7. \A v \in Left : v[1] # f => v \in Left'
  BY <1>2, <1>3
<1>8. QED
  BY <1>1, <1>4, <1>5, <1>6, <1>7, CoverOneRead

(* The reads end with their step under way. *)
LEMMA CoverStops ==
  ASSUME TypeInv, CoreInv, CoverInv, step \in ReadsSteps,
         UNCHANGED <<env, listed, byOwner, rows>>, whole \subseteq whole',
         ledger'.begun = ledger.begun, ledger'.done = ledger.done, ledger'.unsupported = ledger.unsupported,
         ledger.drops \subseteq ledger'.drops,
         \A g \in ledger.begun \ ledger.done : Lost' \/ <<g, "stopped">> \in ledger'.drops
  PROVE  CoverInv'
<1>1. ASSUME NEW g \in (ReadFamilies \cap ledger'.begun) \ ledger'.unsupported
      PROVE  Covered(g)'
  <2>1. CASE g \in ledger.done
    <3>1. Dropped(ledger, g, Gaps) => Dropped(ledger', g, Gaps)
      BY DEF Dropped
    <3>2. WantedOf(g)' = WantedOf(g)
      BY DEF WantedOf, kept
    <3>3. Met(g) => Met(g)'
      BY <3>2 DEF Met
    <3>4. Covered(g) /\ ~Unread(g) /\ ~Reached(g)
      BY <2>1 DEF CoverInv, Unread, Reached
    <3>5. QED
      BY <3>1, <3>3, <3>4 DEF Covered
  <2>2. CASE g \notin ledger.done
    <3>1. CASE Lost'
      BY <2>2, <3>1 DEF Covered, Unread
    <3>2. CASE <<g, "stopped">> \in ledger'.drops
      BY <3>2 DEF Covered, Dropped, Gaps
    <3>3. QED
      BY <2>2, <3>1, <3>2
  <2>3. QED
    BY <2>1, <2>2
<1>2. QED
  BY <1>1 DEF CoverInv

LEMMA CoverRead ==
  ASSUME TypeInv, CoreInv, CoverInv, Read
  PROVE  CoverInv'
<1>1. PICK u, a :
         /\ todo # <<>> /\ u = Head(todo) /\ u \in Left /\ ~Skips(u)
         /\ env' = env /\ open' = open /\ ctx' = ctx /\ listed' = listed /\ byOwner' = byOwner /\ keptWhole' = keptWhole
         /\ \/ ReadStops(u, a.end) /\ ReadsOnly(u) /\ dates' = dates
            \/ ReadLost /\ ReadsOnly(u) /\ dates' = dates
            \/ ReadShort(u, a.end) /\ ReadsOnly(u) /\ dates' = dates
            \/ SnapshotLost(u, a.end) /\ ReadsOnly(u) /\ dates' = dates
            \/ FellBack(u) /\ ReadsOnly(u) /\ dates' = dates
            \/ ReadUndated(u) /\ ReadsOnly(u)
            \/ Returned(u, a)
  BY ReadCases
<1>2. PICK f \in Families : f = u[1]
  BY <1>1, ReadsHead
<1>3. /\ step \in ReadsSteps /\ f \in ledger.begun /\ f \in FamiliesOf(step) /\ f \in ReadFamilies /\ f # "repos"
      /\ ledger \in LedgerSet
  BY <1>1, <1>2, ReadsHead, TypeFacts DEF ReadFamilies
<1>4. Left = {u} \cup ToSet(Tail(todo)) /\ IsSeq(Tail(todo))
  BY <1>1, TypeFacts, TailElements DEF Left
<1>5. ledger.stop = "none"
  BY <1>3 DEF CoreInv, StepInv
<1>6. CASE ReadStops(u, a.end) /\ ReadsOnly(u) /\ dates' = dates
  <2>1. ledger' = Stopped(ledger, f, a.end) /\ a.end \in Stops /\ whole \subseteq whole' /\ rows' = rows
    BY <1>2, <1>6 DEF ReadStops, ReadsOnly
  <2>2. LET m == Stopped(ledger, f, a.end)
        IN  /\ ledger.begun \subseteq m.begun /\ m.begun \subseteq ledger.begun \cup {f}
            /\ ledger.drops \subseteq m.drops
            /\ \A g \in m.begun \ m.done : <<g, "stopped">> \in m.drops
            /\ m.done = ledger.done /\ m.unsupported = ledger.unsupported
    BY <1>3, <2>1, StoppedFields
  <2>3. /\ ledger'.begun = ledger.begun /\ ledger.drops \subseteq ledger'.drops
        /\ \A g \in ledger.begun \ ledger.done : <<g, "stopped">> \in ledger'.drops
        /\ ledger'.done = ledger.done /\ ledger'.unsupported = ledger.unsupported
    BY <1>3, <2>1, <2>2
  <2>4. QED
    BY <1>1, <1>3, <2>1, <2>3, CoverStops
<1>7. CASE ReadLost /\ ReadsOnly(u) /\ dates' = dates
  <2>1. ledger' = ledger /\ step' = "end" /\ ctx # "live" /\ whole \subseteq whole' /\ rows' = rows
    BY <1>7 DEF ReadLost, ReadsOnly
  <2>2. Lost'
    BY <1>1, <1>5, <2>1 DEF Lost
  <2>3. QED
    BY <1>1, <1>3, <2>1, <2>2, CoverStops
<1>8. CASE ReadShort(u, a.end) /\ ReadsOnly(u) /\ dates' = dates
  <2>1. /\ ledger' = Record(ledger, f, a.end) /\ step' = step /\ todo' = Tail(todo) /\ whole \subseteq whole'
        /\ a.end \notin {"whole", "none", "cut"} /\ rows' = rows
    BY <1>2, <1>3, <1>8 DEF ReadShort, ReadsOnly, Failures, Errors
  <2>2. Noted(ledger, ledger', f, a.end)
    BY <1>3, <2>1, RecordFields
  <2>3. Shortfall(f, a.end) \in {{<<f, "refused">>}, {<<f, "failed">>}}
    BY <2>1 DEF Shortfall
  <2>4. /\ Keeps(ledger, ledger') /\ ledger'.begun = ledger.begun /\ ledger.drops \subseteq ledger'.drops
        /\ Shortfall(f, a.end) \subseteq ledger'.drops
    BY <1>3, <2>1, <2>2 DEF Noted
  <2>5. Dropped(ledger', f, Gaps)
    BY <2>3, <2>4 DEF Dropped, Gaps
  <2>6. \A v \in Left : v[1] # f => v \in Left'
    BY <1>2, <1>4, <2>1 DEF Left
  <2>7. QED
    BY <1>1, <1>3, <1>8, <2>1, <2>4, <2>5, <2>6, CoverOneRead DEF Keeps
<1>9. CASE SnapshotLost(u, a.end) /\ ReadsOnly(u) /\ dates' = dates
  <2> DEFINE r == Record(ledger, f, a.end)
  <2>1. /\ ledger' = Drop(r, f, "ownerFailed") /\ step' = step /\ whole \subseteq whole' /\ rows' = rows
        /\ todo' = Among(Tail(todo), {v \in Left : v[1] # u[1] \/ IsOwner(v)})
    BY <1>2, <1>9 DEF SnapshotLost, ReadsOnly
  <2>2. Noted(ledger, r, f, a.end)
    BY <1>3, RecordFields
  <2> HIDE DEF r
  <2>3. LET m == Drop(r, f, "ownerFailed")
        IN  /\ Keeps(r, m) /\ m.begun = r.begun \cup {f} /\ m.drops = r.drops \cup {<<f, "ownerFailed">>}
    BY <2>2, DropMany DEF Noted, Reasons, BlindReasons
  <2>4. /\ Keeps(ledger, ledger') /\ ledger'.begun = ledger.begun /\ ledger.drops \subseteq ledger'.drops
        /\ <<f, "ownerFailed">> \in ledger'.drops
    BY <1>3, <2>1, <2>2, <2>3 DEF Noted, Keeps
  <2>5. Dropped(ledger', f, Gaps)
    BY <2>4 DEF Dropped, Gaps
  <2>6. Left' = ToSet(Tail(todo)) \cap {v \in Left : v[1] # u[1] \/ IsOwner(v)}
    BY <1>4, <2>1, AmongElements DEF Left
  <2>7. \A v \in Left : v[1] # f => v \in Left'
    BY <1>2, <1>4, <2>6
  <2>8. QED
    BY <1>1, <1>3, <1>9, <2>1, <2>4, <2>5, <2>7, CoverOneRead DEF Keeps
<1>10. CASE FellBack(u) /\ ReadsOnly(u) /\ dates' = dates
  <2>1. /\ todo' = [i \in DOMAIN Among(Repos, byOwner[u[2]]) |-> <<u[1], Among(Repos, byOwner[u[2]])[i]>>] \o Tail(todo)
        /\ step' = step /\ ledger' = ledger /\ f \in {"prs", "issues"} /\ whole' = whole /\ rows' = rows /\ IsOwner(u)
    BY <1>2, <1>10 DEF FellBack, FallsBack, ReadsOnly
  <2>2. \A v : v \in Left' <=> v \in ToSet(Tail(todo)) \/ \E x \in byOwner[u[2]] : v = <<u[1], x>>
    BY <1>4, <2>1, FallsBackElements
  <2>3. ASSUME NEW v \in Left, NEW x \in WantedOf(f), v[1] = f, x \in Found(v)
        PROVE  Coming(f, x)'
    <3>1. x \in kept /\ x \notin owners
      BY <2>1, TypeFacts, NamesSequences DEF WantedOf
    <3>2. CASE v = u
      <4>1. <<f, x>> \in Left'
        BY <1>2, <2>1, <2>2, <2>3, <3>1, <3>2 DEF Found
      <4>2. x \in Found(<<f, x>>) /\ <<f, x>>[1] = f
        BY <3>1 DEF Found, IsOwner, owners
      <4>3. QED
        BY <1>1, <4>1, <4>2 DEF Coming, Found, IsOwner
    <3>3. CASE v # u
      <4>1. v \in Left'
        BY <1>4, <2>2, <3>3
      <4>2. QED
        BY <1>1, <2>3, <4>1 DEF Coming, Found, IsOwner
    <3>4. QED
      BY <3>2, <3>3
  <2>4. \A v \in Left : v[1] # f => v \in Left'
    BY <1>2, <1>4, <2>2
  <2>5. QED
    BY <1>1, <1>3, <1>10, <2>1, <2>3, <2>4, CoverOneRead
<1>11. CASE ReadUndated(u) /\ ReadsOnly(u)
  <2>1. ledger' = ledger /\ step' = step /\ todo' = Tail(todo) /\ whole \subseteq whole' /\ rows' = rows
        /\ dates' = dates \cup {"undated"} /\ f = "runs"
    BY <1>2, <1>11 DEF ReadUndated, ReadsOnly
  <2>2. step = "runs"
    BY <1>3, <2>1 DEF FamiliesOf, ReadsSteps
  <2>3. \A x : Coming(f, x)'
    BY <2>1, <2>2 DEF Coming
  <2>4. \A v \in Left : v[1] # f => v \in Left'
    BY <1>2, <1>4, <2>1 DEF Left
  <2>5. QED
    BY <1>1, <1>3, <2>1, <2>3, <2>4, CoverOneRead
<1>12. CASE Returned(u, a)
  <2>1. /\ Returns(u, a) /\ step' = step
        /\ a.end \in {"whole", "cut", "empty", "none", "noHead", "tokenUnsupported"}
        /\ a.end \in {"whole", "empty", "none", "tokenUnsupported"} => a.all
        /\ whole' = whole \cup IF a.all THEN {<<f, x>> : x \in Lists(u)} ELSE {}
    BY <1>2, <1>12 DEF Returned
  <2>2. ReturnEffect(u, a)
    BY <1>2, <1>3, <2>1, ReturnsFields
  <2>3. /\ Keeps(ledger, ledger') /\ ledger'.begun = ledger.begun
        /\ ledger.drops \subseteq ledger'.drops /\ ReturnDrops(f, a.end) \subseteq ledger'.drops
    BY <1>2, <1>3, <2>2 DEF ReturnEffect
  <2>4. todo' = Tail(todo) /\ dates \subseteq dates'
        /\ rows' = rows \cup IF f = "checks" THEN {} ELSE {<<f, x>> : x \in (IF a.end \in {"whole", "cut"} THEN Lists(u) ELSE {}) \cap kept}
    BY <1>2, <2>1 DEF Returns
  <2>5. Left' = ToSet(Tail(todo))
    BY <2>4 DEF Left
  <2>6. \/ Dropped(ledger', f, Gaps)
        \/ \A v \in Left, x \in WantedOf(f) : v[1] = f /\ x \in Found(v) => <<f, x>> \in whole' \/ Coming(f, x)'
    <3>1. CASE a.end \in {"cut", "noHead"}
      <4>1. <<f, a.end>> \in ledger'.drops
        BY <2>3, <3>1 DEF ReturnDrops
      <4>2. QED
        BY <3>1, <4>1 DEF Dropped, Gaps
    <3>2. CASE a.all
      <4>1. ASSUME NEW v \in Left, NEW x \in WantedOf(f), v[1] = f, x \in Found(v)
            PROVE  <<f, x>> \in whole' \/ Coming(f, x)'
        <5>1. CASE v = u
          <6>1. x \in Lists(u)
            BY <4>1, <5>1, TypeFacts DEF Found, Lists, IsOwner, owners
          <6>2. QED
            BY <2>1, <3>2, <6>1
        <5>2. CASE v # u
          <6>1. v \in Left'
            BY <1>4, <2>5, <5>2
          <6>2. QED
            BY <1>1, <4>1, <6>1 DEF Coming, Found, IsOwner
        <5>3. QED
          BY <5>1, <5>2
      <4>2. QED
        BY <4>1
    <3>3. QED
      BY <2>1, <3>1, <3>2
  <2>7. "checks" \in ledger.begun => \A x : <<"prs", x>> \in rows' <=> <<"prs", x>> \in rows
    <3>1. "checks" \in ledger.begun => f # "prs"
      BY <1>3 DEF CoreInv, StepInv, FamiliesOf, ReadsSteps
    <3>2. \A x, y : <<"prs", x>> = <<f, y>> => f = "prs"
      OBVIOUS
    <3>3. QED
      BY <2>4, <3>1, <3>2
  <2>8. \A v \in Left : v[1] # f => v \in Left'
    BY <1>2, <1>4, <2>5
  <2>9. QED
    BY <1>1, <1>3, <2>1, <2>3, <2>4, <2>6, <2>7, <2>8, CoverOneRead DEF Keeps
<1>13. QED
  BY <1>1, <1>6, <1>7, <1>8, <1>9, <1>10, <1>11, <1>12

(* What is missing when the reads are over stays missing. *)
LEMMA CoverLater ==
  ASSUME CoverInv, UNCHANGED <<env, listed, byOwner, whole>>, rows' \subseteq rows, step \notin ReadsSteps,
         ledger'.begun \cap ReadFamilies = ledger.begun \cap ReadFamilies,
         ledger'.done \cap ReadFamilies = ledger.done \cap ReadFamilies,
         ledger'.unsupported = ledger.unsupported, ledger.drops \subseteq ledger'.drops,
         Lost => Lost' \/ \A g \in ledger.begun \ ledger.done : <<g, "stopped">> \in ledger'.drops
  PROVE  CoverInv'
<1>1. ASSUME NEW g \in ReadFamilies, g \in ledger'.begun, g \notin ledger'.unsupported
      PROVE  Covered(g)'
  <2>1. Covered(g) /\ ~Reached(g) /\ g \in ledger.begun
    BY <1>1 DEF CoverInv, Reached
  <2>2. CASE Dropped(ledger, g, Gaps)
    BY <2>2 DEF Covered, Dropped
  <2>3. CASE Met(g)
    <3>1. WantedOf(g)' \subseteq WantedOf(g)
      BY DEF WantedOf, kept
    <3>2. QED
      BY <2>3, <3>1 DEF Covered, Met
  <2>4. CASE Unread(g)
    <3>1. Lost /\ g \in ledger.begun \ ledger.done /\ g \notin ledger'.done
      BY <1>1, <2>1, <2>4 DEF Unread
    <3>2. CASE Lost'
      BY <3>1, <3>2 DEF Covered, Unread
    <3>3. CASE <<g, "stopped">> \in ledger'.drops
      BY <3>3 DEF Covered, Dropped, Gaps
    <3>4. QED
      BY <3>1, <3>2, <3>3
  <2>5. QED
    BY <2>1, <2>2, <2>3, <2>4 DEF Covered
<1>2. QED
  BY <1>1 DEF CoverInv

LEMMA CoverEndReads ==
  ASSUME TypeInv, CoverInv, EndReads
  PROVE  CoverInv'
<1> DEFINE g == Flag(ledger, {"timedOut"})
           m == Halt(g, "scan_timeout")
<1>1. /\ step \in {"end", "unopened"} /\ step' = "save"
      /\ ledger' = IF ledger.stop = "none" /\ ctx = "limit" THEN m ELSE ledger
      /\ rows' \subseteq rows /\ UNCHANGED <<env, ctx, listed, byOwner, whole>>
  BY DEF EndReads, Approve
<1>2. /\ m.begun = ledger.begun /\ m.done = ledger.done /\ m.unsupported = ledger.unsupported
      /\ m.drops = ledger.drops \cup {<<f, "stopped">> : f \in ledger.begun \ ledger.done}
  <2>1. /\ g \in LedgerSet /\ g.begun = ledger.begun /\ g.done = ledger.done
        /\ g.unsupported = ledger.unsupported /\ g.drops = ledger.drops
    BY TypeFacts, FlagFields DEF Flags
  <2> HIDE DEF g
  <2>2. /\ m.drops = g.drops \cup {<<f, "stopped">> : f \in g.begun \ g.done}
        /\ m.begun = g.begun /\ m.done = g.done /\ m.unsupported = g.unsupported
    BY <2>1, HaltFields DEF StopReasons
  <2> HIDE DEF m
  <2>3. QED
    BY <2>1, <2>2
<1> HIDE DEF m
<1>3. step \notin ReadsSteps
  BY <1>1 DEF ReadsSteps
<1>4. CASE ledger' = m
  BY <1>1, <1>2, <1>3, <1>4, CoverLater
<1>5. CASE ledger' = ledger /\ ~(ledger.stop = "none" /\ ctx = "limit")
  <2>1. Lost => Lost'
    BY <1>1, <1>5, TypeNow DEF Lost, Closed
  <2>2. QED
    BY <1>1, <1>3, <1>5, <2>1, CoverLater
<1>6. QED
  BY <1>1, <1>4, <1>5

LEMMA CoverCloses ==
  ASSUME TypeInv, CoverInv,
         Publish \/ \E answer \in {"stored", "notDurable", "failed", "cut"} : Save(answer)
  PROVE  CoverInv'
<1>1. /\ step \in {"save", "saved"} /\ step' \in Closed
      /\ UNCHANGED <<env, ctx, listed, byOwner, rows, whole>>
  BY DEF Publish, Save, scan, Ends, Closed
<1>2. /\ ledger'.begun \subseteq ledger.begun \cup {"state", "failing"} /\ ledger.begun \subseteq ledger'.begun
      /\ ledger'.done \subseteq ledger.done \cup {"state", "failing"} /\ ledger.done \subseteq ledger'.done
      /\ ledger'.unsupported = ledger.unsupported /\ ledger.drops \subseteq ledger'.drops
  <2>1. ASSUME NEW answer \in {"stored", "notDurable", "failed", "cut"}, Save(answer)
        PROVE  /\ ledger'.begun = ledger.begun \cup {"state"} /\ ledger'.done = ledger.done \cup {"state"}
               /\ ledger'.unsupported = ledger.unsupported /\ ledger.drops \subseteq ledger'.drops
    BY <2>1, SaveFields
  <2>2. CASE Publish
    <3>1. ledger' = IF ledger.stop = "none" THEN Derive(ledger) ELSE ledger
      BY <2>2 DEF Publish
    <3>2. LET m == Derive(ledger)
          IN  /\ m.unsupported = ledger.unsupported
              /\ \/ m = ledger
                 \/ /\ m.begun = ledger.begun \cup {"failing"} /\ m.done = ledger.done
                    /\ m.drops = ledger.drops \cup {<<"failing", "sourceBlind">>}
                 \/ /\ m.begun = ledger.begun \cup {"failing"} /\ m.done = ledger.done \cup {"failing"}
                    /\ m.drops = ledger.drops
      BY TypeFacts, DeriveFields
    <3>3. QED
      BY <3>1, <3>2
  <2>3. QED
    BY <2>1, <2>2
<1>3. Lost => Lost'
  BY <1>1 DEF Lost
<1>4. /\ ledger'.begun \cap ReadFamilies = ledger.begun \cap ReadFamilies
      /\ ledger'.done \cap ReadFamilies = ledger.done \cap ReadFamilies
  BY <1>2 DEF ReadFamilies
<1>5. step \notin ReadsSteps
  BY <1>1 DEF ReadsSteps
<1>6. QED
  BY <1>1, <1>2, <1>3, <1>4, <1>5, CoverLater

LEMMA CoverSame ==
  ASSUME CoverInv, UNCHANGED <<env, step, todo, ledger, listed, byOwner, rows, dates, whole>>, Lost => Lost'
  PROVE  CoverInv'
<1>1. ASSUME NEW f
      PROVE  Covered(f) => Covered(f)'
  <2>1. WantedOf(f)' = WantedOf(f)
    BY DEF WantedOf, kept
  <2>2. \A x : Coming(f, x) => Coming(f, x)'
    BY DEF Coming, Found, Left, IsOwner
  <2>3. QED
    BY <2>1, <2>2 DEF Covered, Met, Unread, Reached
<1>2. QED
  BY <1>1 DEF CoverInv

LEMMA CoverStep ==
  ASSUME TypeInv, CoreInv, CoverInv, CoreInv', [Next]_vars
  PROVE  CoverInv'
<1>1. CASE UNCHANGED vars
  <2>1. UNCHANGED <<env, step, todo, ctx, ledger, listed, byOwner, rows, dates, whole>>
    BY <1>1 DEF vars, scan
  <2>2. Lost => Lost'
    BY <2>1 DEF Lost
  <2>3. QED
    BY <2>1, <2>2, CoverSame
<1>2. ASSUME NEW how \in {"limit", "shutdown"}, CtxEnds(how)
      PROVE  CoverInv'
  <2>1. ctx = "live" /\ UNCHANGED <<env, step, todo, ledger, listed, byOwner, rows, dates, whole>>
    BY <1>2 DEF CtxEnds, scan
  <2>2. ~Lost
    BY <2>1 DEF Lost
  <2>3. QED
    BY <2>1, <2>2, CoverSame
<1>3. QED
  BY <1>1, <1>2, CoverOpens, CoverNextStep, CoverSkip, CoverRead, CoverEndReads, CoverCloses DEF Next

(* A complete listing of the repositories answered all that are there. *)
LEMMA ReposWhole ==
  ASSUME CoreInv, ~Lost, step \in Closed, State(ledger)["repos"] = "complete"
  PROVE  /\ Live \subseteq listed
         /\ \A o \in owners : <<"repos", o>> \in whole
<1>1. "repos" \in ledger.begun /\ ~Dropped(ledger, "repos", Partial \cup BlindReasons)
  <2>1. "repos" \in Families
    BY DEF Families
  <2>2. QED
    BY <2>1, CompleteStates
<1>2. ~Dropped(ledger, "repos", {"cut"}) /\ ~Dropped(ledger, "repos", {"unresolved"})
      /\ ~Dropped(ledger, "repos", {"failed", "refused", "stopped"})
  BY <1>1 DEF Dropped, Partial
<1>3. "repos" \in ledger.done
  BY <1>1, <1>2 DEF CoreInv, ReposInv, Closed, Ends
<1>4. ledger.unresolved = {}
  BY <1>2 DEF CoreInv, ReposInv
<1>5. \A o \in owners : <<"repos", o>> \in whole /\ OwnedBy[o] \ env.late \subseteq listed
  BY <1>2, <1>3, <1>4 DEF CoreInv, ReposInv
<1>6. QED
  BY <1>5, LiveIs

(* Only a family turned off is excluded, and that is only the alerts. *)
LEMMA Through1 ==
  ASSUME CoreInv, NEW f \in {"repos", "prs", "runs"}, State(ledger)[f] \in {"complete", "excluded"}
  PROVE  State(ledger)[f] = "complete"
<1>1. f \notin ledger.off
  BY DEF CoreInv, LedgerInv
<1>2. OwnState(ledger, f) # "excluded"
  BY <1>1 DEF OwnState
<1>3. QED
  BY <1>2, StateIs DEF Through

(* A family a scan's line calls complete was read whole: every listing it
   wanted, of every repository of every owner, was answered to its end,
   whatever failed, stopped, was cut or passed by elsewhere in the scan, and
   whenever the scan's limit fell. *)
THEOREM CompleteMeansWhole == Spec => []CompleteIsWhole
<1> DEFINE Inv == TypeInv /\ CoreInv /\ CoverInv
<1>1. Init => Inv
  <2>1. Init => listed = {}
    BY DEF Init, Fresh
  <2>2. QED
    BY <2>1, TypeInit, CoreInit, CoverNothing
<1>2. Inv /\ [Next]_vars => Inv'
  BY TypeStep, CoreStep, CoverStep
<1>3. Inv => CompleteIsWhole
  <2> SUFFICES ASSUME TypeInv, CoreInv, CoverInv, step \in {"complete", "stopped"},
                      NEW f \in Families, State(ledger)[f] = "complete"
               PROVE  Wanted(f) \subseteq whole
    BY DEF CompleteIsWhole
  <2>1. step \in Closed /\ step \notin ReadsSteps /\ ~Lost
    BY DEF CoreInv, EndInv, Lost, Closed, Ends, ReadsSteps
  <2>2. ASSUME NEW g \in ReadFamilies, State(ledger)[g] = "complete"
        PROVE  \A x \in WantedOf(g) : <<g, x>> \in whole
    <3>1. g \in Families
      BY DEF ReadFamilies, Families
    <3>2. g \in ledger.begun /\ g \notin ledger.unsupported /\ ~Dropped(ledger, g, Partial \cup BlindReasons)
      BY <2>2, <3>1, CompleteStates
    <3>3. ~Dropped(ledger, g, Gaps)
      BY <3>2 DEF Dropped, Gaps, Partial, BlindReasons
    <3>4. Met(g)
      BY <2>1, <3>2, <3>3 DEF CoverInv, Covered, Unread, Reached
    <3>5. QED
      BY <3>4 DEF Met
  <2>3. ASSUME State(ledger)["repos"] \in {"complete", "excluded"}
        PROVE  Live \ env.excluded \subseteq kept /\ \A o \in owners : <<"repos", o>> \in whole
    BY <2>1, <2>3, Through1, ReposWhole DEF kept
  <2>4. f \in {"repos", "prs", "issues", "runs", "failing", "checks", "security", "workflows", "state"}
    BY DEF Families
  <2>5. CASE f = "repos"
    BY <2>3, <2>5 DEF Wanted, owners
  <2>6. CASE f = "state"
    BY <2>6 DEF Wanted
  <2>7. CASE f = "checks"
    <3>1. rows \subseteq Families \X kept
      BY TypeNow DEF kept
    <3>2. ASSUME NEW r \in rows, r[1] = "prs"
          PROVE  <<"checks", r[2]>> \in whole
      <4>1. r = <<r[1], r[2]>> /\ r[2] \in kept
        BY <3>1
      <4>2. <<"prs", r[2]>> \in rows
        BY <3>2, <4>1
      <4>3. r[2] \in WantedOf("checks")
        BY <4>1, <4>2 DEF WantedOf
      <4>4. QED
        BY <2>2, <2>7, <4>3 DEF ReadFamilies
    <3>3. QED
      BY <2>7, <3>2 DEF Wanted
  <2>8. CASE f \in {"prs", "issues", "runs"}
    <3>1. Live \ env.excluded \subseteq kept
      BY <2>3, <2>8, CompleteStates
    <3>2. \A x \in kept : <<f, x>> \in whole
      BY <2>2, <2>8 DEF ReadFamilies, WantedOf
    <3>3. QED
      BY <2>8, <3>1, <3>2 DEF Wanted
  <2>9. CASE f \in {"security", "workflows"}
    <3>1. Live \ env.excluded \subseteq kept
      BY <2>3, <2>9, CompleteStates
    <3>2. \A x \in kept \ env.forks : <<f, x>> \in whole
      BY <2>2, <2>9 DEF ReadFamilies, WantedOf
    <3>3. QED
      BY <2>9, <3>1, <3>2 DEF Wanted
  <2>10. CASE f = "failing"
    <3>1. State(ledger)["runs"] = "complete"
      BY <2>10, CompleteStates, Through1
    <3>2. "runs" \in Families
      BY DEF Families
    <3>3. Live \ env.excluded \subseteq kept
      BY <2>3, <3>1, <3>2, CompleteStates
    <3>4. \A x \in kept : <<"runs", x>> \in whole
      BY <2>2, <3>1 DEF ReadFamilies, WantedOf
    <3>5. QED
      BY <2>10, <3>3, <3>4 DEF Wanted
  <2>11. QED
    BY <2>4, <2>5, <2>6, <2>7, <2>8, <2>9, <2>10
<1>4. QED
  BY <1>1, <1>2, <1>3, PTL DEF Spec

-----------------------------------------------------------------------------
(* What a read makes, whichever way it went. *)
ReadMakes(u, f) ==
    /\ f \in ReadFamilies \cap ledger.begun /\ step \in ReadsSteps
    /\ UNCHANGED <<env, ctx, listed, byOwner>>
    /\ Keeps(ledger, ledger') /\ ledger'.begun = ledger.begun
    /\ ledger.ok \subseteq ledger'.ok /\ ledger.drops \subseteq ledger'.drops /\ ledger.flags \subseteq ledger'.flags
    /\ \A d \in ledger'.drops \ ledger.drops : d[1] = f \/ d[2] = "stopped"
    /\ f \in {"prs", "issues"} =>
          \/ \A d \in ledger'.drops \ ledger.drops : d[2] \notin {"failed", "refused"}
          \/ <<f, "ownerFailed">> \in ledger'.drops
          \/ ledger'.stop # "none"
    /\ whole \subseteq whole' /\ whole' \subseteq whole \cup {<<f, x>> : x \in Lists(u)}
    /\ rows \subseteq rows' /\ rows' \subseteq rows \cup {<<f, x>> : x \in kept}
    /\ f = "checks" => rows' = rows
    /\ f \in {"prs", "issues"} => \A x \in kept : <<f, x>> \in whole' \ whole => <<f, x>> \in rows'
    /\ rows' = rows \/ Answered(ledger', f)
    /\ \/ step' = step /\ ledger'.stop = "none"
       \/ step' = "end" /\ (ledger'.stop # "none" \/ Lost')
    /\ {"timedOut", "connFailed"} \cap ledger'.flags \subseteq ledger.flags
    /\ "rateLimited" \in ledger'.flags => "rateLimited" \in ledger.flags \/ ledger'.stop # "none"

LEMMA ReadEffect ==
  ASSUME TypeInv, CoreInv, Read
  PROVE  \E u, f : ReadMakes(u, f)
<1>1. PICK u, a :
         /\ todo # <<>> /\ u = Head(todo) /\ u \in Left /\ ~Skips(u)
         /\ env' = env /\ open' = open /\ ctx' = ctx /\ listed' = listed /\ byOwner' = byOwner /\ keptWhole' = keptWhole
         /\ \/ ReadStops(u, a.end) /\ ReadsOnly(u) /\ dates' = dates
            \/ ReadLost /\ ReadsOnly(u) /\ dates' = dates
            \/ ReadShort(u, a.end) /\ ReadsOnly(u) /\ dates' = dates
            \/ SnapshotLost(u, a.end) /\ ReadsOnly(u) /\ dates' = dates
            \/ FellBack(u) /\ ReadsOnly(u) /\ dates' = dates
            \/ ReadUndated(u) /\ ReadsOnly(u)
            \/ Returned(u, a)
  BY ReadCases
<1>2. PICK f \in Families : f = u[1]
  BY <1>1, ReadsHead
<1>3. /\ step \in ReadsSteps /\ f \in ledger.begun /\ f \in ReadFamilies /\ f # "repos"
      /\ ledger \in LedgerSet
  BY <1>1, <1>2, ReadsHead, TypeFacts DEF ReadFamilies
<1>4. ledger.stop = "none"
  BY <1>3 DEF CoreInv, StepInv
<1>5. ASSUME Keeps(ledger, ledger'), ledger'.begun = ledger.begun,
             ledger.ok \subseteq ledger'.ok, ledger.drops \subseteq ledger'.drops, ledger.flags \subseteq ledger'.flags,
             \A d \in ledger'.drops \ ledger.drops : d[1] = f \/ d[2] = "stopped",
             f \in {"prs", "issues"} =>
                \/ \A d \in ledger'.drops \ ledger.drops : d[2] \notin {"failed", "refused"}
                \/ <<f, "ownerFailed">> \in ledger'.drops
                \/ ledger'.stop # "none",
             \/ step' = step /\ ledger'.stop = "none"
             \/ step' = "end" /\ (ledger'.stop # "none" \/ Lost'),
             {"timedOut", "connFailed"} \cap ledger'.flags \subseteq ledger.flags,
             "rateLimited" \in ledger'.flags => "rateLimited" \in ledger.flags \/ ledger'.stop # "none",
             ReadsOnly(u)
      PROVE  ReadMakes(u, f)
  <2>1. /\ whole \subseteq whole' /\ whole' \subseteq whole \cup {<<f, x>> : x \in Lists(u)}
        /\ f \in {"prs", "issues"} => whole' = whole
        /\ rows' = rows
    BY <1>2, <1>5 DEF ReadsOnly
  <2>2. QED
    BY <1>1, <1>3, <1>5, <2>1 DEF ReadMakes
<1>6. CASE ReadStops(u, a.end) /\ ReadsOnly(u) /\ dates' = dates
  <2>1. ledger' = Stopped(ledger, f, a.end) /\ a.end \in Stops /\ step' = "end"
    BY <1>2, <1>6 DEF ReadStops
  <2>2. LET m == Stopped(ledger, f, a.end)
        IN  /\ m.stop \in {"rate_limited", "read_reserve"}
            /\ ledger.begun \subseteq m.begun /\ m.begun \subseteq ledger.begun \cup {f}
            /\ ledger.drops \subseteq m.drops
            /\ \A d \in m.drops \ ledger.drops : d[1] = f \/ d[2] = "stopped"
            /\ ledger.flags \subseteq m.flags
            /\ m.flags \cap {"github", "opened", "timedOut", "connFailed"}
                 = ledger.flags \cap {"github", "opened", "timedOut", "connFailed"}
            /\ m.ok = ledger.ok /\ Keeps(ledger, m)
    BY <1>3, <2>1, StoppedFields DEF Keeps
  <2>3. /\ ledger'.stop # "none" /\ ledger'.begun = ledger.begun /\ ledger.drops \subseteq ledger'.drops
        /\ Keeps(ledger, ledger') /\ ledger'.ok = ledger.ok /\ ledger.flags \subseteq ledger'.flags
        /\ \A d \in ledger'.drops \ ledger.drops : d[1] = f \/ d[2] = "stopped"
        /\ {"timedOut", "connFailed"} \cap ledger'.flags \subseteq ledger.flags
    BY <1>3, <2>1, <2>2
  <2>4. QED
    BY <1>5, <1>6, <2>1, <2>3
<1>7. CASE ReadLost /\ ReadsOnly(u) /\ dates' = dates
  <2>1. ledger' = ledger /\ step' = "end" /\ ctx # "live"
    BY <1>7 DEF ReadLost
  <2>2. Lost' /\ Keeps(ledger, ledger')
    BY <1>1, <1>4, <2>1 DEF Lost, Keeps
  <2>3. QED
    BY <1>5, <1>7, <2>1, <2>2
<1>8. CASE ReadShort(u, a.end) /\ ReadsOnly(u) /\ dates' = dates
  <2>1. /\ ledger' = Record(ledger, f, a.end) /\ step' = step /\ f \notin {"prs", "issues"}
        /\ a.end \notin {"whole", "none", "cut", "limited", "connection"}
    BY <1>2, <1>3, <1>8 DEF ReadShort, Failures, Errors, Stops
  <2>2. Noted(ledger, ledger', f, a.end) /\ Told(ledger, ledger', a.end)
    BY <1>3, <2>1, RecordFields
  <2>3. Shortfall(f, a.end) \in {{<<f, "refused">>}, {<<f, "failed">>}}
    BY <2>1 DEF Shortfall
  <2>4. /\ Keeps(ledger, ledger') /\ ledger'.begun = ledger.begun /\ ledger'.stop = ledger.stop
        /\ ledger'.ok = ledger.ok /\ ledger.drops \subseteq ledger'.drops
        /\ \A d \in ledger'.drops \ ledger.drops : d[1] = f
    BY <1>3, <2>1, <2>2, <2>3 DEF Noted
  <2>5. /\ ledger.flags \subseteq ledger'.flags /\ {"timedOut", "connFailed"} \cap ledger'.flags \subseteq ledger.flags
        /\ "rateLimited" \in ledger'.flags => "rateLimited" \in ledger.flags
    BY <2>1, <2>2 DEF Told, Tracked
  <2>6. QED
    BY <1>4, <1>5, <1>8, <2>1, <2>4, <2>5
<1>9. CASE SnapshotLost(u, a.end) /\ ReadsOnly(u) /\ dates' = dates
  <2> DEFINE r == Record(ledger, f, a.end)
  <2>1. /\ ledger' = Drop(r, f, "ownerFailed") /\ step' = step
        /\ a.end \notin {"whole", "none", "cut", "limited", "connection"}
    BY <1>2, <1>9 DEF SnapshotLost, Failures, Errors, Stops
  <2>2. Noted(ledger, r, f, a.end) /\ Told(ledger, r, a.end)
    BY <1>3, RecordFields
  <2> HIDE DEF r
  <2>3. Shortfall(f, a.end) \in {{<<f, "refused">>}, {<<f, "failed">>}}
    BY <2>1 DEF Shortfall
  <2>4. LET m == Drop(r, f, "ownerFailed")
        IN  /\ m \in LedgerSet /\ Keeps(r, m) /\ m.stop = r.stop /\ m.ok = r.ok /\ m.flags = r.flags
            /\ m.begun = r.begun \cup {f} /\ m.drops = r.drops \cup {<<f, "ownerFailed">>}
    BY <2>2, DropMany DEF Noted, Reasons, BlindReasons
  <2>5. /\ Keeps(ledger, ledger') /\ ledger'.begun = ledger.begun /\ ledger'.stop = ledger.stop
        /\ ledger'.ok = ledger.ok /\ ledger.drops \subseteq ledger'.drops /\ ledger'.flags = r.flags
        /\ ledger'.drops = (ledger.drops \cup Shortfall(f, a.end)) \cup {<<f, "ownerFailed">>}
    BY <1>3, <2>1, <2>2, <2>4 DEF Noted, Keeps
  <2>6. (\A d \in ledger'.drops \ ledger.drops : d[1] = f) /\ <<f, "ownerFailed">> \in ledger'.drops
    BY <2>3, <2>5
  <2>7. /\ ledger.flags \subseteq ledger'.flags /\ {"timedOut", "connFailed"} \cap ledger'.flags \subseteq ledger.flags
        /\ "rateLimited" \in ledger'.flags => "rateLimited" \in ledger.flags
    BY <2>1, <2>2, <2>5 DEF Told, Tracked
  <2>8. QED
    BY <1>4, <1>5, <1>9, <2>1, <2>5, <2>6, <2>7
<1>10. ASSUME FellBack(u) \/ ReadUndated(u), ReadsOnly(u)
       PROVE  ReadMakes(u, f)
  <2>1. ledger' = ledger /\ step' = step
    BY <1>10 DEF FellBack, ReadUndated
  <2>2. Keeps(ledger, ledger')
    BY <2>1 DEF Keeps
  <2>3. QED
    BY <1>4, <1>5, <1>10, <2>1, <2>2
<1>11. CASE Returned(u, a)
  <2>1. /\ Returns(u, a) /\ step' = step
        /\ a.end \in {"whole", "cut", "empty", "none", "noHead", "tokenUnsupported"}
        /\ f \in {"prs", "issues"} => a.end = "whole"
        /\ whole' = whole \cup IF a.all THEN {<<f, x>> : x \in Lists(u)} ELSE {}
    BY <1>2, <1>11 DEF Returned
  <2>2. ReturnEffect(u, a)
    BY <1>2, <1>3, <2>1, ReturnsFields
  <2>3. /\ Keeps(ledger, ledger') /\ ledger'.begun = ledger.begun /\ ledger'.stop = ledger.stop
        /\ ledger'.flags = ledger.flags
        /\ ledger'.ok = (IF a.end \in {"whole", "empty"} THEN ledger.ok \cup {f} ELSE ledger.ok)
        /\ ledger.drops \subseteq ledger'.drops /\ ReturnDrops(f, a.end) \subseteq ledger'.drops
        /\ \A d \in ledger'.drops \ (ledger.drops \cup ReturnDrops(f, a.end)) :
              d[1] = f /\ d[2] \in {"excludedRepo", "unlisted"}
    BY <1>2, <1>3, <2>2 DEF ReturnEffect
  <2>4. \A d \in ReturnDrops(f, a.end) : d[1] = f /\ d[2] \in {"cut", "noHead", "tokenUnsupported"}
    BY DEF ReturnDrops
  <2>5. \A d \in ledger'.drops \ ledger.drops :
           d[1] = f /\ d[2] \in {"excludedRepo", "unlisted", "cut", "noHead", "tokenUnsupported"}
    BY <2>3, <2>4
  <2> DEFINE got == IF a.end \in {"whole", "cut"} THEN Lists(u) ELSE {}
  <2>6. rows' = rows \cup IF f = "checks" THEN {} ELSE {<<f, x>> : x \in got \cap kept}
    BY <1>2, <2>1 DEF Returns
  <2> HIDE DEF got
  <2>7. f \in {"prs", "issues"} => \A x \in kept : <<f, x>> \in whole' \ whole => <<f, x>> \in rows'
    <3> SUFFICES ASSUME f \in {"prs", "issues"}, NEW x \in kept, <<f, x>> \in whole' \ whole
                 PROVE  <<f, x>> \in rows'
      OBVIOUS
    <3>1. x \in Lists(u)
      BY <2>1
    <3>2. got = Lists(u)
      BY <2>1 DEF got
    <3>3. QED
      BY <2>6, <3>1, <3>2
  <2>8. rows' = rows \/ Answered(ledger', f)
    <3>1. CASE a.end = "whole"
      BY <2>3, <3>1 DEF Answered
    <3>2. CASE a.end = "cut"
      <4>1. <<f, "cut">> \in ledger'.drops
        BY <2>3, <3>2 DEF ReturnDrops
      <4>2. QED
        BY <4>1 DEF Answered, Dropped
    <3>3. CASE a.end \notin {"whole", "cut"}
      BY <2>6, <3>3 DEF got
    <3>4. QED
      BY <3>1, <3>2, <3>3
  <2>9. rows \subseteq rows' /\ rows' \subseteq rows \cup {<<f, x>> : x \in kept} /\ (f = "checks" => rows' = rows)
    BY <2>6
  <2>10. whole \subseteq whole' /\ whole' \subseteq whole \cup {<<f, x>> : x \in Lists(u)}
    BY <2>1
  <2>11. QED
    BY <1>1, <1>3, <1>4, <2>1, <2>3, <2>5, <2>7, <2>8, <2>9, <2>10 DEF ReadMakes
<1>12. QED
  BY <1>1, <1>6, <1>7, <1>8, <1>9, <1>10, <1>11

(* What the end of the reads makes. *)
EndMakes ==
    /\ step \in {"end", "unopened"} /\ step' = "save"
    /\ UNCHANGED <<env, ctx, listed, byOwner, whole>>
    /\ rows' = IF step = "end" THEN Approve(ledger', rows) ELSE rows
    /\ Keeps(ledger, ledger') /\ ledger'.begun = ledger.begun /\ ledger'.ok = ledger.ok
    /\ ledger.drops \subseteq ledger'.drops /\ \A d \in ledger'.drops \ ledger.drops : d[2] = "stopped"
    /\ ledger.flags \subseteq ledger'.flags /\ ledger'.flags \subseteq ledger.flags \cup {"timedOut"}
    /\ ledger' = ledger \/ ledger'.stop # "none"
    /\ ledger.stop # "none" \/ ctx = "limit" => ledger'.stop # "none"

LEMMA EndEffect ==
  ASSUME TypeInv, EndReads
  PROVE  EndMakes
<1> DEFINE g == Flag(ledger, {"timedOut"})
           m == Halt(g, "scan_timeout")
<1>1. /\ step \in {"end", "unopened"} /\ step' = "save"
      /\ ledger' = IF ledger.stop = "none" /\ ctx = "limit" THEN m ELSE ledger
      /\ rows' = IF step = "end" THEN Approve(ledger', rows) ELSE rows
      /\ UNCHANGED <<env, ctx, listed, byOwner, whole>>
  BY DEF EndReads
<1>2. /\ Keeps(ledger, m) /\ m.stop = "scan_timeout" /\ m.begun = ledger.begun /\ m.ok = ledger.ok
      /\ m.drops = ledger.drops \cup {<<f, "stopped">> : f \in ledger.begun \ ledger.done}
      /\ m.flags = ledger.flags \cup {"timedOut"}
  <2>1. /\ g \in LedgerSet /\ Keeps(ledger, g) /\ g.begun = ledger.begun /\ g.ok = ledger.ok
        /\ g.drops = ledger.drops /\ g.flags = ledger.flags \cup {"timedOut"}
    BY TypeFacts, FlagFields DEF Flags, Keeps
  <2> HIDE DEF g
  <2>2. /\ m.stop = "scan_timeout" /\ m.drops = g.drops \cup {<<f, "stopped">> : f \in g.begun \ g.done}
        /\ m.begun = g.begun /\ m.ok = g.ok /\ Keeps(g, m) /\ m.flags = g.flags
    BY <2>1, HaltFields DEF StopReasons, Keeps
  <2> HIDE DEF m
  <2>3. QED
    BY <2>1, <2>2 DEF Keeps
<1> HIDE DEF m
<1>3. CASE ledger' = m /\ ledger.stop = "none"
  BY <1>1, <1>2, <1>3 DEF EndMakes
<1>4. CASE ledger' = ledger /\ ~(ledger.stop = "none" /\ ctx = "limit")
  BY <1>1, <1>4 DEF EndMakes, Keeps
<1>5. QED
  BY <1>1, <1>3, <1>4

-----------------------------------------------------------------------------
(* The rows a scan publishes. *)

(* The rows of a family that reads on are those of its whole listings, and
   a step that reads nothing leaves them. *)
LEMMA RowsQuiet ==
  ASSUME RowsInv, UNCHANGED <<env, listed, byOwner, rows, whole>>,
         ledger.begun \subseteq ledger'.begun, ledger.ok \subseteq ledger'.ok, ledger.drops \subseteq ledger'.drops,
         ledger.stop # "none" => ledger'.stop # "none",
         \A d \in ledger'.drops \ ledger.drops : d[1] \in {"prs", "issues"} => d[2] \notin {"failed", "refused"},
         \/ step \notin Closed /\ step' \notin Closed
         \/ ledger' = ledger /\ step' = step /\ (step \in Closed => ctx' \in {ctx, "shutdown"})
  PROVE  RowsInv'
<1>1. kept' = kept
  BY DEF kept
<1>2. Answered(ledger, "runs") => Answered(ledger', "runs")
  BY DEF Answered, Dropped
<1>3. ASSUME NEW f \in {"prs", "issues"}, Dropped(ledger', f, {"failed", "refused"})
      PROVE  Dropped(ledger', f, {"ownerFailed"}) \/ ledger'.stop # "none"
  <2>1. Dropped(ledger, f, {"failed", "refused"})
    <3>1. PICK r \in {"failed", "refused"} : <<f, r>> \in ledger'.drops
      BY <1>3 DEF Dropped
    <3>2. <<f, r>>[1] = f /\ <<f, r>>[2] = r
      OBVIOUS
    <3>3. <<f, r>> \in ledger.drops
      BY <3>1, <3>2
    <3>4. QED
      BY <3>3 DEF Dropped
  <2>2. Dropped(ledger, f, {"ownerFailed"}) \/ ledger.stop # "none"
    BY <2>1 DEF RowsInv
  <2>3. QED
    BY <2>2 DEF Dropped
<1>4. CASE step \notin Closed /\ step' \notin Closed
  BY <1>1, <1>2, <1>3, <1>4 DEF RowsInv
<1>5. CASE ledger' = ledger /\ step' = step /\ (step \in Closed => ctx' \in {ctx, "shutdown"})
  BY <1>1, <1>5 DEF RowsInv
<1>6. QED
  BY <1>4, <1>5

(* Nothing is read before discovery answers. *)
LEMMA RowsFirst ==
  ASSUME CoreInv', rows' = {}, step' \notin Closed, ledger'.begun \cap ReadFamilies = {},
         listed' = {} \/ whole' \cap ({"prs", "issues"} \X repos) = {}, TypeInv'
  PROVE  RowsInv'
<1>1. \A f \in {"prs", "issues"}, x \in kept' : <<f, x>> \notin whole'
  <2>1. kept' \subseteq repos
    BY DEF TypeInv, kept
  <2>2. QED
    BY <2>1 DEF kept
<1>2. ASSUME NEW f \in {"prs", "issues"}, Dropped(ledger', f, {"failed", "refused"})
      PROVE  FALSE
  <2>1. PICK r : <<f, r>> \in ledger'.drops
    BY <1>2 DEF Dropped
  <2>2. <<f, r>>[1] \in ledger'.begun
    BY <2>1 DEF CoreInv, LedgerInv, DropFits
  <2>3. f \in ledger'.begun
    BY <2>2
  <2>4. QED
    BY <2>3 DEF ReadFamilies
<1>3. QED
  BY <1>1, <1>2 DEF RowsInv

LEMMA RowsOpens ==
  ASSUME TypeInv, TypeInv', CoreInv, CoreInv',
         \/ \E err \in Errors \cup {"connection", "ended"}, named \in BOOLEAN : OpenFails(err, named)
         \/ Opens \/ SharesAccount \/ GateCut \/ StartReads
         \/ \E err \in Failures : DiscoveryFails(err)
         \/ Discovered \/ NextScan
  PROVE  RowsInv'
<1>1. CASE \E err \in Failures : DiscoveryFails(err)
  <2>1. FailedDiscovery
    BY <1>1, DiscoveryFailsFields
  <2>2. QED
    BY <2>1, RowsFirst DEF FailedDiscovery, EmptyScan, ReadFamilies, Closed, Ends
<1>2. CASE NextScan
  <2>1. step' = "open" /\ listed' = {} /\ rows' = {} /\ ledger'.begun = {}
    BY <1>2 DEF NextScan, NewLedger
  <2>2. QED
    BY <2>1, RowsFirst DEF Closed, Ends
<1>3. CASE Discovered
  <2>1. /\ step' = "discover" /\ rows' = rows /\ Discovering
        /\ \E ends, got : DOMAIN ends = owners /\ Discovers(ends, got)
    <3>1. PICK ends \in [owners -> ({Listing(p) : p \in RepoPages} \cap {"whole", "cut"}) \cup {"unresolved"}],
               got \in [owners -> SUBSET repos] : Discovers(ends, got)
      BY <1>3 DEF Discovered, owners, repos
    <3>2. DOMAIN ends = owners
      BY <3>1
    <3>3. QED
      BY <1>3, <3>1, <3>2 DEF Discovered, Discovering
  <2>2. ledger'.begun = {"repos"} /\ EmptyScan /\ whole \subseteq {<<"open", env.product>>}
    BY <2>1 DEF CoreInv, StepInv
  <2>3. \E S : whole' = whole \cup {<<"repos", o>> : o \in S}
    BY <2>1 DEF Discovers
  <2>4. whole' \cap ({"prs", "issues"} \X repos) = {}
    BY <2>2, <2>3
  <2>5. QED
    BY <2>1, <2>2, <2>4, RowsFirst DEF EmptyScan, ReadFamilies, Closed, Ends
<1>4. CASE ~Discovered /\ ~NextScan /\ ~(\E err \in Failures : DiscoveryFails(err))
  <2>1. /\ listed' = listed /\ rows' = rows /\ Early
        /\ \/ step' \in {"unopened", "discover"} \cup Gated
           \/ step' = "end" /\ ledger' = ledger /\ step \in Gated
    BY <1>4 DEF OpenFails, Opens, SharesAccount, GateCut, StartReads, scan, Early, Gated
  <2>2. listed' = {} /\ rows' = {}
    BY <2>1 DEF TypeInv, EmptyScan
  <2>3. ledger'.begun \cap ReadFamilies = {}
    <3>1. CASE step' = "discover" \/ step' \in Gated
      BY <3>1 DEF CoreInv, StepInv, ReadFamilies
    <3>2. CASE step' = "unopened"
      <4>1. ledger'.done = {}
        BY <3>2 DEF CoreInv, StepInv
      <4>2. QED
        BY <4>1 DEF CoreInv, ReposInv
    <3>3. CASE step' = "end" /\ ledger' = ledger /\ step \in Gated
      BY <3>3 DEF CoreInv, StepInv
    <3>4. QED
      BY <2>1, <3>1, <3>2, <3>3
  <2>4. step' \notin Closed
    BY <2>1 DEF Closed, Ends, Gated
  <2>5. QED
    BY <2>2, <2>3, <2>4, RowsFirst
<1>5. QED
  BY <1>1, <1>2, <1>3, <1>4

LEMMA RowsSteps ==
  ASSUME TypeInv, CoreInv, RowsInv, NextStep \/ Skip
  PROVE  RowsInv'
<1>1. CASE NextStep
  <2>1. UNCHANGED <<env, listed, byOwner, rows, whole>>
    BY <1>1 DEF NextStep, scan
  <2>2. PICK l \in LedgerSet :
         /\ step \in ReadsSteps \cup {"discover"} /\ l.stop = ledger.stop /\ l.ok = ledger.ok
         /\ ledger.begun \subseteq l.begun /\ ledger.drops \subseteq l.drops
         /\ l.drops \subseteq ledger.drops \cup {<<"runs", "failed">>}
         /\ \/ step' = "end" /\ ledger' = l
            \/ step' = After(step) /\ ledger' = Begin(l, Reading(After(step), l))
    BY <1>1, NextStepCases
  <2>3. /\ ledger'.stop = l.stop /\ ledger'.ok = l.ok /\ l.begun \subseteq ledger'.begun /\ ledger'.drops = l.drops
    BY <2>2, BeginFields, ReadingFamilies
  <2>4. step \notin Closed /\ step' \notin Closed
    <3>1. After(step) \in ReadsSteps \cup {"end"}
      BY <2>2, Steps DEF ReadsSteps
    <3>2. QED
      BY <2>2, <3>1 DEF ReadsSteps, Closed, Ends
  <2>5. \A d \in ledger'.drops \ ledger.drops : d[1] \notin {"prs", "issues"}
    BY <2>2, <2>3
  <2>6. QED
    BY <2>1, <2>2, <2>3, <2>4, <2>5, RowsQuiet
<1>2. CASE Skip
  <2> DEFINE u == Head(todo)
  <2>1. /\ todo # <<>> /\ step' = step
        /\ ledger' = IF IsOwner(u) THEN ledger ELSE Drop(ledger, u[1], "skipped")
        /\ UNCHANGED <<env, listed, byOwner, rows, whole>>
    BY <1>2 DEF Skip, scan
  <2>2. u \in Left /\ ledger \in LedgerSet
    BY <2>1, TypeFacts, TailElements DEF Left
  <2> HIDE DEF u
  <2>3. PICK f \in Families : f = u[1]
    BY <2>2, ReadsHead
  <2>4. step \in ReadsSteps
    BY <2>2, ReadsHead
  <2>5. LET m == Drop(ledger, f, "skipped")
        IN  /\ m.stop = ledger.stop /\ m.ok = ledger.ok /\ m.begun = ledger.begun \cup {f}
            /\ m.drops = ledger.drops \cup {<<f, "skipped">>}
    BY <2>2, DropMany DEF Reasons, Excluded
  <2>6. /\ ledger.begun \subseteq ledger'.begun /\ ledger'.ok = ledger.ok /\ ledger'.stop = ledger.stop
        /\ ledger.drops \subseteq ledger'.drops /\ \A d \in ledger'.drops \ ledger.drops : d[2] = "skipped"
    BY <2>1, <2>3, <2>5
  <2>7. step \notin Closed
    BY <2>4 DEF ReadsSteps, Closed, Ends
  <2>8. QED
    BY <2>1, <2>6, <2>7, RowsQuiet
<1>3. QED
  BY <1>1, <1>2

LEMMA RowsRead ==
  ASSUME TypeInv, CoreInv, RowsInv, Read
  PROVE  RowsInv'
<1>1. PICK u, f : ReadMakes(u, f)
  BY ReadEffect
<1>2. /\ f \in ReadFamilies \cap ledger.begun /\ step \in ReadsSteps /\ kept' = kept
      /\ ledger'.begun = ledger.begun /\ ledger.ok \subseteq ledger'.ok /\ ledger.drops \subseteq ledger'.drops
      /\ \A d \in ledger'.drops \ ledger.drops : d[1] = f \/ d[2] = "stopped"
      /\ whole \subseteq whole' /\ whole' \subseteq whole \cup {<<f, x>> : x \in Lists(u)}
      /\ rows \subseteq rows' /\ rows' \subseteq rows \cup {<<f, x>> : x \in kept}
      /\ f = "checks" => rows' = rows
      /\ f \in {"prs", "issues"} => \A x \in kept : <<f, x>> \in whole' \ whole => <<f, x>> \in rows'
      /\ rows' = rows \/ Answered(ledger', f)
      /\ step' \in {step, "end"}
  BY <1>1 DEF ReadMakes, kept
<1>3. step \notin Closed /\ step' \notin Closed
  BY <1>2 DEF ReadsSteps, Closed, Ends
<1>4. \A g \in {"prs", "issues"}, x \in kept : <<g, x>> \in whole' => <<g, x>> \in rows'
  <2> SUFFICES ASSUME NEW g \in {"prs", "issues"}, NEW x \in kept, <<g, x>> \in whole'
               PROVE  <<g, x>> \in rows'
    OBVIOUS
  <2>1. CASE <<g, x>> \in whole
    BY <1>2, <1>3, <2>1 DEF RowsInv
  <2>2. CASE <<g, x>> \notin whole
    <3>1. g = f
      BY <1>2, <2>2
    <3>2. QED
      BY <1>2, <2>2, <3>1
  <2>3. QED
    BY <2>1, <2>2
<1>5. ASSUME NEW row \in rows'
      PROVE  /\ row[1] \in ledger'.begun /\ row[1] \in {"prs", "issues", "runs", "security", "workflows"}
             /\ row[1] = "runs" => Answered(ledger', "runs")
  <2>1. CASE row \in rows
    <3>1. Answered(ledger, "runs") => Answered(ledger', "runs")
      BY <1>2 DEF Answered, Dropped
    <3>2. QED
      BY <1>2, <2>1, <3>1 DEF RowsInv
  <2>2. CASE row \notin rows
    <3>1. row[1] = f /\ Answered(ledger', f) /\ f # "checks"
      BY <1>2, <2>2
    <3>2. QED
      BY <1>2, <3>1 DEF ReadFamilies
  <2>3. QED
    BY <2>1, <2>2
<1>6. ASSUME NEW g \in {"prs", "issues"}, Dropped(ledger', g, {"failed", "refused"})
      PROVE  Dropped(ledger', g, {"ownerFailed"}) \/ ledger'.stop # "none"
  <2>1. PICK r \in {"failed", "refused"} : <<g, r>> \in ledger'.drops
    BY <1>6 DEF Dropped
  <2>2. <<g, r>>[1] = g /\ <<g, r>>[2] = r
    OBVIOUS
  <2>3. CASE <<g, r>> \in ledger.drops
    <3>1. Dropped(ledger, g, {"failed", "refused"}) /\ ledger.stop = "none"
      BY <1>2, <2>3 DEF Dropped, CoreInv, StepInv
    <3>2. Dropped(ledger, g, {"ownerFailed"})
      BY <3>1 DEF RowsInv
    <3>3. QED
      BY <1>2, <3>2 DEF Dropped
  <2>4. CASE <<g, r>> \notin ledger.drops
    <3>1. g = f
      BY <1>2, <2>1, <2>2, <2>4
    <3>2. <<f, "ownerFailed">> \in ledger'.drops \/ ledger'.stop # "none"
      BY <1>1, <2>1, <2>2, <2>4, <3>1 DEF ReadMakes
    <3>3. QED
      BY <3>1, <3>2 DEF Dropped
  <2>5. QED
    BY <2>3, <2>4
<1>7. QED
  BY <1>2, <1>3, <1>4, <1>5, <1>6 DEF RowsInv

LEMMA RowsInit ==
  ASSUME Init
  PROVE  RowsInv
BY DEF Init, Fresh, RowsInv, kept, NewLedger, Dropped, Closed, Ends

(* No read is a stop's victim while nothing stops the scan. *)
LEMMA GapsRead ==
  ASSUME LedgerInv, ledger.stop = "none", NEW f \in {"prs", "issues"}, Dropped(ledger, f, Gaps)
  PROVE  Dropped(ledger, f, {"failed", "refused", "cut", "ownerFailed"})
<1>1. PICK r \in Gaps : <<f, r>> \in ledger.drops
  BY DEF Dropped
<1>2. DropFits(ledger, <<f, r>>)
  BY <1>1 DEF LedgerInv
<1>3. r # "stopped" /\ r # "noHead"
  BY <1>2 DEF DropFits
<1>4. QED
  BY <1>1, <1>3 DEF Gaps, Dropped

LEMMA RowsEndReads ==
  ASSUME TypeInv, CoreInv, CoverInv, RowsInv, EndReads
  PROVE  RowsInv'
<1>1. /\ step \in {"end", "unopened"} /\ step' = "save"
      /\ UNCHANGED <<env, ctx, listed, byOwner, whole>>
      /\ rows' = IF step = "end" THEN Approve(ledger', rows) ELSE rows
      /\ Keeps(ledger, ledger') /\ ledger'.begun = ledger.begun /\ ledger'.ok = ledger.ok
      /\ ledger.drops \subseteq ledger'.drops /\ \A d \in ledger'.drops \ ledger.drops : d[2] = "stopped"
      /\ ledger' = ledger \/ ledger'.stop # "none"
      /\ ledger.stop # "none" \/ ctx = "limit" => ledger'.stop # "none"
  BY EndEffect DEF EndMakes
<1>2. step' \in Closed /\ kept' = kept /\ rows' \subseteq rows
  BY <1>1 DEF Closed, kept, Approve
<1>3. ASSUME NEW row \in rows'
      PROVE  /\ row \in rows /\ step = "end"
             /\ row[1] = "runs" \/ ~Withheld(ledger', row[1])
  <2>1. step = "unopened" => rows = {}
    BY DEF CoreInv, StepInv, EmptyScan
  <2>2. QED
    BY <1>1, <1>3, <2>1 DEF Approve
<1>4. ASSUME NEW row \in rows'
      PROVE  /\ row[1] \in ledger'.begun /\ row[1] \in {"prs", "issues", "runs", "security", "workflows"}
             /\ row[1] = "runs" => Answered(ledger', "runs")
  <2>1. Answered(ledger, "runs") => Answered(ledger', "runs")
    BY <1>1 DEF Answered, Dropped
  <2>2. QED
    BY <1>1, <1>3, <1>4, <2>1 DEF RowsInv
<1>5. ASSUME NEW f \in {"prs", "issues"}, Dropped(ledger', f, {"failed", "refused"})
      PROVE  Dropped(ledger', f, {"ownerFailed"}) \/ ledger'.stop # "none"
  <2>1. PICK r \in {"failed", "refused"} : <<f, r>> \in ledger'.drops
    BY <1>5 DEF Dropped
  <2>2. <<f, r>>[2] = r
    OBVIOUS
  <2>3. <<f, r>> \in ledger.drops
    BY <1>1, <2>1, <2>2
  <2>4. Dropped(ledger, f, {"ownerFailed"}) \/ ledger.stop # "none"
    BY <2>3 DEF RowsInv, Dropped
  <2>5. QED
    BY <1>1, <2>4 DEF Dropped
<1>6. ASSUME NEW f \in {"prs", "issues", "security"}, Blind(ledger', f), NEW row \in rows', row[1] = f
      PROVE  FALSE
  <2>1. f \in ledger.begun /\ f \in Families
    BY <1>1, <1>4, <1>6 DEF Families
  <2>2. f \notin ledger'.off
    BY <1>1, <2>1 DEF Keeps, CoreInv, LedgerInv
  <2>3. State(ledger')[f] = "blind"
    BY <1>6, <2>1, <2>2, BlindStates
  <2>4. QED
    BY <1>3, <1>6, <2>3 DEF Withheld
<1>7. ASSUME ledger'.stop = "none", ctx' # "shutdown", NEW f \in {"prs", "issues"}, NEW row \in rows', row[1] = f
      PROVE  /\ \A x \in kept : <<f, x>> \in rows' \cap whole
             /\ "repos" \in ledger'.done /\ ~Dropped(ledger', "repos", {"cut"})
  <2>1. ledger' = ledger /\ ledger.stop = "none" /\ ctx = "live" /\ step = "end"
    BY <1>1, <1>3, <1>7, TypeNow
  <2>2. row \in rows /\ ~Withheld(ledger, f) /\ f \in ledger.begun
    BY <1>3, <1>7, <2>1 DEF RowsInv
  <2>3. f \in Families /\ f \notin ledger.off /\ f \notin ledger.unsupported /\ f \in ReadFamilies
    BY DEF Families, CoreInv, LedgerInv, ReadFamilies
  <2>4. ~Blind(ledger, f) /\ ~Dropped(ledger, f, {"cut"}) /\ ~Dropped(ledger, "repos", {"cut"})
    BY <2>2, <2>3, BlindStates DEF Withheld
  <2>5. ~Dropped(ledger, f, {"ownerFailed"}) /\ ~Dropped(ledger, f, {"failed", "refused"})
    <3>1. ~Dropped(ledger, f, BlindReasons)
      BY <2>3, <2>4 DEF Blind
    <3>2. ~Dropped(ledger, f, {"ownerFailed"})
      BY <3>1 DEF Dropped, BlindReasons
    <3>3. QED
      BY <2>1, <3>2 DEF RowsInv
  <2>6. ~Dropped(ledger, f, Gaps)
    <3>1. ~Dropped(ledger, f, {"failed", "refused", "cut", "ownerFailed"})
      BY <2>4, <2>5 DEF Dropped
    <3>2. QED
      BY <2>1, <3>1, GapsRead DEF CoreInv
  <2>7. Met(f)
    BY <2>1, <2>2, <2>3, <2>6 DEF CoverInv, Covered, Unread, Reached, Lost, Closed, Ends, ReadsSteps
  <2>8. \A x \in kept : <<f, x>> \in whole
    BY <2>7 DEF Met, WantedOf
  <2>9. \A x \in kept : <<f, x>> \in rows
    BY <2>1, <2>8 DEF RowsInv, Closed, Ends
  <2>10. \A x \in kept : <<f, x>> \in rows'
    <3> SUFFICES ASSUME NEW x \in kept
                 PROVE  <<f, x>> \in rows'
      OBVIOUS
    <3>1. <<f, x>>[1] = f
      OBVIOUS
    <3>2. QED
      BY <1>1, <2>1, <2>2, <2>9, <3>1 DEF Approve
  <2>11. "repos" \in ledger.done
    BY <2>2 DEF CoreInv, ReposInv, EmptyScan
  <2>12. QED
    BY <2>1, <2>4, <2>8, <2>10, <2>11
<1>8. QED
  <2>1. \A f \in {"prs", "issues"}, x \in kept' : step' \notin Closed /\ <<f, x>> \in whole' => <<f, x>> \in rows'
    BY <1>2
  <2>2. step' \in Closed => \A f \in {"prs", "issues", "security"} :
           Blind(ledger', f) => \A row \in rows' : row[1] # f
    BY <1>6
  <2>3. step' \in Closed /\ ledger'.stop = "none" /\ ctx' # "shutdown" => \A f \in {"prs", "issues"} :
          \/ \A row \in rows' : row[1] # f
          \/ /\ \A x \in kept' : <<f, x>> \in rows' \cap whole'
             /\ "repos" \in ledger'.done /\ ~Dropped(ledger', "repos", {"cut"})
    BY <1>1, <1>2, <1>7
  <2>4. QED
    BY <1>4, <1>5, <2>1, <2>2, <2>3 DEF RowsInv

(* What the save and the derivation make. *)
CloseMakes ==
    /\ step \in {"save", "saved"} /\ step' \in {"saved"} \cup Ends
    /\ UNCHANGED <<env, ctx, listed, byOwner, rows, whole>>
    /\ ledger.begun \subseteq ledger'.begun /\ ledger.done \subseteq ledger'.done /\ ledger'.ok = ledger.ok
    /\ ledger'.unsupported = ledger.unsupported /\ ledger'.off = ledger.off
    /\ ledger'.unresolved = ledger.unresolved
    /\ ledger.drops \subseteq ledger'.drops
    /\ \A d \in ledger'.drops \ ledger.drops :
          \/ d[1] \in {"state", "failing"}
          \/ d[2] = "stopped" /\ ledger'.stop # "none"
    /\ ledger.stop # "none" => ledger'.stop # "none"
    /\ \/ ledger'.flags = ledger.flags
       \/ ledger'.flags = ledger.flags \cup {"timedOut"} /\ ledger'.stop # "none"
    /\ step' = "saved" => "state" \in ledger'.begun
    /\ step' \in Ends => step = "saved"
    /\ step' = "complete" => "runs" \notin ledger.begun \ ledger.unsupported \/ "failing" \in ledger'.begun

LEMMA CloseEffect ==
  ASSUME TypeInv,
         Publish \/ \E answer \in {"stored", "notDurable", "failed", "cut"} : Save(answer)
  PROVE  CloseMakes
<1>1. ASSUME NEW answer \in {"stored", "notDurable", "failed", "cut"}, Save(answer)
      PROVE  CloseMakes
  <2>1. step = "save" /\ step' = "saved" /\ UNCHANGED <<env, ctx, listed, byOwner, rows, whole>>
    BY <1>1 DEF Save, scan
  <2>2. /\ ledger'.begun = ledger.begun \cup {"state"} /\ ledger'.done = ledger.done \cup {"state"}
        /\ ledger'.ok = ledger.ok /\ ledger'.off = ledger.off
        /\ ledger'.unsupported = ledger.unsupported /\ ledger'.unresolved = ledger.unresolved
        /\ ledger.drops \subseteq ledger'.drops
        /\ \A d \in ledger'.drops \ ledger.drops :
              \/ d[1] = "state" /\ d[2] \in {"notDurable", "unwritable"}
              \/ d[1] \in ledger'.begun /\ d[2] = "stopped" /\ ledger'.stop # "none"
        /\ ledger.stop # "none" => ledger'.stop = ledger.stop
        /\ \/ ledger'.flags = ledger.flags /\ ledger'.stop = ledger.stop
           \/ ledger'.flags = ledger.flags \cup {"timedOut"} /\ ledger'.stop # "none"
    BY <1>1, SaveFields
  <2>3. QED
    BY <2>1, <2>2 DEF CloseMakes, Ends
<1>2. CASE Publish
  <2>1. /\ step = "saved" /\ step' \in Ends /\ step' # "saved" /\ UNCHANGED <<env, ctx, listed, byOwner, rows, whole>>
        /\ ledger' = IF ledger.stop = "none" THEN Derive(ledger) ELSE ledger
        /\ step' = "complete" => ledger.stop = "none"
    BY <1>2 DEF Publish, scan, Ends
  <2> DEFINE m == Derive(ledger)
  <2>2. /\ m.ok = ledger.ok /\ m.off = ledger.off /\ m.unsupported = ledger.unsupported
        /\ m.unresolved = ledger.unresolved /\ m.flags = ledger.flags /\ m.stop = ledger.stop
        /\ ledger.begun \subseteq m.begun /\ ledger.done \subseteq m.done /\ ledger.drops \subseteq m.drops
        /\ m.drops \subseteq ledger.drops \cup {<<"failing", "sourceBlind">>}
        /\ "runs" \notin ledger.begun \ ledger.unsupported \/ "failing" \in m.begun
    <3>1. LET n == Derive(ledger)
          IN  /\ n.ok = ledger.ok /\ n.off = ledger.off /\ n.unsupported = ledger.unsupported
              /\ n.unresolved = ledger.unresolved /\ n.flags = ledger.flags /\ n.stop = ledger.stop
              /\ \/ n = ledger /\ "runs" \notin ledger.begun \ ledger.unsupported
                 \/ /\ n.begun = ledger.begun \cup {"failing"} /\ n.done = ledger.done
                    /\ n.drops = ledger.drops \cup {<<"failing", "sourceBlind">>}
                 \/ /\ n.begun = ledger.begun \cup {"failing"} /\ n.done = ledger.done \cup {"failing"}
                    /\ n.drops = ledger.drops
      BY TypeFacts, DeriveFields
    <3> HIDE DEF m
    <3>2. QED
      BY <3>1 DEF m
  <2> HIDE DEF m
  <2>3. CASE ledger' = m
    <3>1. \A d \in ledger'.drops \ ledger.drops : d[1] \in {"state", "failing"}
      BY <2>2, <2>3
    <3>2. QED
      BY <2>1, <2>2, <2>3, <3>1 DEF CloseMakes
  <2>4. CASE ledger' = ledger /\ ledger.stop # "none"
    BY <2>1, <2>4 DEF CloseMakes
  <2>5. QED
    BY <2>1, <2>3, <2>4 DEF m
<1>3. QED
  BY <1>1, <1>2

LEMMA RowsCloses ==
  ASSUME CoreInv, RowsInv, CloseMakes
  PROVE  RowsInv'
<1>1. /\ step \in Closed /\ step' \in Closed /\ kept' = kept /\ rows' = rows /\ whole' = whole /\ ctx' = ctx
      /\ ledger.begun \subseteq ledger'.begun /\ ledger.done \subseteq ledger'.done /\ ledger'.ok = ledger.ok
      /\ ledger'.unsupported = ledger.unsupported /\ ledger.drops \subseteq ledger'.drops
      /\ \A d \in ledger'.drops \ ledger.drops :
            \/ d[1] \in {"state", "failing"}
            \/ d[2] = "stopped" /\ ledger'.stop # "none"
      /\ ledger.stop # "none" => ledger'.stop # "none"
  BY DEF CloseMakes, Closed, kept
<1>2. ASSUME NEW f \in {"prs", "issues", "security", "repos"}, NEW R \in SUBSET (Reasons \ {"stopped"})
      PROVE  Dropped(ledger', f, R) <=> Dropped(ledger, f, R)
  <2>1. \A r \in R : <<f, r>>[1] = f /\ <<f, r>>[2] = r /\ r # "stopped"
    OBVIOUS
  <2>2. \A r \in R : <<f, r>> \in ledger'.drops <=> <<f, r>> \in ledger.drops
    BY <1>1, <2>1
  <2>3. QED
    BY <2>2 DEF Dropped
<1>3. /\ BlindReasons \in SUBSET (Reasons \ {"stopped"})
      /\ \A R \in SUBSET {"failed", "refused", "cut", "ownerFailed"} : R \in SUBSET (Reasons \ {"stopped"})
  BY DEF Reasons, Partial, BlindReasons
<1>4. ASSUME NEW f \in {"prs", "issues", "security"}, Blind(ledger', f)
      PROVE  Blind(ledger, f)
  <2>1. /\ Dropped(ledger', f, BlindReasons) <=> Dropped(ledger, f, BlindReasons)
        /\ Dropped(ledger', f, {"failed", "refused"}) <=> Dropped(ledger, f, {"failed", "refused"})
        /\ Dropped(ledger', f, {"cut"}) <=> Dropped(ledger, f, {"cut"})
    BY <1>2, <1>3
  <2>2. QED
    BY <1>1, <1>4, <2>1 DEF Blind, Answered
<1>5. Answered(ledger, "runs") => Answered(ledger', "runs")
  BY <1>1 DEF Answered, Dropped
<1>6. ASSUME NEW f \in {"prs", "issues"}, Dropped(ledger', f, {"failed", "refused"})
      PROVE  Dropped(ledger', f, {"ownerFailed"}) \/ ledger'.stop # "none"
  <2>1. Dropped(ledger, f, {"failed", "refused"})
    BY <1>2, <1>3, <1>6
  <2>2. Dropped(ledger, f, {"ownerFailed"}) \/ ledger.stop # "none"
    BY <2>1 DEF RowsInv
  <2>3. QED
    BY <1>1, <2>2 DEF Dropped
<1>7. Dropped(ledger', "repos", {"cut"}) <=> Dropped(ledger, "repos", {"cut"})
  BY <1>2, <1>3
<1>8. QED
  <2>1. \A row \in rows' : row[1] \in ledger'.begun /\ row[1] \in {"prs", "issues", "runs", "security", "workflows"}
    BY <1>1 DEF RowsInv
  <2>2. \A row \in rows' : row[1] = "runs" => Answered(ledger', "runs")
    BY <1>1, <1>5 DEF RowsInv
  <2>3. step' \in Closed => \A f \in {"prs", "issues", "security"} :
           Blind(ledger', f) => \A row \in rows' : row[1] # f
    BY <1>1, <1>4 DEF RowsInv
  <2>4. step' \in Closed /\ ledger'.stop = "none" /\ ctx' # "shutdown" => \A f \in {"prs", "issues"} :
          \/ \A row \in rows' : row[1] # f
          \/ /\ \A x \in kept' : <<f, x>> \in rows' \cap whole'
             /\ "repos" \in ledger'.done /\ ~Dropped(ledger', "repos", {"cut"})
    BY <1>1, <1>7 DEF RowsInv
  <2>5. QED
    BY <1>1, <1>6, <2>1, <2>2, <2>3, <2>4 DEF RowsInv

LEMMA RowsStep ==
  ASSUME TypeInv, CoreInv, CoverInv, RowsInv, TypeInv', CoreInv', [Next]_vars
  PROVE  RowsInv'
<1>1. CASE UNCHANGED vars
  BY <1>1, RowsQuiet DEF vars, scan
<1>2. ASSUME NEW how \in {"limit", "shutdown"}, CtxEnds(how)
      PROVE  RowsInv'
  <2>1. /\ UNCHANGED <<env, step, ledger, listed, byOwner, rows, whole>> /\ ctx' = how
        /\ step \notin Ends /\ (how = "limit" => step \notin {"save", "saved"})
    BY <1>2 DEF CtxEnds, scan
  <2>2. step \in Closed => ctx' \in {ctx, "shutdown"}
    BY <2>1 DEF Closed
  <2>3. QED
    BY <2>1, <2>2, RowsQuiet
<1>3. QED
  BY <1>1, <1>2, RowsOpens, RowsSteps, RowsRead, RowsEndReads, CloseEffect, RowsCloses DEF Next

(* Open pull requests and issues are published of every repository of the
   owners resolved, or of none, however the scan's reads failed, fell back
   or were cut: a smaller set would read as items closed. *)
THEOREM PublishesWholeSnapshots == Spec => []SnapshotsAreWhole
<1> DEFINE Inv == TypeInv /\ CoreInv /\ CoverInv /\ RowsInv
<1>1. Init => Inv
  <2>1. Init => listed = {}
    BY DEF Init, Fresh
  <2>2. QED
    BY <2>1, TypeInit, CoreInit, CoverNothing, RowsInit
<1>2. Inv /\ [Next]_vars => Inv'
  <2> SUFFICES ASSUME Inv, [Next]_vars
               PROVE  Inv'
    OBVIOUS
  <2>1. TypeInv' /\ CoreInv'
    BY TypeStep, CoreStep
  <2>2. CoverInv' /\ RowsInv'
    BY <2>1, CoverStep, RowsStep
  <2>3. QED
    BY <2>1, <2>2
<1>3. Inv => SnapshotsAreWhole
  <2> SUFFICES ASSUME TypeInv, CoreInv, RowsInv, step = "complete", NEW f \in {"prs", "issues"},
                      {r \in rows : r[1] = f} # {}, NEW o \in owners \ ledger.unresolved,
                      NEW x \in (OwnedBy[o] \ env.late) \ env.excluded
               PROVE  <<f, x>> \in rows \cap whole
    BY DEF SnapshotsAreWhole, owners
  <2>1. step \in Closed /\ ledger.stop = "none" /\ ctx # "shutdown"
    BY DEF CoreInv, EndInv, Closed, Ends
  <2>2. /\ \A y \in kept : <<f, y>> \in rows \cap whole
        /\ "repos" \in ledger.done /\ ~Dropped(ledger, "repos", {"cut"})
    BY <2>1 DEF RowsInv
  <2>3. x \in kept
    BY <2>2 DEF CoreInv, ReposInv, kept
  <2>4. QED
    BY <2>2, <2>3
<1>4. QED
  BY <1>1, <1>2, <1>3, PTL DEF Spec

-----------------------------------------------------------------------------
(* What the flags, which the causes are read from, say of the reads. *)

LEMMA FlagInit ==
  ASSUME Init
  PROVE  FlagInv
BY DEF Init, Fresh, FlagInv, OpenOnly, NewLedger, Dropped

(* What an open makes, and the wait at its gate. *)
OpenMakes ==
    /\ step \in {"open"} \cup Gated /\ step' \in {"unopened", "end", "discover"} \cup Gated
    /\ whole' \subseteq {<<"open", env.product>>}
    /\ whole' # {} => "opened" \in ledger'.flags
    /\ "timedOut" \notin ledger'.flags
    /\ "connFailed" \in ledger'.flags => step' = "unopened"
    /\ "rateLimited" \in ledger'.flags => ledger'.stop # "none"
    /\ \A d \in ledger'.drops : d[2] \in {"stopped", "failed", "refused"}
    /\ step' = "unopened" /\ ledger'.stop = "none" /\ ctx' = "live" => Dropped(ledger', "repos", {"failed", "refused"})
    /\ step' = "end" => Lost'
    /\ step' = "discover" => "repos" \in ledger'.begun

LEMMA OpenEffect ==
  ASSUME TypeInv, CoreInv,
         \/ \E err \in Errors \cup {"connection", "ended"}, named \in BOOLEAN : OpenFails(err, named)
         \/ Opens \/ SharesAccount \/ GateCut \/ StartReads
  PROVE  OpenMakes
<1>1. step \in {"open"} \cup Gated
  BY DEF OpenFails, Opens, SharesAccount, GateCut, StartReads, Gated
<1>2. /\ whole = {} /\ ledger \in LedgerSet /\ env.security \in BOOLEAN
      /\ ledger.drops = {} /\ ledger.stop = "none" /\ ledger.flags \subseteq {"github", "opened"}
  <2>1. CASE step = "open"
    BY <2>1, TypeFacts DEF CoreInv, StepInv, NewLedger
  <2>2. CASE step \in Gated
    BY <2>2, TypeFacts DEF CoreInv, StepInv, Untouched
  <2>3. QED
    BY <1>1, <2>1, <2>2
<1> DEFINE c == Classify(ledger, env.product, env.security)
<1>3. c \in LedgerSet /\ c.drops = {} /\ c.stop = "none" /\ c.flags \subseteq {"github", "opened"}
  <2>1. c \in LedgerSet /\ c.drops = ledger.drops /\ c.stop = ledger.stop
        /\ c.flags = ledger.flags \cup (IF env.product = "github" THEN {"github"} ELSE {})
    BY <1>2, ClassifyFields
  <2> HIDE DEF c
  <2>2. QED
    BY <1>2, <2>1
<1> HIDE DEF c
<1>4. ASSUME NEW l \in LedgerSet, NEW err \in Errors \cup {"connection", "ended"}, ledger' = OpenFailure(l, err),
             l.drops = {}, l.stop = "none", l.flags \subseteq {"github", "opened"},
             step' = "unopened", whole' = whole, ctx' = ctx
      PROVE  OpenMakes
  <2> DEFINE m == OpenFailure(l, err)
  <2>1. /\ \A d \in m.drops \ l.drops : d[2] \in {"stopped", "failed", "refused"}
        /\ m.flags \cap Tracked = l.flags \cap Tracked
        /\ "rateLimited" \in m.flags => "rateLimited" \in l.flags \/ m.stop # "none"
        /\ m.stop = "none" /\ ctx = "live" => Dropped(m, "repos", {"failed", "refused"})
    BY OpenFailureFields
  <2> HIDE DEF m
  <2>2. ledger' = m
    BY <1>4 DEF m
  <2>3. "timedOut" \notin m.flags
    BY <1>4, <2>1 DEF Tracked
  <2>4. QED
    BY <1>1, <1>2, <1>4, <2>1, <2>2, <2>3 DEF OpenMakes
<1>5. ASSUME NEW err \in Errors \cup {"connection", "ended"}, NEW named \in BOOLEAN, OpenFails(err, named)
      PROVE  OpenMakes
  <2>1. /\ ledger' = OpenFailure(IF named THEN c ELSE ledger, err) /\ step' = "unopened"
        /\ whole' = whole /\ ctx' = ctx
    BY <1>5 DEF OpenFails, c
  <2>2. CASE named
    BY <1>3, <1>4, <2>1, <2>2
  <2>3. CASE ~named
    BY <1>2, <1>4, <2>1, <2>3
  <2>4. QED
    BY <2>2, <2>3
<1>6. CASE SharesAccount
  <2>1. ledger' = OpenFailure(ledger, "connection") /\ step' = "unopened" /\ whole' = whole /\ ctx' = ctx
    BY <1>6 DEF SharesAccount
  <2>2. QED
    BY <1>2, <1>4, <2>1
<1>7. CASE Opens
  <2>1. ledger' = c /\ step' \in Gated /\ whole' = whole
    BY <1>7 DEF Opens, c, Gated
  <2>2. QED
    BY <1>1, <1>2, <1>3, <2>1 DEF OpenMakes, Gated
<1>8. CASE GateCut
  <2>1. ledger' = ledger /\ step' = "end" /\ whole' = whole /\ ctx' = ctx /\ ctx # "live"
    BY <1>8 DEF GateCut
  <2>2. Lost'
    BY <1>2, <2>1 DEF Lost
  <2>3. QED
    BY <1>1, <1>2, <2>1, <2>2 DEF OpenMakes
<1>9. CASE StartReads
  <2> DEFINE l == IF step = "opened" THEN Flag(ledger, {"opened"}) ELSE ledger
  <2>1. /\ ledger' = Begin(l, {"repos"}) /\ step' = "discover"
        /\ whole' = IF step = "opened" THEN {<<"open", env.product>>} ELSE {}
    BY <1>9 DEF StartReads
  <2>2. /\ l \in LedgerSet /\ l.drops = {} /\ l.stop = "none"
        /\ l.flags = ledger.flags \cup (IF step = "opened" THEN {"opened"} ELSE {})
    <3>1. {"opened"} \in SUBSET Flags
      BY DEF Flags
    <3>2. QED
      BY <1>2, <3>1, FlagFields
  <2> HIDE DEF l
  <2>3. ledger'.drops = {} /\ ledger'.flags = l.flags /\ "repos" \in ledger'.begun
    BY <2>1, <2>2, BeginFields DEF Families
  <2>4. QED
    BY <1>1, <1>2, <2>1, <2>2, <2>3 DEF OpenMakes
<1>10. QED
  BY <1>5, <1>6, <1>7, <1>8, <1>9

LEMMA FlagOpens ==
  ASSUME TypeInv, CoreInv,
         \/ \E err \in Errors \cup {"connection", "ended"}, named \in BOOLEAN : OpenFails(err, named)
         \/ Opens \/ SharesAccount \/ GateCut \/ StartReads \/ NextScan
  PROVE  FlagInv'
<1>1. CASE NextScan
  BY <1>1 DEF NextScan, FlagInv, OpenOnly, NewLedger, Dropped
<1>2. CASE ~NextScan
  <2>1. OpenMakes
    BY <1>2, OpenEffect
  <2>2. ~Dropped(ledger', "repos", {"noRepos"})
    <3>1. \A d \in ledger'.drops : d[2] # "noRepos"
      BY <2>1 DEF OpenMakes
    <3>2. <<"repos", "noRepos">>[2] = "noRepos"
      OBVIOUS
    <3>3. QED
      BY <3>1, <3>2 DEF Dropped
  <2>3. QED
    BY <2>1, <2>2 DEF OpenMakes, FlagInv, OpenOnly
<1>3. QED
  BY <1>1, <1>2

LEMMA FlagDiscovery ==
  ASSUME TypeInv, CoreInv, FlagInv, (\E err \in Failures : DiscoveryFails(err)) \/ Discovered
  PROVE  FlagInv'
<1>1. CASE \E err \in Failures : DiscoveryFails(err)
  <2>1. FailedDiscovery
    BY <1>1, DiscoveryFailsFields
  <2>2. /\ whole' = whole /\ whole \subseteq {<<"open", env.product>>} /\ step' = "end"
        /\ {"timedOut", "opened"} \cap ledger'.flags \subseteq ledger.flags /\ ledger.flags \subseteq ledger'.flags
        /\ "rateLimited" \in ledger'.flags => ledger'.stop # "none"
        /\ \A d \in ledger'.drops : DropFits(ledger', d)
    BY <2>1 DEF FailedDiscovery
  <2>3. "timedOut" \notin ledger.flags
    BY <1>1 DEF DiscoveryFails, CoreInv, StepInv, Untouched
  <2>4. OpenOnly /\ OpenOnly'
    BY <2>2 DEF OpenOnly
  <2>5. whole # {} => "opened" \in ledger'.flags
    BY <2>2, <2>4 DEF FlagInv
  <2>6. QED
    BY <2>2, <2>3, <2>4, <2>5 DEF FlagInv, ReadsSteps
<1>2. CASE Discovered
  <2>1. PICK ends \in [owners -> ({Listing(p) : p \in RepoPages} \cap {"whole", "cut"}) \cup {"unresolved"}],
               got \in [owners -> SUBSET repos] : Discovers(ends, got)
    BY <1>2 DEF Discovered, owners, repos
  <2>2. /\ step' = step /\ Discovering
    BY <1>2 DEF Discovered
  <2>3. /\ step = "discover" /\ ledger.drops = {} /\ ledger.stop = "none" /\ ledger.flags \subseteq {"github", "opened"}
    BY <2>2 DEF CoreInv, StepInv, Untouched, Discovering
  <2> DEFINE unresolved == {o \in owners : ends[o] = "unresolved"}
             cut == \E o \in owners : ends[o] = "cut"
  <2>4. /\ ledger'.flags = ledger.flags
        /\ ledger'.ok = (IF cut THEN ledger.ok ELSE ledger.ok \cup {"repos"})
        /\ cut => <<"repos", "cut">> \in ledger'.drops
        /\ \A d \in ledger'.drops \ ledger.drops : d[2] = "noRepos" => unresolved = owners
    BY <2>1, DiscoversFields
  <2>5. whole' = whole \cup {<<"repos", o>> : o \in {p \in owners : ends[p] = "whole"}}
    BY <2>1 DEF Discovers
  <2>6. Answered(ledger', "repos")
    BY <2>4 DEF Answered, Dropped
  <2>7. ASSUME Dropped(ledger', "repos", {"noRepos"})
        PROVE  whole' = whole
    <3>1. <<"repos", "noRepos">> \in ledger'.drops
      BY <2>7 DEF Dropped
    <3>2. <<"repos", "noRepos">>[2] = "noRepos"
      OBVIOUS
    <3>3. unresolved = owners
      BY <2>3, <2>4, <3>1, <3>2
    <3>4. {p \in owners : ends[p] = "whole"} = {}
      BY <3>3
    <3>5. QED
      BY <2>5, <3>4
  <2>8. OpenOnly
    BY <2>2 DEF CoreInv, StepInv, OpenOnly
  <2>9. OpenOnly' => whole' = whole
    <3>1. \A o \in owners : <<"repos", o>> \in whole' => ~OpenOnly'
      BY DEF OpenOnly
    <3>2. QED
      BY <2>5, <3>1
  <2>10. QED
    BY <2>2, <2>3, <2>4, <2>6, <2>7, <2>8, <2>9 DEF FlagInv, OpenOnly, ReadsSteps
<1>3. QED
  BY <1>1, <1>2

LEMMA FlagSteps ==
  ASSUME TypeInv, CoreInv, FlagInv, NextStep \/ Skip
  PROVE  FlagInv'
<1>1. CASE NextStep
  <2>1. PICK l \in LedgerSet :
         /\ step \in ReadsSteps \cup {"discover"} /\ l.stop = ledger.stop /\ l.ok = ledger.ok /\ l.flags = ledger.flags
         /\ l.drops = (IF step = "runs" /\ "undated" \in dates /\ "dated" \in dates
                       THEN ledger.drops \cup {<<"runs", "failed">>} ELSE ledger.drops)
         /\ \/ step' = "end" /\ ledger' = l
            \/ ~Dropped(l, "repos", {"noRepos"}) /\ step' = After(step) /\ ledger' = Begin(l, Reading(After(step), l))
    BY <1>1, NextStepCases
  <2>2. /\ ledger'.stop = ledger.stop /\ ledger'.ok = ledger.ok /\ ledger'.flags = ledger.flags
        /\ ledger'.drops = l.drops
    BY <2>1, BeginFields, ReadingFamilies
  <2>3. whole' = whole
    BY <1>1 DEF NextStep
  <2>4. /\ Dropped(ledger', "repos", {"noRepos"}) <=> Dropped(ledger, "repos", {"noRepos"})
        /\ Dropped(ledger', "repos", {"noRepos"}) <=> Dropped(l, "repos", {"noRepos"})
        /\ Answered(ledger, "repos") => Answered(ledger', "repos")
    BY <2>1, <2>2 DEF Dropped, Answered
  <2>5. "connFailed" \notin ledger.flags
    BY <2>1 DEF FlagInv, ReadsSteps, Closed, Ends
  <2>6. Dropped(ledger', "repos", {"noRepos"}) => step' \notin ReadsSteps
    BY <2>1, <2>4 DEF ReadsSteps
  <2>7. QED
    BY <2>2, <2>3, <2>4, <2>5, <2>6 DEF FlagInv, OpenOnly
<1>2. CASE Skip
  <2> DEFINE u == Head(todo)
  <2>1. /\ todo # <<>> /\ step' = step /\ whole' = whole
        /\ ledger' = IF IsOwner(u) THEN ledger ELSE Drop(ledger, u[1], "skipped")
    BY <1>2 DEF Skip
  <2>2. u \in Left /\ ledger \in LedgerSet
    BY <2>1, TypeFacts, TailElements DEF Left
  <2> HIDE DEF u
  <2>3. PICK f \in Families : f = u[1]
    BY <2>2, ReadsHead
  <2>4. LET m == Drop(ledger, f, "skipped")
        IN  m.flags = ledger.flags /\ m.ok = ledger.ok /\ m.drops = ledger.drops \cup {<<f, "skipped">>} /\ m.stop = ledger.stop
    BY <2>2, DropMany DEF Reasons, Excluded
  <2>5. /\ ledger'.flags = ledger.flags /\ ledger'.ok = ledger.ok /\ ledger'.stop = ledger.stop
        /\ ledger.drops \subseteq ledger'.drops /\ ledger'.drops \subseteq ledger.drops \cup {<<f, "skipped">>}
    BY <2>1, <2>3, <2>4
  <2>6. /\ Dropped(ledger', "repos", {"noRepos"}) => Dropped(ledger, "repos", {"noRepos"})
        /\ Answered(ledger, "repos") => Answered(ledger', "repos")
    BY <2>5 DEF Dropped, Answered
  <2>7. QED
    BY <2>1, <2>5, <2>6 DEF FlagInv, OpenOnly
<1>3. QED
  BY <1>1, <1>2

(* No read of a family, no end of the reads and no save drops a repository
   for its owners. *)
LEMMA FlagLater ==
  ASSUME CoreInv, FlagInv, ledger.ok \subseteq ledger'.ok, ledger.drops \subseteq ledger'.drops,
         \A d \in ledger'.drops \ ledger.drops : d[1] # "repos" \/ d[2] = "stopped",
         whole \subseteq whole', OpenOnly' => whole' = whole, "repos" \in ledger.done \/ whole' = whole,
         ledger.flags \subseteq ledger'.flags,
         "connFailed" \in ledger'.flags => "connFailed" \in ledger.flags,
         ledger.stop # "none" => ledger'.stop # "none",
         \A fl \in {"timedOut", "rateLimited"} : fl \in ledger'.flags \ ledger.flags => ledger'.stop # "none",
         step' \in Closed \cup {"unopened", "end"} \/ (step' = step /\ step \in ReadsSteps),
         "connFailed" \in ledger.flags \/ Dropped(ledger, "repos", {"noRepos"}) => whole' = whole
  PROVE  FlagInv'
<1>1. Dropped(ledger', "repos", {"noRepos"}) => Dropped(ledger, "repos", {"noRepos"})
  <2>1. <<"repos", "noRepos">>[1] = "repos" /\ <<"repos", "noRepos">>[2] = "noRepos"
    OBVIOUS
  <2>2. <<"repos", "noRepos">> \in ledger'.drops => <<"repos", "noRepos">> \in ledger.drops
    BY <2>1
  <2>3. QED
    BY <2>2 DEF Dropped
<1>2. Answered(ledger, "repos") => Answered(ledger', "repos")
  BY DEF Answered, Dropped
<1>3. OpenOnly' \/ Answered(ledger', "repos")
  BY <1>2 DEF FlagInv, OpenOnly, CoreInv, ReposInv
<1>4. OpenOnly' => OpenOnly
  BY DEF OpenOnly
<1>5. whole' = whole /\ OpenOnly => OpenOnly'
  BY DEF OpenOnly
<1>6. Dropped(ledger', "repos", {"noRepos"}) => step' \notin ReadsSteps
  BY <1>1 DEF FlagInv, ReadsSteps, Closed, Ends
<1>7. "connFailed" \in ledger'.flags => OpenOnly' /\ step' \in Closed \cup {"unopened", "end"}
  BY <1>5 DEF FlagInv, ReadsSteps, Closed, Ends
<1>8. Dropped(ledger', "repos", {"noRepos"}) => OpenOnly'
  BY <1>1, <1>5 DEF FlagInv
<1>9. OpenOnly' /\ whole' # {} => "opened" \in ledger'.flags
  BY <1>4 DEF FlagInv
<1>10. ledger'.flags \cap {"timedOut", "rateLimited"} # {} => ledger'.stop # "none"
  <2>1. \A fl \in {"timedOut", "rateLimited"} : fl \in ledger.flags => ledger.stop # "none"
    BY DEF FlagInv
  <2>2. QED
    BY <2>1
<1>11. QED
  BY <1>3, <1>6, <1>7, <1>8, <1>9, <1>10 DEF FlagInv

LEMMA FlagRead ==
  ASSUME TypeInv, CoreInv, FlagInv, Read
  PROVE  FlagInv'
<1>1. PICK u, f : ReadMakes(u, f)
  BY ReadEffect
<1>2. /\ f \in ReadFamilies /\ step \in ReadsSteps
      /\ ledger.ok \subseteq ledger'.ok /\ ledger.drops \subseteq ledger'.drops /\ ledger.flags \subseteq ledger'.flags
      /\ \A d \in ledger'.drops \ ledger.drops : d[1] = f \/ d[2] = "stopped"
      /\ whole \subseteq whole' /\ whole' \subseteq whole \cup {<<f, x>> : x \in Lists(u)}
      /\ \/ step' = step /\ ledger'.stop = "none"
         \/ step' = "end" /\ (ledger'.stop # "none" \/ Lost')
      /\ {"timedOut", "connFailed"} \cap ledger'.flags \subseteq ledger.flags
      /\ "rateLimited" \in ledger'.flags => "rateLimited" \in ledger.flags \/ ledger'.stop # "none"
  BY <1>1 DEF ReadMakes
<1>3. f \notin {"open", "repos"}
  BY <1>2 DEF ReadFamilies
<1>4. /\ ledger.stop = "none" /\ "repos" \in ledger.done
      /\ "connFailed" \notin ledger.flags /\ ~Dropped(ledger, "repos", {"noRepos"})
  BY <1>2 DEF CoreInv, StepInv, FlagInv, ReadsSteps, Closed, Ends
<1>5. OpenOnly' => whole' = whole
  <2>1. \A x : <<f, x>> \in whole' => ~OpenOnly'
    BY <1>3 DEF OpenOnly
  <2>2. QED
    BY <1>2, <2>1
<1>6. \A d \in ledger'.drops \ ledger.drops : d[1] # "repos" \/ d[2] = "stopped"
  BY <1>2, <1>3
<1>7. \A fl \in {"timedOut", "rateLimited"} : fl \in ledger'.flags \ ledger.flags => ledger'.stop # "none"
  BY <1>2
<1>8. step' \in Closed \cup {"unopened", "end"} \/ (step' = step /\ step \in ReadsSteps)
  BY <1>2
<1>9. "connFailed" \in ledger'.flags => "connFailed" \in ledger.flags
  BY <1>2
<1>10. QED
  BY <1>2, <1>4, <1>5, <1>6, <1>7, <1>8, <1>9, FlagLater

LEMMA FlagEnds ==
  ASSUME TypeInv, CoreInv, FlagInv, EndMakes \/ CloseMakes
  PROVE  FlagInv'
<1>1. CASE EndMakes
  <2>1. /\ step' = "save" /\ whole' = whole /\ ledger'.ok = ledger.ok /\ ledger.drops \subseteq ledger'.drops
        /\ \A d \in ledger'.drops \ ledger.drops : d[2] = "stopped"
        /\ ledger.flags \subseteq ledger'.flags /\ ledger'.flags \subseteq ledger.flags \cup {"timedOut"}
        /\ ledger' = ledger \/ ledger'.stop # "none"
        /\ ledger.stop # "none" \/ ctx = "limit" => ledger'.stop # "none"
    BY <1>1 DEF EndMakes
  <2>2. \A fl \in {"timedOut", "rateLimited"} : fl \in ledger'.flags \ ledger.flags => ledger'.stop # "none"
    BY <2>1
  <2>3. step' \in Closed
    BY <2>1 DEF Closed
  <2>4. QED
    BY <2>1, <2>2, <2>3, FlagLater
<1>2. CASE CloseMakes
  <2>1. /\ step' \in Closed /\ whole' = whole /\ ledger'.ok = ledger.ok /\ ledger.drops \subseteq ledger'.drops
        /\ \A d \in ledger'.drops \ ledger.drops : d[1] \in {"state", "failing"} \/ d[2] = "stopped"
        /\ ledger.stop # "none" => ledger'.stop # "none"
        /\ \/ ledger'.flags = ledger.flags
           \/ ledger'.flags = ledger.flags \cup {"timedOut"} /\ ledger'.stop # "none"
    BY <1>2 DEF CloseMakes, Closed
  <2>2. \A fl \in {"timedOut", "rateLimited"} : fl \in ledger'.flags \ ledger.flags => ledger'.stop # "none"
    BY <2>1
  <2>3. ledger.flags \subseteq ledger'.flags /\ ("connFailed" \in ledger'.flags => "connFailed" \in ledger.flags)
    BY <2>1
  <2>4. \A d \in ledger'.drops \ ledger.drops : d[1] # "repos" \/ d[2] = "stopped"
    BY <2>1
  <2>5. QED
    BY <2>1, <2>2, <2>3, <2>4, FlagLater
<1>3. QED
  BY <1>1, <1>2

LEMMA FlagStep ==
  ASSUME TypeInv, CoreInv, FlagInv, [Next]_vars
  PROVE  FlagInv'
<1>1. CASE UNCHANGED vars
  BY <1>1 DEF vars, FlagInv, OpenOnly
<1>2. ASSUME NEW how \in {"limit", "shutdown"}, CtxEnds(how)
      PROVE  FlagInv'
  BY <1>2 DEF CtxEnds, FlagInv, OpenOnly
<1>3. QED
  BY <1>1, <1>2, FlagOpens, FlagDiscovery, FlagSteps, FlagRead, EndEffect, CloseEffect, FlagEnds DEF Next

(* The cause is one that holds, and none more actionable does. *)
LEMMA CauseHolds ==
  ASSUME NEW l
  PROVE  \E i \in 1..12 : Cause(l) = Causes[i] /\ Holds(l, Causes[i]) /\ \A j \in 1..i - 1 : ~Holds(l, Causes[j])
<1>1. DOMAIN Causes = 1..12 /\ Causes[12] = "signal_blind"
  BY DEF Causes
<1> DEFINE S == {i \in 1..12 : Holds(l, Causes[i])}
           P(i) == Holds(l, Causes[i]) /\ \A j \in 1..i - 1 : ~Holds(l, Causes[j])
<1>2. Holds(l, "signal_blind")
  BY DEF Holds
<1>3. PICK m \in S : \A n \in S : m <= n
  <2>1. 12 \in S /\ S \subseteq Nat
    BY <1>1, <1>2
  <2> HIDE DEF S
  <2>2. QED
    BY <2>1, LeastExists
<1>4. P(m)
  <2>1. \A j \in 1..m - 1 : j \notin S
    BY <1>3
  <2>2. \A j \in 1..m - 1 : j \in 1..12
    BY <1>3
  <2>3. QED
    BY <1>3, <2>1, <2>2
<1> DEFINE i == CHOOSE k \in DOMAIN Causes : P(k)
<1>5. Cause(l) = Causes[i]
  BY DEF Cause
<1> HIDE DEF P
<1>6. i \in 1..12 /\ P(i)
  BY <1>1, <1>3, <1>4
<1> HIDE DEF i
<1>7. QED
  BY <1>5, <1>6 DEF P

(* What scan degraded says of its cause is so: a token called invalid proved
   nothing, a connection called failed read nothing, a scan called timed out
   or rate limited did not complete, and a blind family published no row. *)
THEOREM NamesItsCause == Spec => []CauseIsSo
<1> DEFINE Inv == TypeInv /\ CoreInv /\ CoverInv /\ RowsInv /\ FlagInv
<1>1. Init => Inv
  <2>1. Init => listed = {}
    BY DEF Init, Fresh
  <2>2. QED
    BY <2>1, TypeInit, CoreInit, CoverNothing, RowsInit, FlagInit
<1>2. Inv /\ [Next]_vars => Inv'
  <2> SUFFICES ASSUME Inv, [Next]_vars
               PROVE  Inv'
    OBVIOUS
  <2>1. TypeInv' /\ CoreInv'
    BY TypeStep, CoreStep
  <2>2. CoverInv' /\ RowsInv' /\ FlagInv'
    BY <2>1, CoverStep, RowsStep, FlagStep
  <2>3. QED
    BY <2>1, <2>2
<1>3. Inv => CauseIsSo
  <2> DEFINE c == Cause(ledger)
  <2> SUFFICES ASSUME TypeInv, CoreInv, RowsInv, FlagInv, step \in {"complete", "stopped"}, Escalates(ledger)
               PROVE  /\ c = "token_invalid" => whole = {}
                      /\ c \in {"connection_failed", "no_repos_visible"} => \A w \in whole : w[1] = "open"
                      /\ c \in {"scan_timeout", "rate_limited"} => step = "stopped"
                      /\ c = "code_scanning_blind" => \A x \in kept : <<"security", x>> \notin rows
                      /\ c = "runs_blind" => \A x \in kept : <<"runs", x>> \notin rows
                      /\ c = "signal_blind" => \E f \in {"prs", "issues"} : \A x \in kept : <<f, x>> \notin rows
    <3> HIDE DEF c
    <3>1. CASE c = "token_invalid"
      BY <3>1 DEF CauseIsSo, c
    <3>2. CASE c \in {"connection_failed", "no_repos_visible"}
      BY <3>2 DEF CauseIsSo, c
    <3>3. CASE c \in {"scan_timeout", "rate_limited"}
      BY <3>3 DEF CauseIsSo, c
    <3>4. CASE c \in {"code_scanning_blind", "runs_blind", "signal_blind"}
      BY <3>4 DEF CauseIsSo, c
    <3>5. CASE c \notin {"token_invalid", "connection_failed", "no_repos_visible", "scan_timeout", "rate_limited",
                         "code_scanning_blind", "runs_blind", "signal_blind"}
      BY <3>5 DEF CauseIsSo, c
    <3>6. QED
      BY <3>1, <3>2, <3>3, <3>4, <3>5
  <2>1. PICK i \in 1..12 : c = Causes[i] /\ Holds(ledger, Causes[i]) /\ \A j \in 1..i - 1 : ~Holds(ledger, Causes[j])
    BY CauseHolds
  <2>2. Holds(ledger, c)
    BY <2>1
  <2> HIDE DEF c
  <2>3. step \in Closed
    BY DEF Closed, Ends
  <2>4. ASSUME NEW f \in {"prs", "issues", "security"}, Blind(ledger, f)
        PROVE  \A x \in kept : <<f, x>> \notin rows
    <3>1. \A x : <<f, x>>[1] = f
      OBVIOUS
    <3>2. QED
      BY <2>3, <2>4, <3>1 DEF RowsInv
  <2>5. ASSUME c = "token_invalid"
        PROVE  whole = {}
    <3>1. TokenInvalid(ledger)
      BY <2>2, <2>5 DEF Holds
    <3>2. "opened" \notin ledger.flags /\ ~Answered(ledger, "repos")
      BY <3>1 DEF TokenInvalid, Families
    <3>3. QED
      BY <3>2 DEF FlagInv
  <2>6. ASSUME c \in {"connection_failed", "no_repos_visible"}
        PROVE  \A w \in whole : w[1] = "open"
    <3>1. "connFailed" \in ledger.flags \/ Dropped(ledger, "repos", {"noRepos"})
      BY <2>2, <2>6 DEF Holds
    <3>2. QED
      BY <3>1 DEF FlagInv, OpenOnly
  <2>7. ASSUME c \in {"scan_timeout", "rate_limited"}
        PROVE  step = "stopped"
    <3>1. "timedOut" \in ledger.flags \/ "rateLimited" \in ledger.flags
      BY <2>2, <2>7 DEF Holds
    <3>2. ledger.stop # "none"
      BY <3>1 DEF FlagInv
    <3>3. QED
      BY <3>2 DEF CoreInv, EndInv
  <2>8. ASSUME c = "code_scanning_blind"
        PROVE  \A x \in kept : <<"security", x>> \notin rows
    <3>1. Blind(ledger, "security")
      BY <2>2, <2>8 DEF Holds
    <3>2. QED
      BY <2>4, <3>1
  <2>9. ASSUME c = "runs_blind"
        PROVE  \A x \in kept : <<"runs", x>> \notin rows
    <3>1. Blind(ledger, "runs")
      BY <2>2, <2>9 DEF Holds
    <3>2. ~Dropped(ledger, "runs", BlindReasons)
      <4>1. ASSUME NEW r \in BlindReasons, <<"runs", r>> \in ledger.drops
            PROVE  FALSE
        <5>1. DropFits(ledger, <<"runs", r>>)
          BY <4>1 DEF CoreInv, LedgerInv
        <5>2. QED
          BY <5>1 DEF DropFits, BlindReasons
      <4>2. QED
        BY <4>1 DEF Dropped
    <3>3. ~Answered(ledger, "runs")
      BY <3>1, <3>2 DEF Blind
    <3>4. \A x : <<"runs", x>>[1] = "runs"
      OBVIOUS
    <3>5. QED
      BY <3>3, <3>4 DEF RowsInv
  <2>10. ASSUME c = "signal_blind"
         PROVE  \E f \in {"prs", "issues"} : \A x \in kept : <<f, x>> \notin rows
    <3>1. /\ DOMAIN Causes = 1..12 /\ Causes[12] = "signal_blind"
          /\ \A j \in 1..11 : Causes[j] # "signal_blind"
      BY DEF Causes
    <3>2. i = 12
      <4>1. i \in 1..11 \/ i = 12
        OBVIOUS
      <4>2. Causes[i] = "signal_blind"
        BY <2>1, <2>10
      <4>3. QED
        BY <3>1, <4>1, <4>2
    <3>3. \A j \in 1..12 : ~(Causes[j] \notin {"scan_timeout", "signal_blind"} /\ Holds(ledger, Causes[j]))
      BY <2>1, <3>1, <3>2
    <3>4. Blind(ledger, "prs") \/ Blind(ledger, "issues")
      BY <3>1, <3>3 DEF Escalates
    <3>5. QED
      BY <2>4, <3>4
  <2>11. QED
    BY <2>5, <2>6, <2>7, <2>8, <2>9, <2>10
<1>4. QED
  BY <1>1, <1>2, <1>3, PTL DEF Spec

-----------------------------------------------------------------------------
(* The families every scan reads, and what its degraded field says of them. *)

(* What a scan drops degrades it for good, as no product loses a family. *)
LEMMA DegradedStays ==
  ASSUME NEW l, NEW m, m.unsupported = l.unsupported, l.drops \subseteq m.drops, Degraded(l)
  PROVE  Degraded(m)
BY DEF Degraded, Dropped

(* Pull requests are withheld of a scan that dropped some. *)
LEMMA WithheldDegrades ==
  ASSUME NEW l, Withheld(l, "prs"), l.unsupported \cap {"repos", "prs"} = {}
  PROVE  Degraded(l)
<1>1. ASSUME NEW f \in {"repos", "prs"}, Dropped(l, f, {"cut"}) \/ Blind(l, f)
      PROVE  Degraded(l)
  <2>1. Dropped(l, f, {"cut", "failed", "refused"} \cup BlindReasons)
    BY <1>1 DEF Blind, Dropped
  <2>2. {"cut", "failed", "refused"} \cup BlindReasons \subseteq Degrades
    BY DEF Degrades, Partial, BlindReasons
  <2>3. Dropped(l, f, Degrades)
    BY <2>1, <2>2 DEF Dropped
  <2>4. f \in Families \ l.unsupported
    BY DEF Families
  <2>5. QED
    BY <2>3, <2>4 DEF Degraded
<1>2. CASE State(l)["prs"] = "blind"
  <2>1. OwnState(l, "prs") = "blind" \/ OwnState(l, "repos") = "blind"
    BY <1>2, StateIs DEF Through
  <2>2. Blind(l, "prs") \/ Blind(l, "repos")
    BY <2>1 DEF OwnState
  <2>3. QED
    BY <1>1, <2>2
<1>3. CASE Dropped(l, "prs", {"cut"}) \/ Dropped(l, "repos", {"cut"})
  BY <1>1, <1>3
<1>4. QED
  BY <1>2, <1>3 DEF Withheld

LEMMA BegunInit ==
  ASSUME Init
  PROVE  BegunInv
BY DEF Init, Fresh, BegunInv, ReadsSteps, Closed, Ends

LEMMA BegunOpens ==
  ASSUME TypeInv, CoreInv,
         \/ \E err \in Errors \cup {"connection", "ended"}, named \in BOOLEAN : OpenFails(err, named)
         \/ Opens \/ SharesAccount \/ GateCut \/ StartReads \/ NextScan
  PROVE  BegunInv'
<1>1. CASE NextScan
  BY <1>1 DEF NextScan, BegunInv, ReadsSteps, Closed, Ends
<1>2. CASE ~NextScan
  <2>1. OpenMakes
    BY <1>2, OpenEffect
  <2>2. /\ step' \in {"unopened", "end", "discover"} \cup Gated
        /\ step' = "unopened" /\ ledger'.stop = "none" /\ ctx' = "live" =>
              Dropped(ledger', "repos", {"failed", "refused"})
        /\ step' = "end" => Lost'
        /\ step' = "discover" => "repos" \in ledger'.begun
    BY <2>1 DEF OpenMakes
  <2>3. Dropped(ledger', "repos", {"failed", "refused"}) => Unlisted'
    BY DEF Unlisted, Dropped
  <2>4. step' = "discover" => BegunBy(step)'
    BY DEF BegunBy
  <2>5. QED
    BY <2>2, <2>3, <2>4 DEF BegunInv, ReadsSteps, Closed, Ends, Gated
<1>3. QED
  BY <1>1, <1>2

LEMMA BegunDiscovery ==
  ASSUME TypeInv, CoreInv, BegunInv, (\E err \in Failures : DiscoveryFails(err)) \/ Discovered
  PROVE  BegunInv'
<1>1. CASE \E err \in Failures : DiscoveryFails(err)
  <2>1. FailedDiscovery
    BY <1>1, DiscoveryFailsFields
  <2>2. /\ step' = "end" /\ ctx' = ctx /\ \A d \in ledger'.drops : DropFits(ledger', d)
        /\ \/ Dropped(ledger', "repos", {"failed", "refused", "stopped"})
           \/ ctx # "live" /\ ledger'.stop = "none"
    BY <2>1 DEF FailedDiscovery
  <2>3. CASE ctx # "live" /\ ledger'.stop = "none"
    BY <2>2, <2>3 DEF BegunInv, Lost, ReadsSteps, Closed, Ends
  <2>4. CASE Dropped(ledger', "repos", {"failed", "refused", "stopped"})
    <3>1. PICK r \in {"failed", "refused", "stopped"} : <<"repos", r>> \in ledger'.drops
      BY <2>4 DEF Dropped
    <3>2. DropFits(ledger', <<"repos", r>>)
      BY <2>2, <3>1
    <3>3. r = "stopped" => ledger'.stop # "none"
      BY <3>2 DEF DropFits
    <3>4. r # "stopped" => Unlisted'
      BY <3>1 DEF Unlisted, Dropped
    <3>5. QED
      BY <2>2, <3>3, <3>4 DEF BegunInv, ReadsSteps, Closed, Ends
  <2>5. QED
    BY <2>2, <2>3, <2>4
<1>2. CASE Discovered
  <2>1. PICK ends \in [owners -> ({Listing(p) : p \in RepoPages} \cap {"whole", "cut"}) \cup {"unresolved"}],
             got \in [owners -> SUBSET repos] : Discovers(ends, got)
    BY <1>2 DEF Discovered, owners, repos
  <2>2. step' = step /\ step = "discover"
    BY <1>2 DEF Discovered, Discovering
  <2>3. "repos" \in ledger'.begun
    BY <2>1, DiscoversFields
  <2>4. BegunBy("discover")'
    BY DEF BegunBy
  <2>5. QED
    BY <2>2, <2>3, <2>4 DEF BegunInv, ReadsSteps, Closed, Ends
<1>3. QED
  BY <1>1, <1>2

(* Each step begins the families it reads, or cannot. *)
LEMMA BegunNextStep ==
  ASSUME TypeInv, CoreInv, BegunInv, NextStep
  PROVE  BegunInv'
<1>1. PICK l \in LedgerSet :
         /\ step \in ReadsSteps \cup {"discover"}
         /\ l.off = ledger.off
         /\ l.unsupported = (IF step = "runs" /\ "undated" \in dates /\ "dated" \notin dates
                             THEN ledger.unsupported \cup {"runs", "failing"} ELSE ledger.unsupported)
         /\ l.begun = (IF step = "runs" /\ "undated" \in dates /\ "dated" \in dates
                       THEN ledger.begun \cup {"runs"} ELSE ledger.begun)
         /\ l.drops = (IF step = "runs" /\ "undated" \in dates /\ "dated" \in dates
                       THEN ledger.drops \cup {<<"runs", "failed">>} ELSE ledger.drops)
         /\ \/ /\ Dropped(l, "repos", {"noRepos"})
               /\ step' = "end" /\ ledger' = l
            \/ step' = After(step) /\ ledger' = Begin(l, Reading(After(step), l))
  BY NextStepCases
<1>2. "repos" \in ledger.begun /\ BegunBy(step)
  BY <1>1 DEF BegunInv
<1>3. env' = env
  BY DEF NextStep
<1>4. CASE Dropped(l, "repos", {"noRepos"}) /\ step' = "end" /\ ledger' = l
  <2>1. Unlisted'
    BY <1>4 DEF Unlisted, Dropped
  <2>2. QED
    BY <1>4, <2>1 DEF BegunInv, ReadsSteps, Closed, Ends
<1>5. CASE step' = After(step) /\ ledger' = Begin(l, Reading(After(step), l))
  <2> DEFINE fs == Reading(After(step), l)
  <2>1. /\ ledger'.begun = l.begun \cup fs /\ ledger'.unsupported = l.unsupported /\ ledger'.off = ledger.off
        /\ ledger'.drops = l.drops
    BY <1>1, <1>5, BeginFields, ReadingFamilies
  <2>2. "repos" \in ledger'.begun /\ ledger.begun \subseteq ledger'.begun /\ ledger.drops \subseteq ledger'.drops
        /\ ledger.unsupported \subseteq ledger'.unsupported
    BY <1>1, <1>2, <2>1
  <2>3. step \in {"discover", "snapshots", "runs", "checks", "github"}
    BY <1>1 DEF ReadsSteps
  <2>4. CASE step = "discover"
    <3>1. step' = "snapshots" /\ fs = {"prs", "issues"}
      BY <1>5, <2>4, Steps DEF Reading
    <3>2. BegunBy("snapshots")'
      BY <2>1, <3>1 DEF BegunBy
    <3>3. QED
      BY <2>2, <3>1, <3>2 DEF BegunInv, ReadsSteps, Closed, Ends
  <2>5. CASE step = "snapshots"
    <3>1. step' = "runs" /\ fs = {"runs"}
      BY <1>5, <2>5, Steps DEF Reading
    <3>2. BegunBy("runs")'
      BY <1>2, <2>1, <2>2, <2>5, <3>1 DEF BegunBy
    <3>3. QED
      BY <2>2, <3>1, <3>2 DEF BegunInv, ReadsSteps, Closed, Ends
  <2>6. CASE step = "runs"
    <3>1. step' = "checks" /\ fs = Reading("checks", l)
      BY <1>5, <2>6, Steps
    <3>2. "checks" \in ledger'.begun \cup ledger'.unsupported \/ Degraded(ledger')
      <4>1. CASE ReadsChecks(l)
        BY <2>1, <3>1, <4>1 DEF Reading
      <4>2. CASE ~ReadsChecks(l)
        <5>1. "checks" \in l.unsupported \/ Withheld(l, "prs")
          BY <4>2 DEF ReadsChecks
        <5>2. l.unsupported \cap {"repos", "prs"} = {}
          BY <1>1 DEF CoreInv, LedgerInv
        <5>3. "checks" \in l.unsupported \/ Degraded(l)
          BY <5>1, <5>2, WithheldDegrades
        <5>4. Degraded(l) => Degraded(ledger')
          BY <2>1, DegradedStays
        <5>5. QED
          BY <2>1, <5>3, <5>4
      <4>3. QED
        BY <4>1, <4>2
    <3>3. BegunBy("checks")'
      BY <1>2, <2>2, <2>6, <3>2 DEF BegunBy
    <3>4. QED
      BY <2>2, <3>1, <3>3 DEF BegunInv, ReadsSteps, Closed, Ends
  <2>7. CASE step \in {"checks", "github"}
    <3>1. ledger'.unsupported = ledger.unsupported
      BY <1>1, <2>1, <2>7
    <3>3. Degraded(ledger) => Degraded(ledger')
      BY <2>2, <3>1, DegradedStays
    <3>4. {"security", "workflows"} \subseteq ledger'.begun \cup ledger'.unsupported \cup ledger'.off
      <4>1. CASE step = "github"
        BY <1>2, <2>1, <2>2, <4>1 DEF BegunBy
      <4>2. CASE step = "checks"
        <5>1. fs = Reading("github", l)
          BY <4>2, Steps
        <5>2. env.product # "github" => {"security", "workflows"} \subseteq ledger.unsupported
          BY <1>1 DEF CoreInv, LedgerInv
        <5>3. env.product = "github" /\ ~env.security => "security" \in ledger.off
          BY <1>1 DEF CoreInv, LedgerInv
        <5>4. env.product = "github" => "workflows" \in fs /\ (env.security => "security" \in fs)
          BY <5>1 DEF Reading
        <5>5. QED
          BY <2>1, <2>2, <5>2, <5>3, <5>4
      <4>3. QED
        BY <2>7, <4>1, <4>2
    <3>5. step' \in {"github", "end"}
      BY <1>5, <2>7, Steps
    <3>6. BegunBy(step)'
      BY <1>2, <2>2, <2>7, <3>1, <3>3, <3>4 DEF BegunBy
    <3>7. QED
      BY <2>2, <3>5, <3>6 DEF BegunInv, ReadsSteps, Closed, Ends
  <2>8. QED
    BY <2>3, <2>4, <2>5, <2>6, <2>7
<1>6. QED
  BY <1>1, <1>4, <1>5

LEMMA BegunReads ==
  ASSUME TypeInv, CoreInv, BegunInv, Skip \/ Read
  PROVE  BegunInv'
<1>1. ASSUME step \in ReadsSteps, ledger.begun \subseteq ledger'.begun, ledger.drops \subseteq ledger'.drops,
             ledger'.unsupported = ledger.unsupported, ledger'.off = ledger.off,
             step' = step \/ (step' = "end" /\ (ledger'.stop # "none" \/ Lost'))
      PROVE  BegunInv'
  <2>1. "repos" \in ledger'.begun /\ BegunBy(step)
    BY <1>1 DEF BegunInv
  <2>2. step' = step => BegunBy(step)'
    BY <1>1, <2>1, DegradedStays DEF BegunBy
  <2>3. QED
    BY <1>1, <2>1, <2>2 DEF BegunInv, ReadsSteps, Closed, Ends
<1>2. CASE Read
  <2>1. PICK u, f : ReadMakes(u, f)
    BY <1>2, ReadEffect
  <2>2. QED
    BY <1>1, <2>1 DEF ReadMakes, Keeps
<1>3. CASE Skip
  <2> DEFINE u == Head(todo)
  <2>1. /\ todo # <<>> /\ step' = step
        /\ ledger' = IF IsOwner(u) THEN ledger ELSE Drop(ledger, u[1], "skipped")
    BY <1>3 DEF Skip
  <2>2. u \in Left /\ ledger \in LedgerSet
    BY <2>1, TypeFacts, TailElements DEF Left
  <2> HIDE DEF u
  <2>3. PICK f \in Families : f = u[1]
    BY <2>2, ReadsHead
  <2>4. step \in ReadsSteps
    BY <2>2, ReadsHead
  <2>5. LET m == Drop(ledger, f, "skipped")
        IN  Keeps(ledger, m) /\ m.begun = ledger.begun \cup {f} /\ m.drops = ledger.drops \cup {<<f, "skipped">>}
    BY <2>2, DropMany DEF Reasons, Excluded
  <2>6. /\ ledger.begun \subseteq ledger'.begun /\ ledger.drops \subseteq ledger'.drops
        /\ ledger'.unsupported = ledger.unsupported /\ ledger'.off = ledger.off
    BY <2>1, <2>3, <2>5 DEF Keeps
  <2>7. QED
    BY <1>1, <2>1, <2>4, <2>6
<1>4. QED
  BY <1>2, <1>3

LEMMA BegunEnds ==
  ASSUME TypeInv, CoreInv, BegunInv, EndMakes \/ CloseMakes, CoreInv'
  PROVE  BegunInv'
<1>1. /\ step \in {"end", "unopened", "save", "saved"} /\ step' \in Closed /\ ctx' = ctx
      /\ ledger.begun \subseteq ledger'.begun /\ ledger.drops \subseteq ledger'.drops
      /\ ledger'.unsupported = ledger.unsupported /\ ledger'.off = ledger.off
      /\ ledger.stop # "none" => ledger'.stop # "none"
      /\ step \in {"end", "unopened"} /\ ctx = "limit" => ledger'.stop # "none"
  BY DEF EndMakes, CloseMakes, Keeps, Closed
<1>2. Degraded(ledger) => Degraded(ledger')
  BY <1>1, DegradedStays
<1>3. Unlisted => Unlisted'
  BY <1>1 DEF Unlisted, Dropped
<1>4. Lost \/ (step = "unopened" /\ ctx # "live") => Lost' \/ ledger'.stop # "none"
  BY <1>1, TypeNow DEF Lost, Closed
<1>5. BegunBy(step) => BegunBy(step)'
  BY <1>1, <1>2 DEF BegunBy, Closed, Ends
<1>6. \/ ledger.stop # "none" \/ Unlisted \/ Lost
      \/ step = "unopened" /\ ctx # "live"
      \/ "repos" \in ledger.begun /\ BegunBy(step)
  BY <1>1 DEF BegunInv, Closed
<1>7. \/ ledger'.stop # "none" \/ Unlisted' \/ Lost'
      \/ "repos" \in ledger'.begun /\ BegunBy(step)'
  BY <1>1, <1>3, <1>4, <1>5, <1>6
<1>8. step' \notin ReadsSteps \cup {"discover"}
  BY <1>1 DEF Closed, Ends, ReadsSteps
<1>9. CASE EndMakes
  <2>1. step' = "save"
    BY <1>9 DEF EndMakes
  <2>2. QED
    BY <1>7, <1>8, <2>1 DEF BegunInv
<1>10. CASE CloseMakes
  <2>1. /\ step' = "saved" => "state" \in ledger'.begun
        /\ step' \in Ends => step = "saved"
        /\ step' = "complete" => "runs" \notin ledger.begun \ ledger.unsupported \/ "failing" \in ledger'.begun
        /\ step' \in {"saved"} \cup Ends
    BY <1>10 DEF CloseMakes
  <2>2. step' \in {"saved", "complete", "stopped"} => "state" \in ledger'.begun
    BY <1>1, <2>1 DEF BegunInv, Ends
  <2>3. step' = "complete" => "failing" \in ledger'.begun \cup ledger'.unsupported \/ Degraded(ledger')
    <3> SUFFICES ASSUME step' = "complete"
                 PROVE  "failing" \in ledger'.begun \cup ledger'.unsupported \/ Degraded(ledger')
      OBVIOUS
    <3>1. ledger'.stop = "none" /\ ~Lost'
      BY DEF CoreInv, EndInv, Lost, Closed, Ends
    <3>2. CASE Unlisted'
      <4>1. Dropped(ledger', "repos", Degrades)
        BY <3>2 DEF Unlisted, Dropped, Degrades, Partial, BlindReasons
      <4>2. "repos" \in Families \ ledger'.unsupported
        BY DEF Families, CoreInv, LedgerInv
      <4>3. QED
        BY <4>1, <4>2 DEF Degraded
    <3>3. CASE BegunBy(step)
      <4>1. "runs" \in ledger.begun
        BY <1>1, <3>3 DEF BegunBy
      <4>2. "runs" \in ledger.unsupported => "failing" \in ledger.unsupported
        BY DEF CoreInv, LedgerInv
      <4>3. QED
        BY <1>1, <2>1, <4>1, <4>2
    <3>4. QED
      BY <1>1, <1>3, <1>4, <1>6, <3>1, <3>2, <3>3
  <2>4. QED
    BY <1>7, <1>8, <2>1, <2>2, <2>3 DEF BegunInv
<1>11. QED
  BY <1>9, <1>10

LEMMA BegunStep ==
  ASSUME TypeInv, CoreInv, BegunInv, CoreInv', [Next]_vars
  PROVE  BegunInv'
<1>1. CASE UNCHANGED vars
  <2>1. UNCHANGED <<step, ctx, ledger>>
    BY <1>1 DEF vars
  <2>2. QED
    BY <2>1 DEF BegunInv, BegunBy, Unlisted, Lost
<1>2. ASSUME NEW how \in {"limit", "shutdown"}, CtxEnds(how)
      PROVE  BegunInv'
  <2>1. UNCHANGED <<step, ledger>> /\ ctx = "live" /\ how # "live" /\ ctx' = how
    BY <1>2 DEF CtxEnds
  <2>2. (Lost => Lost') /\ (Unlisted <=> Unlisted') /\ (BegunBy(step) <=> BegunBy(step)')
    BY <2>1 DEF Lost, Unlisted, BegunBy
  <2>3. QED
    BY <2>1, <2>2 DEF BegunInv
<1>3. QED
  BY <1>1, <1>2, BegunOpens, BegunDiscovery, BegunNextStep, BegunReads, EndEffect, CloseEffect, BegunEnds DEF Next

(* A family that dropped what degrades a scan is not complete. *)
LEMMA DegradedFamily ==
  ASSUME NEW l, NEW f \in Families, Dropped(l, f, Degrades), f \notin l.unsupported, f \in l.begun \ l.off
  PROVE  State(l)[f] \notin {"complete", "unsupported", "excluded"}
<1>1. f \in {"repos", "state", "failing", "checks", "prs", "issues", "runs", "security", "workflows"}
  BY DEF Families
<1>2. Blind(l, f) \/ Dropped(l, f, Partial)
  BY DEF Blind, Dropped, Degrades
<1>3. OwnState(l, f) \in {"blind", "partial"}
  BY <1>2 DEF OwnState
<1>4. \A parent : Through(OwnState(l, f), parent) \notin {"complete", "unsupported", "excluded"}
  BY <1>3 DEF Through
<1>5. QED
  BY <1>1, <1>3, <1>4, StateIs

(* Families read without a drop that degrades, each with the one it is read
   through, are complete but those the product or the operator leaves out. *)
LEMMA WholeFamilies ==
  ASSUME NEW l, ~Degraded(l), l.stop = "none",
         \A f \in Families : f \in l.begun \cup l.unsupported \cup l.off,
         \A d \in l.drops : d[2] # "stopped",
         l.off \subseteq {"security"}, l.unsupported \cap {"repos", "prs"} = {},
         "runs" \in l.unsupported => "failing" \in l.unsupported
  PROVE  Complete(l)
<1>1. Families = {"repos", "state", "failing", "checks", "prs", "issues", "runs", "security", "workflows"}
  BY DEF Families
<1>2. ASSUME NEW f \in Families, f \notin l.unsupported
      PROVE  ~Dropped(l, f, Partial) /\ ~Blind(l, f)
  <2>1. ~Dropped(l, f, Degrades)
    BY <1>2 DEF Degraded
  <2>2. ASSUME NEW r \in Partial \cup BlindReasons, <<f, r>> \in l.drops
        PROVE  FALSE
    <3>1. r # "stopped"
      <4>1. <<f, r>>[2] = r
        OBVIOUS
      <4>2. QED
        BY <2>2, <4>1
    <3>2. r \in Degrades
      BY <3>1 DEF Degrades
    <3>3. QED
      BY <2>1, <2>2, <3>2 DEF Dropped
  <2>3. ~Dropped(l, f, Partial \cup BlindReasons)
    BY <2>2 DEF Dropped
  <2>4. QED
    BY <2>3 DEF Dropped, Blind, Partial
<1>3. ASSUME NEW f \in Families
      PROVE  OwnState(l, f) = (IF f \in l.unsupported THEN "unsupported" ELSE IF f \in l.off THEN "excluded" ELSE "complete")
  BY <1>2 DEF OwnState
<1>4. ASSUME NEW f \in Families
      PROVE  OwnState(l, f) \in {"complete", "unsupported", "excluded"}
  BY <1>3
<1>5. OwnState(l, "repos") = "complete" /\ OwnState(l, "prs") = "complete"
  BY <1>1, <1>3
<1>6. State(l)["repos"] = "complete" /\ State(l)["prs"] = "complete"
  BY <1>5, StateIs DEF Through
<1>7. \A f \in {"prs", "issues", "runs", "security", "workflows", "checks", "repos", "state"} : State(l)[f] = OwnState(l, f)
  BY <1>6, StateIs DEF Through
<1>8. State(l)["failing"] \in {"complete", "unsupported", "excluded"}
  <2>1. CASE "failing" \in l.unsupported
    BY <1>1, <1>3, <2>1, StateIs DEF Through
  <2>2. CASE "failing" \notin l.unsupported
    <3>1. OwnState(l, "runs") = "complete" /\ OwnState(l, "failing") = "complete"
      BY <1>1, <1>3, <2>2
    <3>2. QED
      BY <1>7, <3>1, StateIs DEF Through
  <2>3. QED
    BY <2>1, <2>2
<1>9. QED
  BY <1>1, <1>4, <1>7, <1>8 DEF Complete

(* A scan complete line is degraded exactly when the scan is not whole: no
   family can be cut, blind or left unread, by whatever chain of failures,
   without the line and the trigger's exit saying so. *)
THEOREM SaysIncomplete == Spec => []DegradedIsIncomplete
<1> DEFINE Inv == TypeInv /\ CoreInv /\ BegunInv
<1>1. Init => Inv
  BY TypeInit, CoreInit, BegunInit
<1>2. Inv /\ [Next]_vars => Inv'
  <2> SUFFICES ASSUME Inv, [Next]_vars
               PROVE  Inv'
    OBVIOUS
  <2>1. TypeInv' /\ CoreInv'
    BY TypeStep, CoreStep
  <2>2. QED
    BY <2>1, BegunStep
<1>3. Inv => DegradedIsIncomplete
  <2> SUFFICES ASSUME TypeInv, CoreInv, BegunInv, step = "complete"
               PROVE  Degraded(ledger) <=> ~Complete(ledger)
    BY DEF DegradedIsIncomplete
  <2>1. ledger.stop = "none" /\ ~Lost
    BY DEF CoreInv, EndInv, Lost
  <2>2. /\ \A d \in ledger.drops : d[1] \in ledger.begun /\ d[2] # "stopped"
        /\ ledger.off \subseteq {"security"} /\ ledger.off \cap ledger.begun = {}
        /\ ledger.unsupported \cap {"repos", "prs"} = {}
        /\ "runs" \in ledger.unsupported => "failing" \in ledger.unsupported
    BY <2>1 DEF CoreInv, LedgerInv, DropFits
  <2>3. ASSUME Degraded(ledger)
        PROVE  ~Complete(ledger)
    <3>1. PICK f \in Families \ ledger.unsupported : Dropped(ledger, f, Degrades)
      BY <2>3 DEF Degraded
    <3>2. PICK r : <<f, r>> \in ledger.drops
      BY <3>1 DEF Dropped
    <3>3. <<f, r>>[1] = f
      OBVIOUS
    <3>4. f \in ledger.begun \ ledger.off
      BY <2>2, <3>2, <3>3
    <3>5. QED
      BY <3>1, <3>4, DegradedFamily DEF Complete
  <2>4. ASSUME ~Degraded(ledger)
        PROVE  Complete(ledger)
    <3>1. ~Unlisted
      <4>1. {"failed", "refused", "noRepos"} \subseteq Degrades /\ "repos" \in Families
        BY DEF Degrades, Partial, BlindReasons, Families
      <4>2. QED
        BY <2>2, <2>4, <4>1 DEF Unlisted, Dropped, Degraded
    <3>2. "repos" \in ledger.begun /\ BegunBy(step)
      BY <2>1, <3>1 DEF BegunInv, Closed, Ends
    <3>3. /\ {"prs", "issues", "runs"} \subseteq ledger.begun
          /\ "checks" \in ledger.begun \cup ledger.unsupported
          /\ {"security", "workflows"} \subseteq ledger.begun \cup ledger.unsupported \cup ledger.off
      BY <2>4, <3>2 DEF BegunBy
    <3>4. "state" \in ledger.begun /\ "failing" \in ledger.begun \cup ledger.unsupported
      BY <2>4 DEF BegunInv
    <3>5. \A f \in Families : f \in ledger.begun \cup ledger.unsupported \cup ledger.off
      BY <3>2, <3>3, <3>4 DEF Families
    <3>6. QED
      BY <2>1, <2>2, <2>4, <3>5, WholeFamilies
  <2>5. QED
    BY <2>3, <2>4
<1>4. QED
  BY <1>1, <1>2, <1>3, PTL DEF Spec
=============================================================================

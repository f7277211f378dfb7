---------------------------- MODULE BillingProofs ----------------------------
(* Proofs about Billing: the links of a result lead to its files, for      *)
(* documents of any kind and length and any number of runs; the changes of *)
(* an account's flags and settings are kept, and the gateway's caches of   *)
(* them are fresh; invoices are shown to whom they belong; the overview of *)
(* the administrators covers what there is; the billing page shows what    *)
(* was used, from counters that hold it.                                   *)
EXTENDS Billing, FiniteSetTheorems, TLAPS

-----------------------------------------------------------------------------
(* The names of a result.                                                  *)

Prefix == {"page", "preview", "image", "table", "pdf", "markdown", "input"}

File == [prefix : Prefix, n : Nat]

\* A name is a file name, and has its parts.
LEMMA NamesAreFiles ==
    ASSUME NEW p \in Prefix, NEW k \in Nat
    PROVE  Name(p, k) \in File /\ Name(p, k).prefix = p /\ Name(p, k).n = k
  BY DEF Name, File

\* The files of a sequence.
FilesOf(s) == {s[i] : i \in DOMAIN s}

\* Every preview comes with its page, every page but the labels with its preview.
WellNamed(files) ==
    \A f \in files :
        /\ f.prefix = "preview" => Name("page", f.n) \in files
        /\ f.prefix = "page" => f = PageLabels \/ Name("preview", f.n) \in files

\* The files of two sequences, one after the other.
LEMMA FilesOfConcat ==
    ASSUME NEW s \in Seq(File), NEW t \in Seq(File)
    PROVE  s \o t \in Seq(File) /\ FilesOf(s \o t) = FilesOf(s) \cup FilesOf(t)
  <1>1. /\ s \o t \in Seq(File)
        /\ Len(s \o t) = Len(s) + Len(t)
        /\ Len(s) \in Nat /\ Len(t) \in Nat
        /\ \A i \in 1 .. Len(s) + Len(t) :
              (s \o t)[i] = IF i <= Len(s) THEN s[i] ELSE t[i - Len(s)]
    OBVIOUS
  <1>2. DOMAIN s = 1 .. Len(s) /\ DOMAIN t = 1 .. Len(t) /\ DOMAIN (s \o t) = 1 .. Len(s) + Len(t)
    BY <1>1
  <1>3. ASSUME NEW i \in 1 .. Len(s) + Len(t)
        PROVE  (s \o t)[i] \in FilesOf(s) \cup FilesOf(t)
    <2>1. CASE i <= Len(s)
      BY <2>1, <1>1, <1>2 DEF FilesOf
    <2>2. CASE ~(i <= Len(s))
      <3>1. i - Len(s) \in 1 .. Len(t) /\ (s \o t)[i] = t[i - Len(s)]
        BY <2>2, <1>1
      <3> QED BY <3>1, <1>2 DEF FilesOf
    <2> QED BY <2>1, <2>2
  <1>4. ASSUME NEW i \in 1 .. Len(s) PROVE s[i] \in FilesOf(s \o t)
    <2>1. i \in 1 .. Len(s) + Len(t) /\ (s \o t)[i] = s[i]
      BY <1>1
    <2> QED BY <2>1, <1>2 DEF FilesOf
  <1>5. ASSUME NEW i \in 1 .. Len(t) PROVE t[i] \in FilesOf(s \o t)
    <2>1. i + Len(s) \in 1 .. Len(s) + Len(t) /\ (s \o t)[i + Len(s)] = t[i]
      BY <1>1
    <2> QED BY <2>1, <1>2 DEF FilesOf
  <1> QED BY <1>1, <1>2, <1>3, <1>4, <1>5 DEF FilesOf

\* The odd places of the plan hold the pages, the even ones their previews.
LEMMA HalfPlaces ==
    ASSUME NEW n \in Nat, NEW i \in 1 .. 2 * n
    PROVE  \E k \in 1 .. n : \/ i = 2 * k - 1 /\ i % 2 = 1 /\ (i + 1) \div 2 = k
                             \/ i = 2 * k /\ i % 2 # 1 /\ i \div 2 = k
  <1>1. CASE i % 2 = 1
    <2>1. PICK k \in Int : k = (i + 1) \div 2
      OBVIOUS
    <2>2. i + 1 = 2 * k
      BY <1>1, <2>1
    <2>3. k \in 1 .. n
      BY <2>2
    <2> QED BY <1>1, <2>1, <2>2, <2>3
  <1>2. CASE i % 2 # 1
    <2>1. PICK k \in Int : k = i \div 2
      OBVIOUS
    <2>2. i = 2 * k
      BY <1>2, <2>1
    <2>3. k \in 1 .. n
      BY <2>2
    <2> QED BY <1>2, <2>1, <2>2, <2>3
  <1> QED BY <1>1, <1>2

\* The pages of a document have their previews and the previews their pages.
LEMMA PagesWellNamed ==
    ASSUME NEW n \in Nat
    PROVE  Pages(n) \in Seq(File) /\ WellNamed(FilesOf(Pages(n)))
  <1>1. /\ DOMAIN Pages(n) = 1 .. 2 * n
        /\ \A i \in 1 .. 2 * n :
              Pages(n)[i] = IF i % 2 = 1 THEN Name("page", (i + 1) \div 2) ELSE Name("preview", i \div 2)
    BY DEF Pages
  <1>2. ASSUME NEW i \in 1 .. 2 * n
        PROVE  \E k \in 1 .. n : \/ i = 2 * k - 1 /\ Pages(n)[i] = Name("page", k)
                                 \/ i = 2 * k /\ Pages(n)[i] = Name("preview", k)
    <2>1. PICK k \in 1 .. n : \/ i = 2 * k - 1 /\ i % 2 = 1 /\ (i + 1) \div 2 = k
                              \/ i = 2 * k /\ i % 2 # 1 /\ i \div 2 = k
      BY HalfPlaces
    <2>2. CASE i = 2 * k - 1 /\ i % 2 = 1 /\ (i + 1) \div 2 = k
      BY <2>2, <1>1
    <2>3. CASE i = 2 * k /\ i % 2 # 1 /\ i \div 2 = k
      BY <2>3, <1>1
    <2> QED BY <2>1, <2>2, <2>3
  <1>3. ASSUME NEW k \in 1 .. n
        PROVE  /\ 2 * k - 1 \in 1 .. 2 * n /\ Pages(n)[2 * k - 1] = Name("page", k)
               /\ 2 * k \in 1 .. 2 * n /\ Pages(n)[2 * k] = Name("preview", k)
    <2>1. 2 * k - 1 \in 1 .. 2 * n /\ 2 * k \in 1 .. 2 * n
      OBVIOUS
    <2>2. (2 * k - 1) % 2 = 1 /\ ((2 * k - 1) + 1) \div 2 = k /\ (2 * k) % 2 # 1 /\ (2 * k) \div 2 = k
      OBVIOUS
    <2> QED BY <2>1, <2>2, <1>1
  <1>4. \A k \in 1 .. n : Name("page", k) \in FilesOf(Pages(n)) /\ Name("preview", k) \in FilesOf(Pages(n))
    BY <1>1, <1>3 DEF FilesOf
  <1>5. ASSUME NEW f \in FilesOf(Pages(n))
        PROVE  \E k \in 1 .. n : f = Name("page", k) \/ f = Name("preview", k)
    BY <1>1, <1>2, <1>5 DEF FilesOf
  <1>6. Pages(n) \in Seq(File)
    <2>1. \A k \in 1 .. n : Name("page", k) \in File /\ Name("preview", k) \in File
      <3> "page" \in Prefix /\ "preview" \in Prefix
        BY DEF Prefix
      <3> QED BY NamesAreFiles
    <2>2. \A i \in 1 .. 2 * n : Pages(n)[i] \in File
      BY <1>2, <2>1
    <2>3. 2 * n \in Nat /\ Pages(n) = [i \in 1 .. 2 * n |-> Pages(n)[i]]
      BY DEF Pages
    <2> QED BY <2>2, <2>3
  <1>7. ASSUME NEW f \in FilesOf(Pages(n))
        PROVE  /\ f.prefix = "preview" => Name("page", f.n) \in FilesOf(Pages(n))
               /\ f.prefix = "page" => f = PageLabels \/ Name("preview", f.n) \in FilesOf(Pages(n))
    <2>1. PICK k \in 1 .. n : f = Name("page", k) \/ f = Name("preview", k)
      BY <1>5
    <2>2. f.n = k
      BY <2>1 DEF Name
    <2> QED BY <2>2, <1>4
  <1> QED BY <1>6, <1>7 DEF WellNamed

\* Files that are neither pages nor previews do not matter, nor do the labels.
LEMMA OthersWellNamed ==
    ASSUME NEW files, WellNamed(files), NEW others,
           \A f \in others : f = PageLabels \/ f.prefix \notin {"page", "preview"}
    PROVE  WellNamed(files \cup others)
  <1>1. PageLabels.prefix = "page"
    BY DEF PageLabels, Name
  <1>2. SUFFICES ASSUME NEW f \in files \cup others
                 PROVE  /\ f.prefix = "preview" => Name("page", f.n) \in files \cup others
                        /\ f.prefix = "page" => f = PageLabels \/ Name("preview", f.n) \in files \cup others
    BY DEF WellNamed
  <1>3. CASE f \in files
    BY <1>3 DEF WellNamed
  <1>4. CASE f \in others
    BY <1>1, <1>4
  <1> QED BY <1>3, <1>4

\* What a run is going to put.
LEMMA PlanWellNamed ==
    ASSUME document \in Documents, NEW n \in Nat
    PROVE  Plan(n) \in Seq(File) /\ WellNamed(FilesOf(Plan(n)))
  <1> DEFINE labels == IF n > 0 THEN <<PageLabels>> ELSE <<>>
             text   == IF document.text THEN <<Markdown>> ELSE <<>>
             files  == CASE document.kind = "text"   -> <<>>
                         [] document.kind = "image"  -> Numbered("image", document.pages)
                         [] document.kind = "pdf"    -> PdfPlan(n)
                         [] document.kind = "legacy" -> <<Pdf>> \o PdfPlan(n)
  <1>1. /\ labels \in Seq(File) /\ \A f \in FilesOf(labels) : f = PageLabels
        /\ text \in Seq(File) /\ \A f \in FilesOf(text) : f.prefix \notin {"page", "preview"}
    <2>1. PageLabels \in File /\ Markdown \in File /\ Markdown.prefix = "markdown"
      <3> "page" \in Prefix /\ "markdown" \in Prefix
        BY DEF Prefix
      <3> QED BY NamesAreFiles DEF PageLabels, Markdown
    <2> HIDE DEF File
    <2>2. <<PageLabels>> \in Seq(File) /\ FilesOf(<<PageLabels>>) = {PageLabels}
      BY <2>1 DEF FilesOf
    <2>3. <<Markdown>> \in Seq(File) /\ FilesOf(<<Markdown>>) = {Markdown}
      BY <2>1 DEF FilesOf
    <2>4. <<>> \in Seq(File) /\ FilesOf(<<>>) = {}
      BY DEF FilesOf
    <2> QED BY <2>1, <2>2, <2>3, <2>4
  <1>2. PdfPlan(n) = Pages(n) \o labels
    BY DEF PdfPlan
  <1>3. Plan(n) = files \o text
    BY DEF Plan
  <1> HIDE DEF labels, text
  <1>4. PdfPlan(n) \in Seq(File) /\ WellNamed(FilesOf(PdfPlan(n)))
    <2>1. FilesOf(PdfPlan(n)) = FilesOf(Pages(n)) \cup FilesOf(labels) /\ PdfPlan(n) \in Seq(File)
      BY <1>1, <1>2, PagesWellNamed, FilesOfConcat
    <2> QED BY <2>1, <1>1, PagesWellNamed, OthersWellNamed
  <1>5. files \in Seq(File) /\ WellNamed(FilesOf(files))
    <2>1. CASE document.kind = "text"
      BY <2>1 DEF WellNamed, FilesOf
    <2>2. CASE document.kind = "image"
      <3>1. files = Numbered("image", document.pages) /\ document.pages \in Nat
        BY <2>2, DocumentsAssumption
      <3>2. Numbered("image", document.pages) \in Seq(File)
        <4>1. "image" \in Prefix
          BY DEF Prefix
        <4>2. \A k \in 1 .. document.pages : Name("image", k) \in File
          BY <3>1, <4>1, NamesAreFiles
        <4> QED BY <3>1, <4>2 DEF Numbered
      <3>3. \A f \in FilesOf(Numbered("image", document.pages)) : f.prefix = "image"
        <4>1. \A k : Name("image", k).prefix = "image"
          BY DEF Name
        <4> QED BY <4>1 DEF FilesOf, Numbered
      <3> QED BY <3>1, <3>2, <3>3 DEF WellNamed
    <2>3. CASE document.kind = "pdf"
      BY <2>3, <1>4
    <2>4. CASE document.kind = "legacy"
      <3>1. files = <<Pdf>> \o PdfPlan(n)
        BY <2>4
      <3>2. <<Pdf>> \in Seq(File) /\ \A f \in FilesOf(<<Pdf>>) : f.prefix = "pdf"
        <4>1. "pdf" \in Prefix
          BY DEF Prefix
        <4>2. Pdf \in File /\ Pdf.prefix = "pdf"
          BY <4>1, NamesAreFiles DEF Pdf
        <4> QED BY <4>2 DEF FilesOf
      <3>3. files \in Seq(File) /\ FilesOf(files) = FilesOf(PdfPlan(n)) \cup FilesOf(<<Pdf>>)
        <4> DEFINE one  == <<Pdf>>
                   rest == PdfPlan(n)
        <4>1. one \in Seq(File) /\ rest \in Seq(File) /\ files = one \o rest
          BY <3>1, <3>2, <1>4
        <4> HIDE DEF one, rest, files
        <4>2. one \o rest \in Seq(File) /\ FilesOf(one \o rest) = FilesOf(one) \cup FilesOf(rest)
          BY <4>1, FilesOfConcat
        <4>3. files \in Seq(File) /\ FilesOf(files) = FilesOf(rest) \cup FilesOf(one)
          BY <4>1, <4>2
        <4> QED BY <4>3 DEF one, rest
      <3> QED BY <3>2, <3>3, <1>4, OthersWellNamed
    <2> QED BY <2>1, <2>2, <2>3, <2>4, DocumentsAssumption
  <1> HIDE DEF files
  <1>6. Plan(n) \in Seq(File) /\ FilesOf(Plan(n)) = FilesOf(files) \cup FilesOf(text)
    BY <1>1, <1>3, <1>5, FilesOfConcat
  <1> QED BY <1>1, <1>5, <1>6, OthersWellNamed

-----------------------------------------------------------------------------
(* The inductive invariant.                                                *)

Run == [at : {"new", "working", "done", "over"}, plan : Seq(File), done : Nat]

\* A run puts a plan whose names belong together, and has put what it has counted.
RunsPut ==
    /\ run \in [Runs -> Run]
    /\ \A r \in Runs :
          /\ run[r].done <= Len(run[r].plan)
          /\ WellNamed(FilesOf(run[r].plan))
          /\ removed \/ \A i \in 1 .. run[r].done : run[r].plan[i] \in blobs

\* The manifest names stored files that belong together.
ManifestStored ==
    /\ manifest \subseteq File
    /\ WellNamed(manifest)
    /\ removed \/ manifest \subseteq blobs

\* The page shows such a manifest, an older one only if it has been replaced.
RowStored ==
    /\ shownRow.files \subseteq File
    /\ WellNamed(shownRow.files)
    /\ shownRow.status # "ok" => shownRow.files = {}
    /\ removed \/ shownRow.files \subseteq blobs
    /\ removed \/ replaced \/ shownRow.files \subseteq manifest

\* A download asks for a file of the manifest, unless that has been replaced.
FileStored ==
    /\ file = [at |-> file.at, name |-> file.name]
    /\ removed \/ replaced \/ (file.at = "sent" => file.name \in manifest)
    /\ removed \/ replaced \/ file.at # "missing"

\* Files are removed by a deletion that has begun.
DeletionBegan == deletion.on \/ deletion.left # {} => removed

ResultInv ==
    /\ document \in Documents
    /\ RunsPut /\ ManifestStored /\ RowStored /\ FileStored /\ DeletionBegan

\* What the page links to is what it shows, all but the labels.
LEMMA LinksOfRow ==
    ASSUME RowStored
    PROVE  Links \subseteq shownRow.files /\ shownRow.files \ Links \subseteq {PageLabels}
  <1>1. CASE shownRow.status # "ok"
    BY <1>1 DEF RowStored, Links
  <1>2. CASE shownRow.status = "ok"
    <2>1. Links = Linked(shownRow.files) \cup Strip(shownRow.files)
      BY <1>2 DEF Links
    <2>2. Linked(shownRow.files) \subseteq shownRow.files
      BY DEF Linked, OtherFiles, Group
    <2>3. Strip(shownRow.files) \subseteq shownRow.files
      BY DEF Strip, Group, RowStored, WellNamed
    <2>4. ASSUME NEW f \in shownRow.files, f \notin Links PROVE f = PageLabels
      <3>1. f.prefix = "page"
        BY <2>1, <2>4 DEF Linked, OtherFiles, Group, Strip
      <3>2. f = Name("page", f.n)
        BY <3>1 DEF RowStored, File, Name
      <3>3. Name("preview", f.n) \notin shownRow.files
        <4>1. SUFFICES ASSUME Name("preview", f.n) \in shownRow.files PROVE FALSE
          OBVIOUS
        <4>2. Name("preview", f.n) \in Group(shownRow.files, "preview") /\ Name("preview", f.n).n = f.n
          BY <4>1 DEF Group, Name
        <4>3. Name("page", f.n) \in Strip(shownRow.files)
          BY <4>2 DEF Strip
        <4> QED BY <4>3, <3>2, <2>1, <2>4
      <3> QED BY <3>1, <3>3 DEF RowStored, WellNamed
    <2> QED BY <2>1, <2>2, <2>3, <2>4
  <1> QED BY <1>1, <1>2

\* The invariant has the property.
LEMMA LinksLeadOfInv == ResultInv => LinksLead
  BY LinksOfRow DEF ResultInv, RowStored, FileStored, LinksLead

\* No run has begun and nothing is stored.
LEMMA ResultStart == Init => ResultInv
  <1> SUFFICES ASSUME Init PROVE ResultInv
    OBVIOUS
  <1>1. ResultInit
    BY DEF Init
  <1>2. RunsPut
    <2>1. NotRun \in Run /\ NotRun.done = 0 /\ NotRun.plan = <<>>
      BY DEF NotRun, Run
    <2>2. Len(<<>>) = 0 /\ FilesOf(<<>>) = {}
      BY DEF FilesOf
    <2>3. \A r \in Runs : run[r] = NotRun
      BY <1>1 DEF ResultInit
    <2>4. run \in [Runs -> Run]
      BY <1>1, <2>1 DEF ResultInit
    <2>5. ASSUME NEW r \in Runs
          PROVE  /\ run[r].done <= Len(run[r].plan)
                 /\ WellNamed(FilesOf(run[r].plan))
                 /\ \A i \in 1 .. run[r].done : run[r].plan[i] \in blobs
      BY <2>1, <2>2, <2>3 DEF WellNamed
    <2> QED BY <2>4, <2>5 DEF RunsPut
  <1>3. ManifestStored /\ RowStored
    BY <1>1 DEF ResultInit, ManifestStored, RowStored, WellNamed, NoRow
  <1>4. FileStored /\ DeletionBegan
    BY <1>1 DEF ResultInit, FileStored, DeletionBegan, NoFile, NoDeletion
  <1> QED BY <1>1, <1>2, <1>3, <1>4 DEF ResultInv, ResultInit

-----------------------------------------------------------------------------
(* The steps of the runs.                                                  *)

\* A run begins, or is forgotten.
LEMMA RunReplaced ==
    ASSUME RunsPut, NEW r \in Runs, NEW x \in Run, x.done = 0, WellNamed(FilesOf(x.plan)),
           run' = [run EXCEPT ![r] = x], blobs' = blobs, removed' = removed
    PROVE  RunsPut'
  <1>1. run' \in [Runs -> Run]
    BY DEF RunsPut
  <1>2. ASSUME NEW q \in Runs
        PROVE  /\ run'[q].done <= Len(run'[q].plan)
               /\ WellNamed(FilesOf(run'[q].plan))
               /\ removed \/ \A i \in 1 .. run'[q].done : run'[q].plan[i] \in blobs
    <2>1. CASE q = r
      <3>1. run'[q] = x
        BY <2>1 DEF RunsPut
      <3>2. x.plan \in Seq(File)
        BY DEF Run
      <3>3. 0 <= Len(x.plan)
        BY <3>2
      <3> QED BY <3>1, <3>3
    <2>2. CASE q # r
      <3>1. run'[q] = run[q]
        BY <2>2 DEF RunsPut
      <3> QED BY <3>1 DEF RunsPut
    <2> QED BY <2>1, <2>2
  <1> QED BY <1>1, <1>2 DEF RunsPut, WellNamed, FilesOf

\* The runs that are over, or done.
LEMMA EndedRuns ==
    ASSUME NEW at \in {"done", "over"}
    PROVE  /\ [NotRun EXCEPT !.at = at] \in Run
           /\ [NotRun EXCEPT !.at = at].done = 0
           /\ WellNamed(FilesOf([NotRun EXCEPT !.at = at].plan))
  <1>1. [NotRun EXCEPT !.at = at] = [at |-> at, plan |-> <<>>, done |-> 0]
    BY DEF NotRun
  <1>2. FilesOf(<<>>) = {}
    BY DEF FilesOf
  <1>3. [at |-> at, plan |-> <<>>, done |-> 0] \in Run
    <2>1. <<>> \in Seq(File)
      OBVIOUS
    <2> QED BY <2>1 DEF Run
  <1>4. WellNamed({})
    BY DEF WellNamed
  <1> DEFINE x == [NotRun EXCEPT !.at = at]
  <1>5. x.plan = <<>> /\ x.done = 0
    BY <1>1
  <1> QED BY <1>1, <1>2, <1>3, <1>4, <1>5

\* A run begins with its plan of files.
LEMMA StartRunKeeps ==
    ASSUME ResultInv, NEW r \in Runs, StartRun(r)
    PROVE  ResultInv'
  <1>1. PICK rendered \in {0, document.pages} :
            run' = [run EXCEPT ![r] = [at |-> "working", plan |-> Plan(rendered), done |-> 0]]
    BY DEF StartRun
  <1>2. rendered \in Nat
    BY <1>1, DocumentsAssumption DEF ResultInv
  <1>3. Plan(rendered) \in Seq(File) /\ WellNamed(FilesOf(Plan(rendered)))
    BY <1>2, PlanWellNamed DEF ResultInv
  <1>4. RunsPut'
    <2>1. [at |-> "working", plan |-> Plan(rendered), done |-> 0] \in Run
      BY <1>3 DEF Run
    <2> QED BY <1>1, <1>3, <2>1, RunReplaced DEF ResultInv, StartRun, OnlyRun
  <1> QED BY <1>4 DEF ResultInv, StartRun, OnlyRun, ManifestStored, RowStored, FileStored,
                      DeletionBegan, WellNamed

\* A run stores the next file of its plan.
LEMMA PutFileKeeps ==
    ASSUME ResultInv, NEW r \in Runs, PutFile(r)
    PROVE  ResultInv'
  <1> DEFINE next == run[r].done + 1
  <1>1. /\ run \in [Runs -> Run] /\ run[r] \in Run
        /\ run[r].done \in Nat /\ run[r].plan \in Seq(File) /\ Len(run[r].plan) \in Nat
        /\ next \in 1 .. Len(run[r].plan)
    <2>1. run \in [Runs -> Run] /\ run[r] \in Run
      BY DEF ResultInv, RunsPut
    <2>2. run[r].done \in Nat /\ run[r].plan \in Seq(File)
      BY <2>1 DEF Run
    <2>3. Len(run[r].plan) \in Nat
      BY <2>2
    <2> QED BY <2>1, <2>2, <2>3 DEF PutFile
  <1>2. /\ blobs' = blobs \cup {run[r].plan[next]}
        /\ run' = [run EXCEPT ![r].done = next]
    BY DEF PutFile
  <1>3. /\ run'[r].plan = run[r].plan /\ run'[r].done = next
        /\ \A q \in Runs : q # r => run'[q] = run[q]
    BY <1>1, <1>2 DEF Run
  <1>4. run' \in [Runs -> Run]
    <2>1. next \in Nat
      BY <1>1
    <2> HIDE DEF next
    <2> QED BY <1>1, <1>2, <2>1 DEF Run
  <1>5. ASSUME NEW q \in Runs
        PROVE  /\ run'[q].done <= Len(run'[q].plan)
               /\ WellNamed(FilesOf(run'[q].plan))
               /\ removed \/ \A i \in 1 .. run'[q].done : run'[q].plan[i] \in blobs'
    <2>1. CASE q = r
      <3>1. next \in Nat /\ next <= Len(run[r].plan)
        <4> HIDE DEF next
        <4> QED BY <1>1
      <3>2. removed \/ \A i \in 1 .. run[r].done : run[r].plan[i] \in blobs'
        BY <1>2 DEF ResultInv, RunsPut
      <3>3. \A i \in 1 .. next : i \in 1 .. run[r].done \/ i = next
        <4>1. run[r].done \in Nat
          BY <1>1
        <4> QED BY <4>1
      <3>4. run[r].plan[next] \in blobs'
        BY <1>2
      <3> HIDE DEF next
      <3> QED BY <2>1, <1>3, <3>1, <3>2, <3>3, <3>4 DEF ResultInv, RunsPut
    <2>2. CASE q # r
      <3>1. run'[q] = run[q]
        BY <2>2, <1>3
      <3> QED BY <3>1, <1>2 DEF ResultInv, RunsPut
    <2> QED BY <2>1, <2>2
  <1>6. removed' = removed /\ replaced' = replaced
    BY DEF PutFile, OnlyRun
  <1>7. RunsPut'
    BY <1>4, <1>5, <1>6 DEF RunsPut, WellNamed, FilesOf
  <1> QED BY <1>2, <1>7 DEF ResultInv, PutFile, OnlyRun, ManifestStored, RowStored, FileStored,
                             DeletionBegan, WellNamed

\* A run has stored its whole plan and writes the manifest.
LEMMA CommitKeeps ==
    ASSUME ResultInv, NEW r \in Runs, CommitResult(r)
    PROVE  ResultInv'
  <1> DEFINE files == FilesOf(run[r].plan)
  <1>1. run[r].plan \in Seq(File) /\ DOMAIN run[r].plan = 1 .. run[r].done
    <2>1. run[r] \in Run
      BY DEF ResultInv, RunsPut
    <2>2. run[r].plan \in Seq(File)
      BY <2>1 DEF Run
    <2> QED BY <2>2 DEF CommitResult
  <1>2. WellNamed(files) /\ files \subseteq File /\ (removed \/ files \subseteq blobs)
    <2>1. WellNamed(files)
      BY DEF ResultInv, RunsPut
    <2>2. files \subseteq File
      <3>1. \A i \in DOMAIN run[r].plan : run[r].plan[i] \in File
        <4> HIDE DEF File
        <4>1. run[r].plan \in Seq(File)
          BY <1>1
        <4> QED BY <4>1
      <3> HIDE DEF File
      <3> QED BY <3>1 DEF FilesOf
    <2>3. removed \/ files \subseteq blobs
      BY <1>1 DEF ResultInv, RunsPut, FilesOf
    <2> QED BY <2>1, <2>2, <2>3
  <1>3. /\ manifest' = IF files = {} THEN manifest ELSE files
        /\ replaced' = (replaced \/ manifest \notin {{}, manifest'})
    BY DEF CommitResult, FilesOf
  <1>4. UNCHANGED <<document, shownRow, file, deletion, removed, blobs>>
    BY DEF CommitResult, OnlyRun
  <1> HIDE DEF files
  <1>5. RunsPut'
    <2>1. run' = [run EXCEPT ![r] = [NotRun EXCEPT !.at = "done"]]
      BY DEF CommitResult
    <2> QED BY <2>1, <1>4, EndedRuns, RunReplaced DEF ResultInv
  <1>6. ManifestStored'
    <2>1. manifest' = manifest \/ manifest' = files
      BY <1>3
    <2>2. CASE manifest' = manifest
      BY <2>2, <1>4 DEF ResultInv, ManifestStored, WellNamed
    <2>3. CASE manifest' = files
      BY <2>3, <1>2, <1>4 DEF ManifestStored, WellNamed
    <2> QED BY <2>1, <2>2, <2>3
  <1>7. replaced' \/ (~replaced /\ manifest \subseteq manifest')
    BY <1>3 DEF CommitResult
  <1>8. RowStored' /\ FileStored' /\ DeletionBegan'
    BY <1>4, <1>7 DEF ResultInv, RowStored, FileStored, DeletionBegan, WellNamed
  <1> QED BY <1>4, <1>5, <1>6, <1>8 DEF ResultInv

\* A run fails or is over.
LEMMA OverKeeps ==
    ASSUME ResultInv, NEW r \in Runs, RunFails(r) \/ RunEnds(r)
    PROVE  ResultInv'
  <1>1. run' = [run EXCEPT ![r] = [NotRun EXCEPT !.at = "over"]]
    BY DEF RunFails, RunEnds, Over
  <1>2. UNCHANGED <<document, shownRow, file, deletion, removed, blobs, manifest, replaced>>
    BY DEF RunFails, RunEnds, OnlyRun
  <1>3. RunsPut'
    BY <1>1, <1>2, EndedRuns, RunReplaced DEF ResultInv
  <1> QED BY <1>2, <1>3 DEF ResultInv, ManifestStored, RowStored, FileStored, DeletionBegan, WellNamed

-----------------------------------------------------------------------------
(* The steps of the page and of the result's end.                          *)

\* What the runs stored stays stored, unless the result is removed.
LEMMA RunsUntouched ==
    ASSUME RunsPut, UNCHANGED run, removed' \/ (removed' = removed /\ blobs' = blobs)
    PROVE  RunsPut'
  BY DEF RunsPut, WellNamed, FilesOf

\* The page reads a row, or follows a link of it.
LEMMA PageKeeps ==
    ASSUME ResultInv, ReadRow \/ ServeDownload \/ (\E f \in Links : Download(f))
    PROVE  ResultInv'
  <1>1. UNCHANGED <<document, run, blobs, manifest, deletion, removed, replaced>>
    BY DEF ReadRow, ServeDownload, Download, OnlyPage
  <1>2. RunsPut' /\ ManifestStored' /\ DeletionBegan'
    BY <1>1, RunsUntouched DEF ResultInv, ManifestStored, DeletionBegan, WellNamed
  <1>3. RowStored' /\ FileStored'
    <2>1. CASE ReadRow
      <3>1. shownRow' = [status |-> "ok", files |-> manifest] \/ shownRow' = [status |-> "other", files |-> {}]
        BY <2>1 DEF ReadRow
      <3>2. RowStored'
        BY <1>1, <3>1 DEF ResultInv, ManifestStored, RowStored, WellNamed
      <3>3. UNCHANGED file
        BY <2>1 DEF ReadRow
      <3> QED BY <1>1, <3>2, <3>3 DEF ResultInv, FileStored
    <2>2. CASE ServeDownload
      <3>1. PICK answer \in {Answer(file.name), "no key"} : file' = [file EXCEPT !.at = answer]
        BY <2>2 DEF ServeDownload
      <3>2. file' = [at |-> answer, name |-> file.name]
        BY <3>1 DEF ResultInv, FileStored
      <3>3. answer # "sent"
        BY <3>1 DEF Answer
      <3>4. removed \/ replaced \/ answer # "missing"
        <4>1. CASE answer = "no key"
          BY <4>1
        <4>2. CASE answer = Answer(file.name)
          <5>1. removed \/ replaced \/ file.name \in manifest
            BY <2>2 DEF ServeDownload, ResultInv, FileStored
          <5>2. removed \/ replaced \/ file.name \in manifest \cap blobs
            BY <5>1 DEF ResultInv, ManifestStored
          <5> QED BY <4>2, <5>2 DEF Answer
        <4> QED BY <3>1, <4>1, <4>2
      <3>5. RowStored'
        BY <1>1, <2>2 DEF ServeDownload, ResultInv, RowStored, WellNamed
      <3> QED BY <1>1, <3>2, <3>3, <3>4, <3>5 DEF FileStored
    <2>3. ASSUME NEW f \in Links, Download(f) PROVE RowStored' /\ FileStored'
      <3>1. f \in shownRow.files
        BY LinksOfRow DEF ResultInv
      <3>2. file' = [at |-> "sent", name |-> f] /\ UNCHANGED shownRow
        BY <2>3 DEF Download
      <3>3. removed \/ replaced \/ f \in manifest
        BY <3>1 DEF ResultInv, RowStored
      <3> QED BY <1>1, <3>2, <3>3 DEF ResultInv, RowStored, FileStored, WellNamed
    <2> QED BY <2>1, <2>2, <2>3
  <1> QED BY <1>1, <1>2, <1>3 DEF ResultInv

\* The result lapses or is deleted, file by file.
LEMMA EndKeeps ==
    ASSUME ResultInv, LapseResult \/ StartDelete \/ RemoveFile \/ MarkDeleted \/ DeletionFails
    PROVE  ResultInv'
  <1>1. UNCHANGED <<document, run, manifest, shownRow, file, replaced>>
    BY DEF LapseResult, StartDelete, RemoveFile, MarkDeleted, DeletionFails, OnlyEnd
  <1>2. removed' \/ (removed' = removed /\ blobs' = blobs)
    BY DEF LapseResult, StartDelete, RemoveFile, MarkDeleted, DeletionFails, ResultInv, DeletionBegan
  <1>3. DeletionBegan'
    BY DEF LapseResult, StartDelete, RemoveFile, MarkDeleted, DeletionFails, ResultInv,
           DeletionBegan, NoDeletion
  <1>4. RunsPut'
    BY <1>1, <1>2, RunsUntouched DEF ResultInv
  <1>5. ManifestStored' /\ RowStored' /\ FileStored'
    BY <1>1, <1>2 DEF ResultInv, ManifestStored, RowStored, FileStored, WellNamed
  <1> QED BY <1>1, <1>3, <1>4, <1>5 DEF ResultInv

\* One lemma for all the steps.
LEMMA ResultStep == ResultInv /\ [Next]_billingVars => ResultInv'
  <1> SUFFICES ASSUME ResultInv, [Next]_billingVars PROVE ResultInv'
    OBVIOUS
  <1>1. CASE UNCHANGED resultVars
    BY <1>1 DEF resultVars, ResultInv, RunsPut, ManifestStored, RowStored, FileStored,
                DeletionBegan, WellNamed, FilesOf
  <1>2. CASE ResultNext
    BY <1>2, StartRunKeeps, PutFileKeeps, CommitKeeps, OverKeeps, PageKeeps, EndKeeps DEF ResultNext
  <1> QED BY <1>1, <1>2 DEF Next, billingVars

\* While nobody has begun to delete the result, the page's links lead to stored
\* files, every file but the page labels has a link, and the gateway misses a
\* file only when its manifest has been replaced: whatever the document, its
\* length and the number of its runs.
THEOREM LinksAlwaysLead == Spec => []LinksLead
  <1>1. Init => ResultInv
    BY ResultStart
  <1>2. ResultInv /\ [Next]_billingVars => ResultInv'
    BY ResultStep
  <1>3. ResultInv => LinksLead
    BY LinksLeadOfInv
  <1> QED BY <1>1, <1>2, <1>3, PTL DEF Spec

-----------------------------------------------------------------------------
(* The flags and settings of an account: types.                            *)

PermsRow  == [blocked : BOOLEAN, delinquent : BOOLEAN]
ConfigRow == [paid : BOOLEAN, cap : CapValues, comp : BOOLEAN, adminCap : CapValues]

PermsFields  == {"blocked", "delinquent"}
ConfigFields == {"paid", "cap", "comp", "adminCap"}

ValuesOf(f) == IF f \in {"cap", "adminCap"} THEN CapValues ELSE BOOLEAN

Change == [at : {"idle", "live", "read", "append", "ok", "failed"},
           field : Fields \cup {None},
           arg : BOOLEAN \cup CapValues,
           read : PermsRow \cup ConfigRow \cup {None},
           event : Events \cup {None}]

Active(j) == job[j].at \in {"live", "read", "append"}

\* A handler at work knows its field, its value once it has it, and the row it
\* has read; only those of the webhook work for an event.
ChangeOK(j) ==
    /\ Active(j) =>
          /\ job[j].field \in Fields
          /\ IF job[j].field = "delinquent" THEN job[j].event \in Events /\ event[job[j].event] # "unsent"
                                            ELSE job[j].event = None /\ job[j].at # "live"
    /\ job[j].at \in {"read", "append"} => job[j].arg \in ValuesOf(job[j].field)
    /\ job[j].at = "append" =>
          job[j].read \in IF Table(job[j].field) = "perms" THEN PermsRow ELSE ConfigRow
    /\ job[j].at \in {"ok", "failed"} /\ job[j].field = "paid" => job[j].arg \in BOOLEAN

FlagsTyped ==
    /\ perms \in PermsRow
    /\ config \in ConfigRow
    /\ chosen \in [Fields -> BOOLEAN \cup CapValues]
    /\ settingsTab \in [enabled : BOOLEAN, busy : Handlers \cup {None}]
    /\ adminTab \in [blocked : BOOLEAN, blocking : Handlers \cup {None}, saving : Handlers \cup {None}]
    /\ event \in [Events -> {"unsent", "pending", "acked"}]
    /\ job \in [Handlers -> Change]
    /\ status \in {"active", "unpaid", "other"}
    /\ \A j \in Handlers : ChangeOK(j)

\* No handler's changes are lost while its table is not contended: handlers of
\* one table that overlap replace the same field; what a handler has read of the
\* other fields is still so; and the webhook's flag is that of the subscription
\* unless the event of a later update is still to be delivered.
Overlaps(j, k) == j # k /\ Active(j) /\ Active(k) /\ Table(job[j].field) = Table(job[k].field)

LaterPending(j) == \E v \in Events : event[v] = "pending" /\ v # job[j].event

FlagsKept ==
    /\ \A j, k \in Handlers :
          Overlaps(j, k) /\ Table(job[j].field) \notin contended
             => job[j].field = job[k].field /\ job[j].field # "delinquent"
    /\ "perms" \notin contended =>
          /\ \A j \in Handlers : job[j].at = "append" /\ job[j].field \in PermsFields =>
                \A g \in PermsFields : g # job[j].field => job[j].read[g] = perms[g]
          /\ \A g \in PermsFields : perms[g] = chosen[g]
    /\ "config" \notin contended =>
          /\ \A j \in Handlers : job[j].at = "append" /\ job[j].field \in ConfigFields =>
                \A g \in ConfigFields : g # job[j].field => job[j].read[g] = config[g]
          /\ \A g \in ConfigFields : config[g] = chosen[g]
    /\ linked /\ "perms" \notin contended /\ status # "other" =>
          /\ \A j \in Handlers : job[j].at \in {"read", "append"} /\ job[j].field = "delinquent"
                => job[j].arg = (status = "unpaid") \/ LaterPending(j)
          /\ (\A v \in Events : event[v] # "pending") => perms.delinquent = (status = "unpaid")

\* The gateway's caches and its request in flight.
FlagsFresh ==
    /\ codeAge \in [Codes -> 0 .. BlockTTL]
    /\ capAge \in [Effective -> 0 .. TTL]
    /\ codeAge[Banner(perms)] = 0
    /\ capAge[EffectiveCap(config)] = 0
    /\ blockCache \in [code : Codes, left : 0 .. BlockTTL]
    /\ blockCache.left > 0 => codeAge[blockCache.code] + blockCache.left <= BlockTTL
    /\ capCache \in [cap : Effective, left : 0 .. TTL]
    /\ capCache.left > 0 => capAge[capCache.cap] + capCache.left <= TTL
    /\ caller \in [at : {"out", "fillBlock", "cap", "fillCap", "in", "refused"},
                   code : Codes, cap : Effective]
    /\ caller.at = "fillBlock" => codeAge[caller.code] = 0
    /\ caller.at \in {"cap", "fillCap", "in", "refused"} => codeAge[caller.code] < BlockTTL
    /\ caller.at = "fillCap" => capAge[caller.cap] = 0
    /\ caller.at = "in" => capAge[caller.cap] < TTL

FlagsInv == FlagsTyped /\ FlagsKept

\* The fields of the two tables.
LEMMA FieldsOf ==
    /\ Fields = PermsFields \cup ConfigFields
    /\ \A f \in Fields : Table(f) = "perms" <=> f \in PermsFields
    /\ \A f \in Fields : Table(f) = "config" <=> f \in ConfigFields
    /\ None \notin Events
  BY CapsAssumption DEF Fields, PermsFields, ConfigFields, Table, Events

\* A handler starts: if it does not contend its table, nobody else works on
\* another field of it.
LEMMA FlagsStart ==
    ASSUME FlagsInv, NEW j \in Handlers, NEW f \in Fields, NEW arg, NEW at, NEW v,
           Start(j, f, arg, at, v), event' = event,
           IF f = "delinquent" THEN v \in Events /\ event[v] # "unsent" /\ at = "live" /\ arg = None
                               ELSE v = None /\ at = "read" /\ arg \in ValuesOf(f),
           settingsTab' \in [enabled : BOOLEAN, busy : Handlers \cup {None}],
           adminTab' \in [blocked : BOOLEAN, blocking : Handlers \cup {None}, saving : Handlers \cup {None}]
    PROVE  FlagsInv'
  <1>0. job \in [Handlers -> Change]
    BY DEF FlagsInv, FlagsTyped
  <1>1. /\ job'[j] = [at |-> at, field |-> f, arg |-> arg, read |-> None, event |-> v]
        /\ \A k \in Handlers : k # j => job'[k] = job[k]
        /\ job' \in [Handlers -> Change]
        /\ job[j].at = "idle"
    BY <1>0 DEF Start, Idle, Change, CapValues, ValuesOf
  <1>2. /\ UNCHANGED <<perms, config, chosen, linked, status>>
        /\ contended \subseteq contended'
    BY DEF Start, stripe
  <1>3. Table(f) \notin contended' =>
           \A k \in Handlers : Active(k) /\ Table(job[k].field) = Table(f) =>
              job[k].field = f /\ f # "delinquent"
    BY DEF Start, Clashes, Active
  <1>4. FlagsTyped'
    <2>1. ASSUME NEW k \in Handlers PROVE ChangeOK(k)'
      <3>1. CASE k = j
        BY <1>1, <3>1 DEF ChangeOK, Active
      <3>2. CASE k # j
        BY <1>1, <3>2 DEF FlagsInv, FlagsTyped, ChangeOK, Active
      <3> QED BY <3>1, <3>2
    <2> QED BY <1>1, <1>2, <2>1 DEF FlagsInv, FlagsTyped
  <1>5. FlagsKept'
    <2>0. /\ \A k \in Handlers : k # j => (Active(k)' <=> Active(k))
          /\ Active(j)'
      BY <1>1 DEF Active
    <2>1. ASSUME NEW k \in Handlers, NEW m \in Handlers, Overlaps(k, m)', Table(job'[k].field) \notin contended'
          PROVE  job'[k].field = job'[m].field /\ job'[k].field # "delinquent"
      <3>1. CASE k # j /\ m # j
        BY <1>1, <1>2, <2>0, <2>1, <3>1 DEF FlagsInv, FlagsKept, Overlaps
      <3>2. CASE k = j
        BY <1>1, <1>3, <2>0, <2>1, <3>2 DEF Overlaps
      <3>3. CASE m = j
        BY <1>1, <1>3, <2>0, <2>1, <3>3 DEF Overlaps
      <3> QED BY <3>1, <3>2, <3>3
    <2>2. job'[j].at # "append" /\ (job'[j].at = "read" => job'[j].field # "delinquent")
      BY <1>1
    <2>3. \A k \in Handlers : k # j => (LaterPending(k)' <=> LaterPending(k))
      BY <1>1 DEF LaterPending
    <2> QED BY <1>1, <1>2, <2>1, <2>2, <2>3 DEF FlagsInv, FlagsKept
  <1> QED BY <1>4, <1>5 DEF FlagsInv

\* A handler is done with, or fails, or has been answered: the others go on.
LEMMA FlagsEnd ==
    ASSUME FlagsInv, NEW j \in Handlers, job' \in [Handlers -> Change],
           \A k \in Handlers : k # j => job'[k] = job[k],
           job'[j].at \in {"idle", "failed"},
           job'[j].at = "failed" => job'[j].field = job[j].field /\ job'[j].arg = job[j].arg
                                    /\ job[j].at \in {"read", "append"},
           UNCHANGED <<perms, config, chosen, contended, linked, status>>,
           \/ UNCHANGED event
           \/ /\ status = "other" /\ Active(j) /\ job[j].field = "delinquent"
              /\ event' = [event EXCEPT ![job[j].event] = "acked"],
           settingsTab' \in [enabled : BOOLEAN, busy : Handlers \cup {None}],
           adminTab' \in [blocked : BOOLEAN, blocking : Handlers \cup {None}, saving : Handlers \cup {None}]
    PROVE  FlagsInv'
  <1>0. /\ job \in [Handlers -> Change] /\ event \in [Events -> {"unsent", "pending", "acked"}]
        /\ \A k \in Handlers : ChangeOK(k)
    BY DEF FlagsInv, FlagsTyped
  <1>1. /\ event' \in [Events -> {"unsent", "pending", "acked"}]
        /\ \A v \in Events : event[v] # "unsent" => event'[v] # "unsent"
    BY <1>0 DEF ChangeOK
  <1>2. \A k \in Handlers : k # j => (Active(k)' <=> Active(k))
    BY DEF Active
  <1>3. ~Active(j)'
    BY DEF Active
  <1>4. FlagsTyped'
    <2>1. ASSUME NEW k \in Handlers PROVE ChangeOK(k)'
      <3>1. CASE k = j
        BY <1>0, <1>3, <3>1 DEF ChangeOK, ValuesOf
      <3>2. CASE k # j
        BY <1>0, <1>1, <1>2, <3>2 DEF ChangeOK
      <3> QED BY <3>1, <3>2
    <2> QED BY <1>1, <2>1 DEF FlagsInv, FlagsTyped
  <1>5. FlagsKept'
    <2>1. ASSUME NEW k \in Handlers, NEW m \in Handlers, Overlaps(k, m)', Table(job'[k].field) \notin contended'
          PROVE  job'[k].field = job'[m].field /\ job'[k].field # "delinquent"
      BY <1>2, <1>3, <2>1 DEF FlagsInv, FlagsKept, Overlaps
    <2>2. UNCHANGED event => \A k \in Handlers : k # j => (LaterPending(k)' <=> LaterPending(k))
      BY DEF LaterPending
    <2> QED BY <2>1, <2>2 DEF FlagsInv, FlagsKept
  <1> QED BY <1>4, <1>5 DEF FlagsInv

\* The newest row is read.
LEMMA FlagsRead ==
    ASSUME FlagsInv, NEW j \in Handlers, ReadLatest(j)
    PROVE  FlagsInv'
  <1>0. /\ job \in [Handlers -> Change] /\ perms \in PermsRow /\ config \in ConfigRow /\ ChangeOK(j)
    BY DEF FlagsInv, FlagsTyped
  <1>1. /\ job[j].at = "read" /\ job[j].field \in Fields
        /\ UNCHANGED <<tables, stripe, tabs>>
        /\ Permissions = perms /\ Configuration = config
    BY <1>0 DEF ReadLatest, ChangeOK, Active, Permissions, Configuration, PermsRow, ConfigRow
  <1> DEFINE newest == IF Table(job[j].field) = "perms" THEN perms ELSE config
  <1>2. /\ job'[j].at = "append" /\ job'[j].read = newest
        /\ job'[j].field = job[j].field /\ job'[j].arg = job[j].arg /\ job'[j].event = job[j].event
        /\ \A k \in Handlers : k # j => job'[k] = job[k]
        /\ job' \in [Handlers -> Change]
    <2>1. job' = [job EXCEPT ![j].at = "append", ![j].read = newest]
      BY <1>1 DEF ReadLatest
    <2>2. newest \in PermsRow \cup ConfigRow
      BY <1>0
    <2> HIDE DEF newest
    <2> QED BY <1>0, <2>1, <2>2 DEF Change
  <1>3. \A k \in Handlers :
           (Active(k)' <=> Active(k)) /\ job'[k].field = job[k].field /\ job'[k].event = job[k].event
    BY <1>1, <1>2 DEF Active
  <1>4. FlagsTyped'
    <2>1. ASSUME NEW k \in Handlers PROVE ChangeOK(k)'
      <3>0. ChangeOK(k)
        BY DEF FlagsInv, FlagsTyped
      <3>1. CASE k = j
        BY <1>0, <1>1, <1>2, <3>1 DEF ChangeOK, Active, stripe
      <3>2. CASE k # j
        BY <1>1, <1>2, <3>0, <3>2 DEF ChangeOK, Active, stripe
      <3> QED BY <3>1, <3>2
    <2> QED BY <1>1, <1>2, <2>1 DEF FlagsInv, FlagsTyped, tables, stripe, tabs
  <1>5. FlagsKept'
    <2>1. \A k, m \in Handlers : Overlaps(k, m)' <=> Overlaps(k, m)
      BY <1>3 DEF Overlaps
    <2>2. \A k \in Handlers : LaterPending(k)' <=> LaterPending(k)
      BY <1>1, <1>3 DEF LaterPending, stripe
    <2>3. \A k \in Handlers : (k # j /\ job'[k] = job[k]) \/ (k = j /\ job'[k].read = newest)
      <3> HIDE DEF newest
      <3>1. ASSUME NEW k \in Handlers, k # j PROVE job'[k] = job[k]
        BY <1>2, <3>1
      <3>2. job'[j].read = newest
        BY <1>2
      <3>3. ASSUME NEW k \in Handlers PROVE (k # j /\ job'[k] = job[k]) \/ (k = j /\ job'[k].read = newest)
        BY <3>1, <3>2
      <3> QED BY <3>3
    <2>4. \A k \in Handlers : job'[k].at \in {"read", "append"} => job[k].at \in {"read", "append"}
                                                                  /\ job'[k].arg = job[k].arg
      BY <1>1, <1>2
    <2>5. ASSUME "perms" \notin contended, NEW k \in Handlers, job'[k].at = "append",
                 job'[k].field \in PermsFields, NEW g \in PermsFields, g # job'[k].field
          PROVE  job'[k].read[g] = perms[g]
      BY <1>1, <1>3, <2>3, <2>5, FieldsOf DEF FlagsInv, FlagsKept
    <2>6. ASSUME "config" \notin contended, NEW k \in Handlers, job'[k].at = "append",
                 job'[k].field \in ConfigFields, NEW g \in ConfigFields, g # job'[k].field
          PROVE  job'[k].read[g] = config[g]
      BY <1>1, <1>3, <2>3, <2>6, FieldsOf DEF FlagsInv, FlagsKept
    <2>7. UNCHANGED <<perms, config, chosen, contended, linked, status, event>>
      BY <1>1 DEF tables, stripe
    <2> HIDE DEF newest
    <2> QED BY <1>3, <2>1, <2>2, <2>4, <2>5, <2>6, <2>7 DEF FlagsInv, FlagsKept
  <1> QED BY <1>4, <1>5 DEF FlagsInv

\* A handler appends its row: it is the newest, and differs from the one before
\* in the handler's field alone unless the table was contended.
LEMMA FlagsAppended ==
    ASSUME FlagsInv, NEW j \in Handlers, Appended(j)
    PROVE  FlagsInv'
  <1> DEFINE f == job[j].field
             x == job[j].arg
  <1>0. /\ job \in [Handlers -> Change] /\ perms \in PermsRow /\ config \in ConfigRow /\ ChangeOK(j)
        /\ event \in [Events -> {"unsent", "pending", "acked"}]
        /\ chosen \in [Fields -> BOOLEAN \cup CapValues]
    BY DEF FlagsInv, FlagsTyped
  <1>1. /\ job[j].at = "append" /\ f \in Fields /\ x \in ValuesOf(f) /\ Active(j)
        /\ job[j].read \in IF Table(f) = "perms" THEN PermsRow ELSE ConfigRow
        /\ f = "delinquent" => job[j].event \in Events /\ event[job[j].event] # "unsent"
        /\ f # "delinquent" => job[j].event = None
    BY <1>0 DEF Appended, ChangeOK, Active
  <1>2. /\ UNCHANGED <<contended, status, linked, settingsTab, adminTab>>
        /\ chosen' = [chosen EXCEPT ![f] = x]
        /\ perms' = PermsAppended(j) /\ config' = ConfigAppended(j)
    BY DEF Appended, tabs
  <1>3. IF f \in PermsFields
        THEN /\ perms' = [job[j].read EXCEPT ![f] = x] /\ job[j].read \in PermsRow
             /\ config' = config /\ f \notin ConfigFields
        ELSE /\ config' = [job[j].read EXCEPT ![f] = x] /\ job[j].read \in ConfigRow
             /\ perms' = perms /\ f \in ConfigFields
    BY <1>1, <1>2, FieldsOf DEF PermsAppended, ConfigAppended, NewRow, PermsFields, ConfigFields
  <1>4. /\ perms' \in PermsRow /\ config' \in ConfigRow
        /\ f \in PermsFields => /\ perms'[f] = x
                                /\ \A g \in PermsFields : g # f => perms'[g] = job[j].read[g]
        /\ f \in ConfigFields => /\ config'[f] = x
                                 /\ \A g \in ConfigFields : g # f => config'[g] = job[j].read[g]
    <2> HIDE DEF f, x
    <2>1. CASE f \in PermsFields
      <3> DEFINE r == job[j].read
      <3>1. r \in PermsRow /\ perms' = [r EXCEPT ![f] = x] /\ config' = config /\ f \notin ConfigFields
        BY <1>3, <2>1
      <3> HIDE DEF r
      <3>2. /\ [r EXCEPT ![f] = x] \in PermsRow /\ [r EXCEPT ![f] = x][f] = x
            /\ \A g \in PermsFields : g # f => [r EXCEPT ![f] = x][g] = r[g]
        BY <1>1, <2>1, <3>1 DEF PermsRow, PermsFields, ValuesOf
      <3>3. /\ perms' \in PermsRow /\ perms'[f] = x
            /\ \A g \in PermsFields : g # f => perms'[g] = r[g]
        BY <3>1, <3>2
      <3> QED BY <1>0, <3>1, <3>3 DEF r
    <2>2. CASE f \notin PermsFields
      <3> DEFINE r == job[j].read
      <3>1. r \in ConfigRow /\ config' = [r EXCEPT ![f] = x] /\ perms' = perms /\ f \in ConfigFields
        BY <1>3, <2>2
      <3> HIDE DEF r
      <3>2. /\ [r EXCEPT ![f] = x] \in ConfigRow /\ [r EXCEPT ![f] = x][f] = x
            /\ \A g \in ConfigFields : g # f => [r EXCEPT ![f] = x][g] = r[g]
        BY <1>1, <3>1 DEF ConfigRow, ConfigFields, ValuesOf
      <3>3. /\ config' \in ConfigRow /\ config'[f] = x
            /\ \A g \in ConfigFields : g # f => config'[g] = r[g]
        BY <3>1, <3>2
      <3> QED BY <1>0, <2>2, <3>1, <3>3 DEF r
    <2> QED BY <2>1, <2>2
  <1>5. /\ job' \in [Handlers -> Change]
        /\ \A k \in Handlers : k # j => job'[k] = job[k]
        /\ IF f = "delinquent" THEN job'[j].at = "idle"
                               ELSE job'[j].at = "ok" /\ job'[j].field = f /\ job'[j].arg = x
    <2>1. CASE f = "delinquent"
      BY <1>0, <2>1 DEF Appended, Idle, Change, CapValues
    <2>2. CASE f # "delinquent"
      BY <1>0, <2>2 DEF Appended, Change
    <2> QED BY <2>1, <2>2
  <1>6. /\ event' \in [Events -> {"unsent", "pending", "acked"}]
        /\ \A v \in Events : event[v] # "unsent" => event'[v] # "unsent"
        /\ \A v \in Events : v # job[j].event => event'[v] = event[v]
        /\ f # "delinquent" => event' = event
    BY <1>0, <1>1 DEF Appended
  <1>7. /\ chosen' \in [Fields -> BOOLEAN \cup CapValues] /\ chosen'[f] = x
        /\ \A g \in Fields : g # f => chosen'[g] = chosen[g]
    BY <1>0, <1>1, <1>2 DEF ValuesOf
  <1>8. /\ \A k \in Handlers : k # j => (Active(k)' <=> Active(k))
        /\ ~Active(j)'
    BY <1>5 DEF Active
  <1>9. FlagsTyped'
    <2>1. ASSUME NEW k \in Handlers PROVE ChangeOK(k)'
      <3>0. ChangeOK(k)
        BY DEF FlagsInv, FlagsTyped
      <3>1. CASE k = j
        <4>1. job'[k].field = "paid" /\ job'[k].at = "ok" => job'[k].arg \in BOOLEAN
          BY <1>1, <1>5, <3>1 DEF ValuesOf
        <4> QED BY <1>5, <1>8, <3>1, <4>1 DEF ChangeOK
      <3>2. CASE k # j
        BY <1>5, <1>6, <1>8, <3>0, <3>2 DEF ChangeOK
      <3> QED BY <3>1, <3>2
    <2> QED BY <1>2, <1>4, <1>5, <1>6, <1>7, <2>1 DEF FlagsInv, FlagsTyped
  <1> HIDE DEF f, x
  <1>10. \A k \in Handlers : Overlaps(j, k) /\ Table(f) \notin contended => job[k].field = f /\ f # "delinquent"
    BY DEF FlagsInv, FlagsKept, f
  <1>11. ASSUME "perms" \notin contended
         PROVE  /\ \A k \in Handlers : job'[k].at = "append" /\ job'[k].field \in PermsFields =>
                      \A g \in PermsFields : g # job'[k].field => job'[k].read[g] = perms'[g]
                /\ \A g \in PermsFields : perms'[g] = chosen'[g]
    <2>1. CASE f \in PermsFields
      <3>1. \A g \in PermsFields : g # f => job[j].read[g] = perms[g]
        BY <1>1, <1>11, <2>1 DEF FlagsInv, FlagsKept, f
      <3>2. \A g \in PermsFields : g # f => perms'[g] = perms[g] /\ perms[g] = chosen[g]
        BY <1>4, <1>11, <2>1, <3>1 DEF FlagsInv, FlagsKept
      <3>3. ASSUME NEW k \in Handlers, job'[k].at = "append", job'[k].field \in PermsFields,
                   NEW g \in PermsFields, g # job'[k].field
            PROVE  job'[k].read[g] = perms'[g]
        <4>1. k # j /\ job'[k] = job[k]
          BY <1>5, <3>3
        <4>2. Overlaps(j, k) /\ Table(f) \notin contended
          BY <1>1, <1>11, <2>1, <3>3, <4>1, FieldsOf DEF Overlaps, Active, f
        <4>3. job[k].field = f
          BY <1>10, <4>2
        <4>4. job[k].read[g] = perms[g]
          BY <1>11, <3>3, <4>1 DEF FlagsInv, FlagsKept
        <4> QED BY <3>2, <3>3, <4>1, <4>3, <4>4
      <3>4. \A g \in PermsFields : perms'[g] = chosen'[g]
        BY <1>4, <1>7, <2>1, <3>2, FieldsOf
      <3> QED BY <3>3, <3>4
    <2>2. CASE f \notin PermsFields
      <3>1. /\ perms' = perms
            /\ \A g \in PermsFields : chosen'[g] = chosen[g]
        BY <1>3, <1>7, <2>2, FieldsOf
      <3>2. ASSUME NEW k \in Handlers, job'[k].at = "append" PROVE k # j /\ job'[k] = job[k]
        BY <1>5, <3>2
      <3>3. ASSUME NEW k \in Handlers, job'[k].at = "append", job'[k].field \in PermsFields,
                   NEW g \in PermsFields, g # job'[k].field
            PROVE  job'[k].read[g] = perms'[g]
        BY <1>11, <3>1, <3>2, <3>3 DEF FlagsInv, FlagsKept
      <3>4. \A g \in PermsFields : perms'[g] = chosen'[g]
        BY <1>11, <3>1 DEF FlagsInv, FlagsKept
      <3> QED BY <3>3, <3>4
    <2> QED BY <2>1, <2>2
  <1>12. ASSUME "config" \notin contended
         PROVE  /\ \A k \in Handlers : job'[k].at = "append" /\ job'[k].field \in ConfigFields =>
                      \A g \in ConfigFields : g # job'[k].field => job'[k].read[g] = config'[g]
                /\ \A g \in ConfigFields : config'[g] = chosen'[g]
    <2>1. CASE f \in ConfigFields
      <3>1. \A g \in ConfigFields : g # f => job[j].read[g] = config[g]
        BY <1>1, <1>12, <2>1 DEF FlagsInv, FlagsKept, f
      <3>2. \A g \in ConfigFields : g # f => config'[g] = config[g] /\ config[g] = chosen[g]
        BY <1>4, <1>12, <2>1, <3>1 DEF FlagsInv, FlagsKept
      <3>3. ASSUME NEW k \in Handlers, job'[k].at = "append", job'[k].field \in ConfigFields,
                   NEW g \in ConfigFields, g # job'[k].field
            PROVE  job'[k].read[g] = config'[g]
        <4>1. k # j /\ job'[k] = job[k]
          BY <1>5, <3>3
        <4>2. Overlaps(j, k) /\ Table(f) \notin contended
          BY <1>1, <1>12, <2>1, <3>3, <4>1, FieldsOf DEF Overlaps, Active, f
        <4>3. job[k].field = f
          BY <1>10, <4>2
        <4>4. job[k].read[g] = config[g]
          BY <1>12, <3>3, <4>1 DEF FlagsInv, FlagsKept
        <4> QED BY <3>2, <3>3, <4>1, <4>3, <4>4
      <3>4. \A g \in ConfigFields : config'[g] = chosen'[g]
        BY <1>4, <1>7, <2>1, <3>2, FieldsOf
      <3> QED BY <3>3, <3>4
    <2>2. CASE f \notin ConfigFields
      <3>1. /\ config' = config
            /\ \A g \in ConfigFields : chosen'[g] = chosen[g]
        BY <1>3, <1>7, <2>2, FieldsOf
      <3>2. ASSUME NEW k \in Handlers, job'[k].at = "append" PROVE k # j /\ job'[k] = job[k]
        BY <1>5, <3>2
      <3>3. ASSUME NEW k \in Handlers, job'[k].at = "append", job'[k].field \in ConfigFields,
                   NEW g \in ConfigFields, g # job'[k].field
            PROVE  job'[k].read[g] = config'[g]
        BY <1>12, <3>1, <3>2, <3>3 DEF FlagsInv, FlagsKept
      <3>4. \A g \in ConfigFields : config'[g] = chosen'[g]
        BY <1>12, <3>1 DEF FlagsInv, FlagsKept
      <3> QED BY <3>3, <3>4
    <2> QED BY <2>1, <2>2
  <1>13. ASSUME linked, "perms" \notin contended, status # "other"
         PROVE  /\ \A k \in Handlers : job'[k].at \in {"read", "append"} /\ job'[k].field = "delinquent"
                      => job'[k].arg = (status = "unpaid") \/ LaterPending(k)'
                /\ (\A v \in Events : event'[v] # "pending") => perms'.delinquent = (status = "unpaid")
    <2>1. CASE f = "delinquent"
      <3>1. perms'.delinquent = x
        BY <1>3, <2>1 DEF PermsFields, PermsRow
      <3>2. x = (status = "unpaid") \/ LaterPending(j)
        BY <1>1, <1>13, <2>1 DEF FlagsInv, FlagsKept, f, x
      <3>3. LaterPending(j) => \E v \in Events : event'[v] = "pending"
        BY <1>6 DEF LaterPending
      <3>4. ASSUME NEW k \in Handlers, job'[k].at \in {"read", "append"}, job'[k].field = "delinquent"
            PROVE  FALSE
        <4>1. k # j /\ job'[k] = job[k]
          BY <1>5, <2>1, <3>4
        <4>2. Overlaps(j, k) /\ Table(f) \notin contended
          BY <1>1, <1>13, <2>1, <3>4, <4>1 DEF Overlaps, Active, f, Table
        <4> QED BY <1>10, <2>1, <4>2
      <3> QED BY <3>1, <3>2, <3>3, <3>4
    <2>2. CASE f # "delinquent"
      <3>1. event' = event
        BY <1>6, <2>2
      <3>2. ASSUME NEW k \in Handlers, job'[k].at \in {"read", "append"}, job'[k].field = "delinquent"
            PROVE  job'[k].arg = (status = "unpaid") \/ LaterPending(k)'
        <4>1. job'[k] = job[k]
          BY <1>5, <2>2, <3>2
        <4> QED BY <1>13, <3>1, <3>2, <4>1 DEF FlagsInv, FlagsKept, LaterPending
      <3>3. perms'.delinquent = perms.delinquent
        <4>1. CASE f \in PermsFields
          <5>1. "delinquent" \in PermsFields /\ perms'["delinquent"] = job[j].read["delinquent"]
            BY <1>4, <2>2, <4>1 DEF PermsFields
          <5>2. job[j].read["delinquent"] = perms["delinquent"]
            BY <1>1, <1>13, <2>2, <4>1, <5>1 DEF FlagsInv, FlagsKept, f
          <5> QED BY <1>0, <1>4, <5>1, <5>2 DEF PermsRow
        <4>2. CASE f \notin PermsFields
          BY <1>3, <4>2
        <4> QED BY <4>1, <4>2
      <3> QED BY <1>13, <3>1, <3>2, <3>3 DEF FlagsInv, FlagsKept
    <2> QED BY <2>1, <2>2
  <1>14. FlagsKept'
    <2>1. ASSUME NEW k \in Handlers, NEW m \in Handlers, Overlaps(k, m)', Table(job'[k].field) \notin contended'
          PROVE  job'[k].field = job'[m].field /\ job'[k].field # "delinquent"
      <3>1. k # j /\ m # j
        BY <1>8, <2>1 DEF Overlaps
      <3> QED BY <1>2, <1>5, <1>8, <2>1, <3>1 DEF FlagsInv, FlagsKept, Overlaps
    <2> QED BY <1>2, <1>11, <1>12, <1>13, <2>1 DEF FlagsKept
  <1> QED BY <1>9, <1>14 DEF FlagsInv

\* The webhook has the subscription's status: what it will write is true, or
\* the event of a later update is still to be delivered.
LEMMA FlagsFetched ==
    ASSUME FlagsInv, NEW j \in Handlers, FetchLive(j)
    PROVE  FlagsInv'
  <1>0. /\ job \in [Handlers -> Change] /\ ChangeOK(j) /\ job[j].at = "live" /\ Active(j)
        /\ UNCHANGED <<perms, config, chosen, contended, linked, status, settingsTab, adminTab>>
        /\ settingsTab \in [enabled : BOOLEAN, busy : Handlers \cup {None}]
        /\ adminTab \in [blocked : BOOLEAN, blocking : Handlers \cup {None}, saving : Handlers \cup {None}]
    BY DEF FlagsInv, FlagsTyped, FetchLive, tables, tabs, Active
  <1>1. /\ job[j].field = "delinquent" /\ job[j].event \in Events
        /\ event[job[j].event] # "unsent"
    BY <1>0 DEF ChangeOK
  <1>2. CASE status \notin {"unpaid", "active"}
    <2>1. /\ job' = [job EXCEPT ![j] = Idle]
          /\ event' = [event EXCEPT ![job[j].event] = "acked"]
      BY <1>2 DEF FetchLive
    <2>2. job' \in [Handlers -> Change] /\ job'[j].at = "idle" /\ \A k \in Handlers : k # j => job'[k] = job[k]
      BY <1>0, <2>1 DEF Idle, Change, CapValues
    <2>3. /\ status = "other" /\ Active(j) /\ job[j].field = "delinquent"
          /\ event' = [event EXCEPT ![job[j].event] = "acked"]
      BY <1>0, <1>1, <1>2, <2>1 DEF FlagsInv, FlagsTyped
    <2> QED BY <1>0, <2>2, <2>3, FlagsEnd
  <1>3. CASE status \in {"unpaid", "active"}
    <2> DEFINE unpaid == status = "unpaid"
    <2>1. /\ job' = [job EXCEPT ![j].at = "read", ![j].arg = unpaid]
          /\ event' = event
      BY <1>3 DEF FetchLive
    <2>0. unpaid \in BOOLEAN
      OBVIOUS
    <2> HIDE DEF unpaid
    <2>2. /\ job' \in [Handlers -> Change] /\ job'[j].at = "read" /\ job'[j].arg = unpaid
          /\ job'[j].field = job[j].field /\ job'[j].event = job[j].event
          /\ \A k \in Handlers : k # j => job'[k] = job[k]
      BY <1>0, <2>0, <2>1 DEF Change
    <2>3. \A k \in Handlers :
             (Active(k)' <=> Active(k)) /\ job'[k].field = job[k].field /\ job'[k].event = job[k].event
      BY <1>0, <2>2 DEF Active
    <2>4. FlagsTyped'
      <3>1. ASSUME NEW k \in Handlers PROVE ChangeOK(k)'
        <4>1. CASE k = j
          BY <1>0, <1>1, <2>0, <2>1, <2>2, <4>1 DEF ChangeOK, ValuesOf
        <4>2. CASE k # j
          BY <2>1, <2>2, <2>3, <4>2 DEF ChangeOK, FlagsInv, FlagsTyped
        <4> QED BY <4>1, <4>2
      <3> QED BY <1>0, <2>1, <2>2, <3>1 DEF FlagsInv, FlagsTyped
    <2>5. FlagsKept'
      <3>1. \A k, m \in Handlers : Overlaps(k, m)' <=> Overlaps(k, m)
        BY <2>3 DEF Overlaps
      <3>2. \A k \in Handlers : LaterPending(k)' <=> LaterPending(k)
        BY <2>1, <2>3 DEF LaterPending
      <3>3. \A k \in Handlers : job'[k].at = "append" => job'[k] = job[k]
        BY <2>2
      <3>4. ASSUME linked, "perms" \notin contended, status # "other",
                   NEW k \in Handlers, job'[k].at \in {"read", "append"}, job'[k].field = "delinquent"
            PROVE  job'[k].arg = (status = "unpaid") \/ LaterPending(k)'
        <4>1. CASE k = j
          BY <2>2, <4>1 DEF unpaid
        <4>2. CASE k # j
          <5>1. job'[k] = job[k]
            BY <2>2, <4>2
          <5> QED BY <3>2, <3>4, <5>1 DEF FlagsInv, FlagsKept
        <4> QED BY <4>1, <4>2
      <3> QED BY <1>0, <2>1, <2>3, <3>1, <3>3, <3>4 DEF FlagsInv, FlagsKept
    <2> QED BY <2>4, <2>5 DEF FlagsInv
  <1> QED BY <1>2, <1>3

\* Stripe's subscription changes: an event is owed.
LEMMA FlagsUpdated ==
    ASSUME FlagsInv, NEW v \in Events, NEW s \in {"active", "unpaid", "other"}, Update(v, s)
    PROVE  FlagsInv'
  <1>0. /\ UNCHANGED <<perms, config, job, chosen, contended, linked, settingsTab, adminTab>>
        /\ event[v] = "unsent" /\ event' = [event EXCEPT ![v] = "pending"] /\ status' = s
        /\ event \in [Events -> {"unsent", "pending", "acked"}]
    BY DEF FlagsInv, FlagsTyped, Update, tables, tabs
  <1>1. event' \in [Events -> {"unsent", "pending", "acked"}] /\ event'[v] = "pending"
        /\ \A w \in Events : w # v => event'[w] = event[w]
    BY <1>0
  <1>2. FlagsTyped'
    <2>1. ASSUME NEW k \in Handlers PROVE ChangeOK(k)'
      <3>1. ChangeOK(k) /\ (Active(k)' <=> Active(k))
        BY <1>0 DEF FlagsInv, FlagsTyped, Active
      <3> QED BY <1>0, <1>1, <3>1 DEF ChangeOK
    <2> QED BY <1>0, <1>1, <2>1 DEF FlagsInv, FlagsTyped
  <1>3. FlagsKept'
    <2>1. \A k, m \in Handlers : Overlaps(k, m)' <=> Overlaps(k, m)
      BY <1>0 DEF Overlaps, Active
    <2>2. ASSUME NEW k \in Handlers, job[k].at \in {"read", "append"}, job[k].field = "delinquent"
          PROVE  LaterPending(k)'
      <3>1. ChangeOK(k)
        BY DEF FlagsInv, FlagsTyped
      <3>2. v # job[k].event
        BY <1>0, <2>2, <3>1 DEF ChangeOK, Active
      <3> QED BY <1>0, <1>1, <3>2 DEF LaterPending
    <2> QED BY <1>0, <1>1, <2>1, <2>2 DEF FlagsInv, FlagsKept
  <1> QED BY <1>2, <1>3 DEF FlagsInv

\* A step of the gateway, of a page being loaded, or of a webhook that knows no
\* user of the customer.
LEMMA FlagsElsewhere ==
    ASSUME FlagsInv, UNCHANGED <<perms, config, job, chosen, contended, linked, status>>,
           \/ UNCHANGED event
           \/ ~linked /\ \E v \in Events : event[v] # "unsent" /\ event' = [event EXCEPT ![v] = "acked"],
           settingsTab' \in [enabled : BOOLEAN, busy : Handlers \cup {None}],
           adminTab' \in [blocked : BOOLEAN, blocking : Handlers \cup {None}, saving : Handlers \cup {None}]
    PROVE  FlagsInv'
  <1>1. /\ event' \in [Events -> {"unsent", "pending", "acked"}]
        /\ \A v \in Events : event[v] # "unsent" => event'[v] # "unsent"
    BY DEF FlagsInv, FlagsTyped
  <1>2. FlagsTyped'
    <2>1. ASSUME NEW k \in Handlers PROVE ChangeOK(k)'
      <3>1. ChangeOK(k) /\ (Active(k)' <=> Active(k))
        BY DEF FlagsInv, FlagsTyped, Active
      <3> QED BY <1>1, <3>1 DEF ChangeOK
    <2> QED BY <1>1, <2>1 DEF FlagsInv, FlagsTyped
  <1>3. FlagsKept'
    <2>1. \A k, m \in Handlers : Overlaps(k, m)' <=> Overlaps(k, m)
      BY DEF Overlaps, Active
    <2>2. linked => \A k \in Handlers : LaterPending(k)' <=> LaterPending(k)
      BY DEF LaterPending
    <2> QED BY <2>1, <2>2 DEF FlagsInv, FlagsKept
  <1> QED BY <1>2, <1>3 DEF FlagsInv

\* One lemma for all the steps.
LEMMA FlagsInvStep ==
    ASSUME FlagsInv, FlagsNext
    PROVE  FlagsInv'
  <1> DEFINE ST == [enabled : BOOLEAN, busy : Handlers \cup {None}]
             AT == [blocked : BOOLEAN, blocking : Handlers \cup {None}, saving : Handlers \cup {None}]
  <1>0. /\ settingsTab \in ST /\ adminTab \in AT
        /\ job \in [Handlers -> Change] /\ perms \in PermsRow /\ config \in ConfigRow
        /\ \A j \in Handlers : ChangeOK(j)
        /\ None \notin Events /\ {"blocked", "delinquent", "paid", "cap", "comp", "adminCap"} = Fields
    BY FieldsOf DEF FlagsInv, FlagsTyped, Fields
  <1>1. ASSUME NEW j \in Handlers, ReadLatest(j) PROVE FlagsInv'
    BY <1>1, FlagsRead
  <1>2. ASSUME NEW j \in Handlers, Appended(j) PROVE FlagsInv'
    BY <1>2, FlagsAppended
  <1>3. ASSUME NEW j \in Handlers, Fail(j) PROVE FlagsInv'
    <2>1. /\ Active(j)
          /\ UNCHANGED <<perms, config, chosen, contended, linked, status, event, settingsTab, adminTab>>
          /\ job' = [job EXCEPT ![j] = IF @.event # None THEN Idle ELSE [@ EXCEPT !.at = "failed"]]
      BY <1>3 DEF Fail, Active, tables, stripe, tabs
    <2>2. /\ job' \in [Handlers -> Change] /\ \A k \in Handlers : k # j => job'[k] = job[k]
          /\ job'[j].at \in {"idle", "failed"}
          /\ job'[j].at = "failed" => /\ job'[j].field = job[j].field /\ job'[j].arg = job[j].arg
                                      /\ job[j].event = None
      <3>1. CASE job[j].event # None
        BY <1>0, <2>1, <3>1 DEF Change, Idle, CapValues
      <3>2. CASE job[j].event = None
        BY <1>0, <2>1, <3>2 DEF Change
      <3> QED BY <3>1, <3>2
    <2>3. job[j].event = None => job[j].at \in {"read", "append"}
      BY <1>0, <2>1 DEF ChangeOK, Active
    <2> QED BY <1>0, <2>1, <2>2, <2>3, FlagsEnd
  <1>4. ASSUME NEW j \in Handlers, FetchLive(j) PROVE FlagsInv'
    BY <1>4, FlagsFetched
  <1>5. ASSUME NEW j \in Handlers, TogglePaid(j) PROVE FlagsInv'
    <2>1. /\ Start(j, "paid", ~settingsTab.enabled, "read", None) /\ event' = event
          /\ settingsTab' \in ST /\ adminTab' \in AT
      BY <1>0, <1>5 DEF TogglePaid, Start, stripe
    <2>2. settingsTab.enabled \in BOOLEAN
      BY <1>0
    <2> DEFINE turned == ~settingsTab.enabled
    <2>3. turned \in ValuesOf("paid") /\ Start(j, "paid", turned, "read", None)
      BY <2>1, <2>2 DEF ValuesOf
    <2> HIDE DEF turned
    <2> QED BY <1>0, <2>1, <2>3, FlagsStart
  <1>6. ASSUME NEW j \in Handlers, NEW cap \in CapValues, SaveCap(j, cap) PROVE FlagsInv'
    <2>1. /\ Start(j, "cap", cap, "read", None) /\ event' = event
          /\ settingsTab' \in ST /\ adminTab' \in AT /\ cap \in ValuesOf("cap")
      BY <1>0, <1>6 DEF SaveCap, Start, stripe, ValuesOf
    <2> QED BY <1>0, <2>1, FlagsStart
  <1>7. ASSUME NEW j \in Handlers, SettingsAnswered(j) PROVE FlagsInv'
    <2>1. /\ settingsTab' \in ST /\ adminTab' \in AT
          /\ UNCHANGED <<perms, config, chosen, contended, linked, status, event>>
          /\ job' = [job EXCEPT ![j] = Idle]
      <3>1. (job[j].at = "ok" /\ job[j].field = "paid") => job[j].arg \in BOOLEAN
        BY <1>0 DEF ChangeOK
      <3> QED BY <1>0, <1>7, <3>1 DEF SettingsAnswered, tables, stripe
    <2>2. job' \in [Handlers -> Change] /\ job'[j].at = "idle" /\ \A k \in Handlers : k # j => job'[k] = job[k]
      BY <1>0, <2>1 DEF Idle, Change, CapValues
    <2> QED BY <2>1, <2>2, FlagsEnd
  <1>8. ASSUME NEW j \in Handlers, AdminAnswered(j) PROVE FlagsInv'
    <2>1. /\ settingsTab' \in ST /\ adminTab' \in AT
          /\ UNCHANGED <<perms, config, chosen, contended, linked, status, event>>
          /\ job' = [job EXCEPT ![j] = Idle]
      BY <1>0, <1>8 DEF AdminAnswered, tables, stripe, PermsRow
    <2>2. job' \in [Handlers -> Change] /\ job'[j].at = "idle" /\ \A k \in Handlers : k # j => job'[k] = job[k]
      BY <1>0, <2>1 DEF Idle, Change, CapValues
    <2> QED BY <2>1, <2>2, FlagsEnd
  <1>9. ASSUME NEW j \in Handlers, ToggleBlock(j) PROVE FlagsInv'
    <2>1. /\ Start(j, "blocked", ~adminTab.blocked, "read", None) /\ event' = event
          /\ settingsTab' \in ST /\ adminTab' \in AT
      BY <1>0, <1>9 DEF ToggleBlock, Start, stripe
    <2>2. adminTab.blocked \in BOOLEAN
      BY <1>0
    <2> DEFINE turned == ~adminTab.blocked
    <2>3. turned \in ValuesOf("blocked") /\ Start(j, "blocked", turned, "read", None)
      BY <2>1, <2>2 DEF ValuesOf
    <2> HIDE DEF turned
    <2> QED BY <1>0, <2>1, <2>3, FlagsStart
  <1>10. ASSUME NEW j \in Handlers, NEW comp \in BOOLEAN, SaveForm(j, comp) PROVE FlagsInv'
    <2>1. /\ Start(j, "comp", comp, "read", None) /\ event' = event
          /\ settingsTab' \in ST /\ adminTab' \in AT /\ comp \in ValuesOf("comp")
      BY <1>0, <1>10 DEF SaveForm, Start, stripe, ValuesOf
    <2> QED BY <1>0, <2>1, FlagsStart
  <1>11. ASSUME NEW j \in Handlers, NEW cap \in CapValues, SetAdminCap(j, cap) PROVE FlagsInv'
    <2>1. /\ Start(j, "adminCap", cap, "read", None) /\ event' = event
          /\ settingsTab' \in ST /\ adminTab' \in AT /\ cap \in ValuesOf("adminCap")
      BY <1>0, <1>11 DEF SetAdminCap, Start, stripe, tabs, ValuesOf
    <2> QED BY <1>0, <2>1, FlagsStart
  <1>12. ASSUME NEW j \in Handlers, NEW v \in Events, Deliver(j, v) PROVE FlagsInv'
    <2>1. /\ Start(j, "delinquent", None, "live", v) /\ event' = event
          /\ settingsTab' \in ST /\ adminTab' \in AT /\ event[v] # "unsent"
      BY <1>0, <1>12 DEF Deliver, Start, stripe, tabs
    <2> QED BY <1>0, <2>1, FlagsStart
  <1>13. ASSUME NEW v \in Events, DeliverUnlinked(v) PROVE FlagsInv'
    BY <1>0, <1>13, FlagsElsewhere DEF DeliverUnlinked, tables, tabs
  <1>14. ASSUME NEW v \in Events, NEW s \in {"active", "unpaid", "other"}, Update(v, s) PROVE FlagsInv'
    BY <1>14, FlagsUpdated
  <1>15. ASSUME LoadSettings \/ LoadForm PROVE FlagsInv'
    <2>1. Configuration.paid \in BOOLEAN /\ Permissions.blocked \in BOOLEAN
      BY <1>0 DEF Configuration, Permissions, ConfigRow, PermsRow
    <2>2. settingsTab' \in ST /\ adminTab' \in AT
      BY <1>0, <1>15, <2>1 DEF LoadSettings, LoadForm
    <2> QED BY <1>15, <2>2, FlagsElsewhere DEF LoadSettings, LoadForm, tables, stripe
  <1>16. ASSUME CheckBlock \/ FillBlock \/ CheckCap \/ FillCap \/ Depart \/ Tick PROVE FlagsInv'
    <2>1. UNCHANGED <<tables, job, stripe, tabs>>
      BY <1>16 DEF CheckBlock, FillBlock, CheckCap, FillCap, Depart, Tick, OnlyGateway
    <2> QED BY <1>0, <2>1, FlagsElsewhere DEF tables, stripe, tabs
  <1> QED
    BY FlagsNext, <1>1, <1>2, <1>3, <1>4, <1>5, <1>6, <1>7, <1>8, <1>9, <1>10, <1>11, <1>12,
       <1>13, <1>14, <1>15, <1>16
       DEF FlagsNext

-----------------------------------------------------------------------------
(* The gateway's caches.                                                   *)

\* The gateway and the dashboard rank the flags alike.
LEMMA CodeIsBanner ==
    /\ AccessCode(perms) = Banner(perms)
    /\ Banner(perms) \in Codes
  BY DEF AccessCode, Banner, Codes

\* The effective cap of any row of configuration is a cap.
LEMMA CapInForce ==
    ASSUME NEW c \in ConfigRow
    PROVE  EffectiveCap(c) \in Effective
  <1>1. c.cap \in CapValues /\ c.adminCap \in CapValues
    BY DEF ConfigRow
  <1> DEFINE admin == IF c.adminCap = None /\ ~c.comp THEN DefaultCap ELSE c.adminCap
             set   == {c.cap, admin} \ {None}
  <1>2. admin \in Effective /\ c.cap \in Effective
    BY <1>1 DEF Effective
  <1>3. set \subseteq Nat
    BY <1>1, CapsAssumption DEF CapValues
  <1>4. CASE set # {}
    <2>1. \E a \in set : \A d \in set : a <= d
      BY <1>3, <1>4
    <2>2. (CHOOSE a \in set : \A d \in set : a <= d) \in set
      BY <2>1
    <2> HIDE DEF set
    <2>3. EffectiveCap(c) = CHOOSE a \in set : \A d \in set : a <= d
      BY <1>4 DEF EffectiveCap, set
    <2> QED BY <1>2, <2>2, <2>3 DEF set
  <1>5. CASE set = {}
    BY <1>5 DEF EffectiveCap, Effective, CapValues
  <1> QED BY <1>4, <1>5

\* What the portal does, short of appending a row, leaves the gateway alone.
LEMMA FreshElsewhere ==
    ASSUME FlagsFresh, UNCHANGED <<perms, config, gateway>>
    PROVE  FlagsFresh'
  BY DEF FlagsFresh, gateway

\* A row is appended: what the gateway knew was true not longer ago than before.
LEMMA FreshNoted ==
    ASSUME FlagsFresh, FlagsTyped', Note(perms', config'), UNCHANGED <<blockCache, capCache, caller>>
    PROVE  FlagsFresh'
  <1> DEFINE b == Banner(perms')
             e == EffectiveCap(config')
  <1>1. /\ b \in Codes /\ e \in Effective
        /\ codeAge' = [codeAge EXCEPT ![b] = 0] /\ capAge' = [capAge EXCEPT ![e] = 0]
    <2>1. config' \in ConfigRow
      BY DEF FlagsTyped
    <2> QED BY <2>1, CapInForce DEF Note, Banner, Codes
  <1>2. TTL \in Nat \ {0} /\ BlockTTL \in Nat \ {0}
    BY TTLAssumption
  <1> HIDE DEF b, e
  <1>3. /\ codeAge' \in [Codes -> 0 .. BlockTTL] /\ capAge' \in [Effective -> 0 .. TTL]
        /\ codeAge'[b] = 0 /\ capAge'[e] = 0
        /\ \A c \in Codes :
              codeAge'[c] <= codeAge[c] /\ codeAge[c] \in 0 .. BlockTTL /\ codeAge'[c] \in 0 .. BlockTTL
        /\ \A c \in Effective : capAge'[c] <= capAge[c] /\ capAge[c] \in 0 .. TTL /\ capAge'[c] \in 0 .. TTL
    BY <1>1, <1>2 DEF FlagsFresh
  <1>4. /\ codeAge'[Banner(perms')] = 0 /\ capAge'[EffectiveCap(config')] = 0
    BY <1>3 DEF b, e
  <1>5. /\ blockCache.code \in Codes /\ blockCache.left \in 0 .. BlockTTL
        /\ capCache.cap \in Effective /\ capCache.left \in 0 .. TTL
        /\ caller.code \in Codes /\ caller.cap \in Effective
    BY DEF FlagsFresh
  <1>6. blockCache.left > 0 => codeAge'[blockCache.code] + blockCache.left <= BlockTTL
    BY <1>2, <1>3, <1>5 DEF FlagsFresh
  <1>7. capCache.left > 0 => capAge'[capCache.cap] + capCache.left <= TTL
    BY <1>2, <1>3, <1>5 DEF FlagsFresh
  <1>8. /\ caller.at = "fillBlock" => codeAge'[caller.code] = 0
        /\ caller.at \in {"cap", "fillCap", "in", "refused"} => codeAge'[caller.code] < BlockTTL
    BY <1>2, <1>3, <1>5 DEF FlagsFresh
  <1>9. /\ caller.at = "fillCap" => capAge'[caller.cap] = 0
        /\ caller.at = "in" => capAge'[caller.cap] < TTL
    BY <1>2, <1>3, <1>5 DEF FlagsFresh
  <1> QED BY <1>3, <1>4, <1>6, <1>7, <1>8, <1>9 DEF FlagsFresh

\* Time passes, with no request in flight.
LEMMA FreshAged ==
    ASSUME FlagsTyped, FlagsFresh, Tick
    PROVE  FlagsFresh'
  <1> DEFINE b == Banner(perms)
             e == EffectiveCap(config)
  <1>1. /\ b \in Codes /\ e \in Effective /\ UNCHANGED <<perms, config, caller>> /\ caller.at = "out"
        /\ codeAge' = [c \in Codes |-> IF c = b THEN 0 ELSE Older(codeAge[c], BlockTTL)]
        /\ capAge' = [c \in Effective |-> IF c = e THEN 0 ELSE Older(capAge[c], TTL)]
    BY CodeIsBanner, CapInForce DEF Tick, tables, Outside, FlagsTyped
  <1>2. TTL \in Nat \ {0} /\ BlockTTL \in Nat \ {0}
    BY TTLAssumption
  <1>3. /\ codeAge \in [Codes -> 0 .. BlockTTL] /\ capAge \in [Effective -> 0 .. TTL]
        /\ blockCache \in [code : Codes, left : 0 .. BlockTTL] /\ capCache \in [cap : Effective, left : 0 .. TTL]
        /\ blockCache.left > 0 => codeAge[blockCache.code] + blockCache.left <= BlockTTL
        /\ capCache.left > 0 => capAge[capCache.cap] + capCache.left <= TTL
        /\ caller \in [at : {"out", "fillBlock", "cap", "fillCap", "in", "refused"},
                       code : Codes, cap : Effective]
    BY DEF FlagsFresh
  <1>4. /\ blockCache' = IF blockCache.left > 1 THEN [blockCache EXCEPT !.left = @ - 1] ELSE NoCode
        /\ capCache' = IF capCache.left > 1 THEN [capCache EXCEPT !.left = @ - 1] ELSE NoCap
    BY DEF Tick
  <1>5. codeAge'[Banner(perms')] = 0 /\ capAge'[EffectiveCap(config')] = 0
    BY <1>1
  <1> HIDE DEF b, e
  <1>6. \A c \in Codes :
           codeAge'[c] \in 0 .. BlockTTL /\ codeAge'[c] <= codeAge[c] + 1 /\ codeAge[c] \in 0 .. BlockTTL
    BY <1>1, <1>2, <1>3 DEF Older
  <1>7. \A c \in Effective : capAge'[c] \in 0 .. TTL /\ capAge'[c] <= capAge[c] + 1 /\ capAge[c] \in 0 .. TTL
    BY <1>1, <1>2, <1>3 DEF Older
  <1>8. codeAge' \in [Codes -> 0 .. BlockTTL] /\ capAge' \in [Effective -> 0 .. TTL]
    BY <1>1, <1>6, <1>7
  <1>9. /\ blockCache' \in [code : Codes, left : 0 .. BlockTTL]
        /\ blockCache'.left > 0 => blockCache'.code = blockCache.code /\ blockCache'.left + 1 = blockCache.left
    BY <1>2, <1>3, <1>4 DEF NoCode, Codes
  <1>10. /\ capCache' \in [cap : Effective, left : 0 .. TTL]
         /\ capCache'.left > 0 => capCache'.cap = capCache.cap /\ capCache'.left + 1 = capCache.left
    BY <1>2, <1>3, <1>4 DEF NoCap, Effective, CapValues
  <1>11. blockCache'.left > 0 => codeAge'[blockCache'.code] + blockCache'.left <= BlockTTL
    BY <1>2, <1>3, <1>6, <1>9
  <1>12. capCache'.left > 0 => capAge'[capCache'.cap] + capCache'.left <= TTL
    BY <1>2, <1>3, <1>7, <1>10
  <1> QED BY <1>1, <1>3, <1>5, <1>8, <1>9, <1>10, <1>11, <1>12 DEF FlagsFresh

\* A request in the gateway.
LEMMA FreshAsked ==
    ASSUME FlagsTyped, FlagsFresh, CheckBlock \/ FillBlock \/ CheckCap \/ FillCap \/ Depart
    PROVE  FlagsFresh'
  <1>1. UNCHANGED <<perms, config>>
    BY DEF CheckBlock, FillBlock, CheckCap, FillCap, Depart, OnlyGateway, tables
  <1>2. TTL \in Nat \ {0} /\ BlockTTL \in Nat \ {0}
    BY TTLAssumption
  <1>3. /\ codeAge \in [Codes -> 0 .. BlockTTL] /\ capAge \in [Effective -> 0 .. TTL]
        /\ codeAge[Banner(perms)] = 0 /\ capAge[EffectiveCap(config)] = 0
        /\ blockCache \in [code : Codes, left : 0 .. BlockTTL] /\ capCache \in [cap : Effective, left : 0 .. TTL]
        /\ blockCache.left > 0 => codeAge[blockCache.code] + blockCache.left <= BlockTTL
        /\ capCache.left > 0 => capAge[capCache.cap] + capCache.left <= TTL
        /\ caller \in [at : {"out", "fillBlock", "cap", "fillCap", "in", "refused"},
                       code : Codes, cap : Effective]
    BY DEF FlagsFresh
  <1>4. /\ AccessCode(perms) = Banner(perms) /\ Banner(perms) \in Codes
        /\ EffectiveCap(config) \in Effective
    BY CodeIsBanner, CapInForce DEF FlagsTyped
  <1>5. CASE CheckBlock
    <2>0. UNCHANGED <<capAge, blockCache, capCache>>
      BY <1>5 DEF CheckBlock
    <2>1. CASE blockCache.left > 0 /\ Decide(blockCache.code) /\ UNCHANGED codeAge
      <3>1. codeAge[blockCache.code] < BlockTTL
        BY <1>2, <1>3, <2>1
      <3>2. caller' = [caller EXCEPT !.at = IF blockCache.code = "allowed" THEN "cap" ELSE "refused",
                                     !.code = blockCache.code]
        BY <2>1 DEF Decide
      <3> QED BY <1>1, <1>3, <2>0, <2>1, <3>1, <3>2 DEF FlagsFresh
    <2>2. CASE FetchCode(perms) /\ UNCHANGED codeAge
      <3>1. caller' = [caller EXCEPT !.at = "fillBlock", !.code = Banner(perms)]
        BY <1>4, <2>2 DEF FetchCode
      <3> QED BY <1>1, <1>3, <1>4, <2>0, <2>2, <3>1 DEF FlagsFresh
    <2>3. CASE FetchCode(NewPerms) /\ codeAge' = [codeAge EXCEPT ![AccessCode(NewPerms)] = 0]
      <3> DEFINE n == AccessCode(NewPerms)
      <3>1. n \in Codes
        BY DEF AccessCode, Codes
      <3>2. caller' = [caller EXCEPT !.at = "fillBlock", !.code = n]
        BY <2>3 DEF FetchCode
      <3>3. codeAge' = [codeAge EXCEPT ![n] = 0]
        BY <2>3
      <3> HIDE DEF n
      <3>4. /\ codeAge' \in [Codes -> 0 .. BlockTTL] /\ codeAge'[n] = 0
            /\ \A c \in Codes : codeAge'[c] = IF c = n THEN 0 ELSE codeAge[c]
        BY <1>2, <1>3, <3>1, <3>3
      <3>5. blockCache.left > 0 => codeAge'[blockCache.code] + blockCache.left <= BlockTTL
        <4>1. /\ blockCache.code \in Codes /\ blockCache.left \in 0 .. BlockTTL
              /\ codeAge[blockCache.code] \in 0 .. BlockTTL
          BY <1>3
        <4> QED BY <1>2, <1>3, <3>4, <4>1
      <3>6. codeAge'[Banner(perms)] = 0
        BY <1>3, <1>4, <3>4
      <3>7. caller' \in [at : {"out", "fillBlock", "cap", "fillCap", "in", "refused"},
                         code : Codes, cap : Effective]
            /\ caller'.at = "fillBlock" /\ caller'.code = n
        BY <1>3, <3>1, <3>2
      <3> QED BY <1>1, <1>3, <2>0, <3>4, <3>5, <3>6, <3>7 DEF FlagsFresh
    <2> QED BY <1>5, <2>1, <2>2, <2>3 DEF CheckBlock
  <1>6. CASE FillBlock
    <2>1. /\ codeAge[caller.code] = 0 /\ caller.code \in Codes
          /\ blockCache' = [code |-> caller.code, left |-> BlockTTL]
          /\ UNCHANGED <<capCache, codeAge, capAge>>
      BY <1>6 DEF FillBlock, FlagsFresh
    <2>2. /\ caller' \in [at : {"cap", "refused"}, code : Codes, cap : Effective] /\ caller'.code = caller.code
      BY <1>3, <1>6 DEF FillBlock, Decide
    <2>3. /\ blockCache' \in [code : Codes, left : 0 .. BlockTTL]
          /\ codeAge[blockCache'.code] + blockCache'.left <= BlockTTL
      BY <1>2, <2>1
    <2>4. codeAge[caller'.code] < BlockTTL
      BY <1>2, <2>1, <2>2
    <2> QED BY <1>1, <1>3, <2>1, <2>2, <2>3, <2>4 DEF FlagsFresh
  <1>7. CASE CheckCap
    <2>1. codeAge[caller.code] < BlockTTL
      BY <1>7 DEF CheckCap, FlagsFresh
    <2>0. UNCHANGED <<codeAge, blockCache, capCache>>
      BY <1>7 DEF CheckCap
    <2>2. CASE capCache.left > 0 /\ UNCHANGED capAge /\ caller' = [caller EXCEPT !.at = "in", !.cap = capCache.cap]
      <3>1. capAge[capCache.cap] < TTL
        BY <1>2, <1>3, <2>2
      <3> QED BY <1>1, <1>3, <2>0, <2>1, <2>2, <3>1 DEF FlagsFresh
    <2>3. CASE FetchCap(config) /\ UNCHANGED capAge
      <3>1. caller' = [caller EXCEPT !.at = "fillCap", !.cap = EffectiveCap(config)]
        BY <2>3 DEF FetchCap
      <3> QED BY <1>1, <1>3, <1>4, <2>0, <2>1, <2>3, <3>1 DEF FlagsFresh
    <2>4. CASE FetchCap(NewConfig) /\ capAge' = [capAge EXCEPT ![EffectiveCap(NewConfig)] = 0]
      <3> DEFINE n == EffectiveCap(NewConfig)
      <3>1. n \in Effective
        BY CapInForce DEF NewConfig, ConfigRow, CapValues
      <3>2. caller' = [caller EXCEPT !.at = "fillCap", !.cap = n]
        BY <2>4 DEF FetchCap
      <3>3. capAge' = [capAge EXCEPT ![n] = 0]
        BY <2>4
      <3> HIDE DEF n
      <3>4. /\ capAge' \in [Effective -> 0 .. TTL] /\ capAge'[n] = 0
            /\ \A c \in Effective : capAge'[c] = IF c = n THEN 0 ELSE capAge[c]
        BY <1>2, <1>3, <3>1, <3>3
      <3>5. capCache.left > 0 => capAge'[capCache.cap] + capCache.left <= TTL
        <4>1. /\ capCache.cap \in Effective /\ capCache.left \in 0 .. TTL
              /\ capAge[capCache.cap] \in 0 .. TTL
          BY <1>3
        <4> QED BY <1>2, <1>3, <3>4, <4>1
      <3>6. capAge'[EffectiveCap(config)] = 0
        BY <1>3, <1>4, <3>4
      <3>7. caller' \in [at : {"out", "fillBlock", "cap", "fillCap", "in", "refused"},
                         code : Codes, cap : Effective]
            /\ caller'.at = "fillCap" /\ caller'.cap = n /\ caller'.code = caller.code
        BY <1>3, <3>1, <3>2
      <3> QED BY <1>1, <1>3, <2>0, <2>1, <3>4, <3>5, <3>6, <3>7 DEF FlagsFresh
    <2> QED BY <1>7, <2>2, <2>3, <2>4 DEF CheckCap
  <1>8. CASE FillCap
    <2>1. /\ capAge[caller.cap] = 0 /\ codeAge[caller.code] < BlockTTL
          /\ capCache' = [cap |-> caller.cap, left |-> TTL]
          /\ UNCHANGED <<blockCache, codeAge, capAge>>
          /\ caller' = [caller EXCEPT !.at = "in"]
      BY <1>8 DEF FillCap, FlagsFresh
    <2>2. capCache' \in [cap : Effective, left : 0 .. TTL] /\ capAge[capCache'.cap] + capCache'.left <= TTL
      BY <1>2, <1>3, <2>1
    <2>3. capAge[caller'.cap] < TTL /\ codeAge[caller'.code] < BlockTTL /\ caller'.at = "in"
          /\ caller' \in [at : {"out", "fillBlock", "cap", "fillCap", "in", "refused"},
                          code : Codes, cap : Effective]
      BY <1>2, <1>3, <2>1
    <2> QED BY <1>1, <1>3, <2>1, <2>2, <2>3 DEF FlagsFresh
  <1>9. CASE Depart
    BY <1>1, <1>3, <1>9 DEF Depart, Outside, FlagsFresh, Codes, Effective, CapValues
  <1> QED BY <1>5, <1>6, <1>7, <1>8, <1>9

\* Every step keeps the caches' ages.
LEMMA FlagsFreshStep ==
    ASSUME FlagsInv, FlagsFresh, FlagsNext
    PROVE  FlagsFresh'
  <1>1. FlagsTyped /\ FlagsTyped'
    BY FlagsInvStep DEF FlagsInv
  <1>2. ASSUME NEW j \in Handlers, ReadLatest(j) \/ Fail(j) \/ FetchLive(j) \/ TogglePaid(j)
                                   \/ SettingsAnswered(j) \/ ToggleBlock(j) \/ AdminAnswered(j)
                                   \/ \E comp \in BOOLEAN : SaveForm(j, comp)
        PROVE  UNCHANGED <<perms, config, gateway>>
    BY <1>2 DEF ReadLatest, Fail, FetchLive, TogglePaid, SettingsAnswered,
                ToggleBlock, AdminAnswered, SaveForm, Start, tables
  <1>3. ASSUME NEW j \in Handlers,
               (\E cap \in CapValues : SaveCap(j, cap) \/ SetAdminCap(j, cap)) \/ \E v \in Events : Deliver(j, v)
        PROVE  UNCHANGED <<perms, config, gateway>>
    BY <1>3 DEF SaveCap, SetAdminCap, Deliver, Start
  <1>4. ASSUME \/ \E v \in Events : DeliverUnlinked(v) \/ \E s \in {"active", "unpaid", "other"} : Update(v, s)
               \/ LoadSettings \/ LoadForm
        PROVE  UNCHANGED <<perms, config, gateway>>
    BY <1>4 DEF DeliverUnlinked, Update, LoadSettings, LoadForm, tables
  <1>5. ASSUME NEW j \in Handlers, Appended(j) PROVE FlagsFresh'
    BY <1>1, <1>5, FreshNoted DEF Appended
  <1>6. ASSUME CheckBlock \/ FillBlock \/ CheckCap \/ FillCap \/ Depart PROVE FlagsFresh'
    BY <1>1, <1>6, FreshAsked
  <1>7. ASSUME Tick PROVE FlagsFresh'
    BY <1>1, <1>7, FreshAged
  <1>8. UNCHANGED <<perms, config, gateway>> => FlagsFresh'
    BY FreshElsewhere
  <1> QED BY FlagsNext, <1>2, <1>3, <1>4, <1>5, <1>6, <1>7, <1>8 DEF FlagsNext

\* The account of a new user satisfies both.
LEMMA FlagsStarted ==
    ASSUME FlagsInit
    PROVE  FlagsInv /\ FlagsFresh
  <1>1. /\ perms = NewPerms /\ config = NewConfig /\ job = [j \in Handlers |-> Idle] /\ status = "active"
        /\ event = [v \in Events |-> "unsent"] /\ settingsTab = [enabled |-> FALSE, busy |-> None]
        /\ adminTab = [blocked |-> FALSE, blocking |-> None, saving |-> None]
        /\ chosen = [f \in Fields |-> IF f \in {"cap", "adminCap"} THEN None ELSE FALSE]
        /\ contended = {}
    BY DEF FlagsInit
  <1>2. perms \in PermsRow /\ config \in ConfigRow
    BY <1>1 DEF NewPerms, NewConfig, PermsRow, ConfigRow, CapValues
  <1>3. \A j \in Handlers : job[j].at = "idle" /\ ~Active(j)
    BY <1>1 DEF Idle, Active
  <1>4. FlagsTyped
    <2>1. \A j \in Handlers : ChangeOK(j)
      BY <1>3 DEF ChangeOK
    <2>2. job \in [Handlers -> Change]
      BY <1>1 DEF Idle, Change, CapValues
    <2>3. chosen \in [Fields -> BOOLEAN \cup CapValues]
      BY <1>1 DEF CapValues
    <2>4. event \in [Events -> {"unsent", "pending", "acked"}]
      BY <1>1
    <2> QED BY <1>1, <1>2, <2>1, <2>2, <2>3, <2>4 DEF FlagsTyped
  <1>5. FlagsKept
    <2>1. \A g \in PermsFields : perms[g] = chosen[g]
      <3>1. perms["blocked"] = FALSE /\ perms["delinquent"] = FALSE
        BY <1>1 DEF NewPerms
      <3>2. chosen["blocked"] = FALSE /\ chosen["delinquent"] = FALSE
        BY <1>1 DEF Fields
      <3> QED BY <3>1, <3>2 DEF PermsFields
    <2>2. \A g \in ConfigFields : config[g] = chosen[g]
      <3>1. config["paid"] = FALSE /\ config["cap"] = None /\ config["comp"] = FALSE /\ config["adminCap"] = None
        BY <1>1 DEF NewConfig
      <3>2. chosen["paid"] = FALSE /\ chosen["cap"] = None /\ chosen["comp"] = FALSE /\ chosen["adminCap"] = None
        BY <1>1 DEF Fields
      <3> QED BY <3>1, <3>2 DEF ConfigFields
    <2>3. perms.delinquent = FALSE /\ status = "active"
      BY <1>1 DEF NewPerms
    <2> QED BY <1>3, <2>1, <2>2, <2>3 DEF FlagsKept, Overlaps
  <1>6. FlagsFresh
    <2>1. Banner(perms) = "allowed"
      BY <1>1 DEF Banner, NewPerms
    <2>2. EffectiveCap(config) = DefaultCap
      <3> DEFINE set == {None, DefaultCap} \ {None}
      <3>1. set = {DefaultCap}
        BY CapsAssumption
      <3>2. EffectiveCap(config) = CHOOSE c \in set : \A d \in set : c <= d
        BY <1>1, <3>1 DEF EffectiveCap, NewConfig
      <3>3. \A c \in set : c = DefaultCap
        BY <3>1
      <3>4. \E c \in set : \A d \in set : c <= d
        BY <3>1, CapsAssumption
      <3>5. (CHOOSE c \in set : \A d \in set : c <= d) \in set
        BY <3>4
      <3> HIDE DEF set
      <3> QED BY <3>2, <3>3, <3>5
    <2>3. TTL \in Nat \ {0} /\ BlockTTL \in Nat \ {0}
      BY TTLAssumption
    <2>4. /\ codeAge \in [Codes -> 0 .. BlockTTL] /\ codeAge["allowed"] = 0
          /\ capAge \in [Effective -> 0 .. TTL] /\ capAge[DefaultCap] = 0
      BY <2>3 DEF FlagsInit, Codes, Effective
    <2>5. /\ blockCache \in [code : Codes, left : 0 .. BlockTTL] /\ blockCache.left = 0
          /\ capCache \in [cap : Effective, left : 0 .. TTL] /\ capCache.left = 0
          /\ caller \in [at : {"out", "fillBlock", "cap", "fillCap", "in", "refused"},
                         code : Codes, cap : Effective]
          /\ caller.at = "out"
      BY <2>3 DEF FlagsInit, NoCode, NoCap, Outside, Codes, Effective, CapValues
    <2> QED BY <2>1, <2>2, <2>4, <2>5 DEF FlagsFresh
  <1> QED BY <1>4, <1>5, <1>6 DEF FlagsInv

\* Both are invariants of the portal and the gateway.
LEMMA FlagsInvariance == Spec => [](FlagsInv /\ FlagsFresh)
  <1>1. Init => FlagsInv /\ FlagsFresh
    BY FlagsStarted DEF Init
  <1>2. ASSUME FlagsInv, FlagsFresh, [Next]_billingVars PROVE FlagsInv' /\ FlagsFresh'
    <2>1. CASE FlagsNext
      BY <1>2, <2>1, FlagsInvStep, FlagsFreshStep
    <2>2. CASE UNCHANGED flagsVars
      <3>1. FlagsInv'
        BY <1>2, <2>2, FlagsElsewhere DEF FlagsInv, FlagsTyped, flagsVars, tables, stripe, tabs
      <3>2. FlagsFresh'
        BY <1>2, <2>2, FreshElsewhere DEF flagsVars, tables
      <3> QED BY <3>1, <3>2
    <2> QED BY <1>2, <2>1, <2>2 DEF Next, billingVars
  <1> QED BY <1>1, <1>2, PTL DEF Spec

\* A request is let in or refused as the dashboard's banner would have said less
\* than BLOCKED_CACHE_TTL ago, and under a cap in force less than CACHE_TTL ago,
\* though nobody clears the gateway's caches (user_resolver.py); if the read of a
\* table failed within that time, perhaps as for an account without a row.
THEOREM GatewayIsFresh == Spec => []GatewayFresh
  <1>1. FlagsFresh => GatewayFresh
    BY DEF FlagsFresh, GatewayFresh
  <1> QED BY <1>1, FlagsInvariance, PTL

\* No change of a flag or a setting is lost unless changes of different fields of
\* a table, or two deliveries of the webhook, overlapped; and once Stripe's events
\* are acknowledged the delinquent flag says what Stripe does (user-permissions.ts,
\* user-config.ts, the webhook's route).
THEOREM ChangesAreKept == Spec => []ChangesKept
  <1>1. FlagsInv => ChangesKept
    <2> SUFFICES ASSUME FlagsInv PROVE ChangesKept
      OBVIOUS
    <2>1. "perms" \notin contended => \A f \in {"blocked", "delinquent"} : perms[f] = chosen[f]
      BY DEF FlagsInv, FlagsKept, PermsFields
    <2>2. "config" \notin contended => \A f \in {"paid", "cap", "comp", "adminCap"} : config[f] = chosen[f]
      BY DEF FlagsInv, FlagsKept, ConfigFields
    <2>3. linked /\ status # "other" /\ "perms" \notin contended /\ (\A v \in Events : event[v] # "pending")
             => perms.delinquent = (status = "unpaid")
      BY DEF FlagsInv, FlagsKept
    <2> QED BY <2>1, <2>2, <2>3 DEF ChangesKept
  <1> QED BY <1>1, FlagsInvariance, PTL

-----------------------------------------------------------------------------
(* Whose invoices are shown.                                               *)

Amount == [of : People \cup {NoOne}, count : Int]

Reading == [at : {"idle", "cache", "stripe", "fill", "done", "failed"},
            by : {"gone", "row", "page"}, user : People \cup {NoOne},
            got : Amount, least : Nat]

Ticks == 1 .. InvoiceTTL

InvoicesTyped ==
    /\ customers \in SUBSET People
    /\ billed \in [People -> Nat]
    /\ past \in [People -> [Ticks -> Nat]]
    /\ cache \in [People -> [got : Amount, left : 0 .. InvoiceTTL]]
    /\ reading \in [Readers -> Reading]
    /\ matching \in SUBSET People

\* The invoices of a user only became more: those of a tick ago are not more
\* than now, and so back to the last tick that is remembered.
PastGrew ==
    \A u \in People : past[u][1] <= billed[u] /\ \A i, k \in Ticks : i <= k => past[u][k] <= past[u][i]

\* What is cached is the user's own, and was all when it was got.
CacheOwn ==
    \A u \in People :
        \/ cache[u] = NoEntry
        \/ /\ cache[u].left > 0 /\ cache[u].got.of = u
           /\ cache[u].got.count >= past[u][InvoiceTTL - cache[u].left + 1]

\* A request reads for one user, and got his own; the row it answers to is open.
RequestOwn(r) ==
    reading[r].at # "idle" =>
        /\ reading[r].user \in People
        /\ reading[r].least = past[reading[r].user][InvoiceTTL]
        /\ reading[r].by = "row" => reading[r].user = open /\ open \in matching
        /\ reading[r].by = "page" => reading[r].user = Me
        /\ reading[r].at \in {"stripe", "failed"} => reading[r].got = Nothing
        /\ reading[r].at \in {"fill", "done"} => reading[r].got.of = reading[r].user
        /\ reading[r].at = "fill" => reading[r].got.count >= past[reading[r].user][1]
        /\ reading[r].at = "done" => reading[r].got.count >= reading[r].least

PagesOwn ==
    /\ spend # Nothing => open \in matching /\ (spend = Empty \/ spend.of = open)
    /\ table.of \in {Me, NoOne}

InvoicesInv == InvoicesTyped /\ PastGrew /\ CacheOwn /\ (\A r \in Readers : RequestOwn(r)) /\ PagesOwn

\* A request that goes on as it was, or is left behind by its row.
LEMMA RequestKept ==
    ASSUME NEW r \in Readers, reading \in [Readers -> Reading], RequestOwn(r), past' = past,
           \/ /\ reading'[r] = reading[r] /\ open' = open
              /\ open \in matching => open \in matching'
           \/ reading'[r] = IF reading[r].by = "row" THEN [reading[r] EXCEPT !.by = "gone"] ELSE reading[r]
    PROVE  RequestOwn(r)'
  <1>0. reading[r] \in Reading
    OBVIOUS
  <1>1. CASE reading'[r] = reading[r] /\ open' = open /\ (open \in matching => open \in matching')
    BY <1>1 DEF RequestOwn
  <1>2. CASE reading'[r] = IF reading[r].by = "row" THEN [reading[r] EXCEPT !.by = "gone"] ELSE reading[r]
    <2>1. /\ reading'[r].at = reading[r].at /\ reading'[r].user = reading[r].user
          /\ reading'[r].got = reading[r].got /\ reading'[r].least = reading[r].least
          /\ reading'[r].by # "row" /\ (reading'[r].by = "page" => reading[r].by = "page")
      BY <1>0, <1>2 DEF Reading
    <2> QED BY <2>1 DEF RequestOwn
  <1> QED BY <1>1, <1>2

\* The requests, when one of them takes a step of its own.
LEMMA OthersKept ==
    ASSUME InvoicesInv, NEW r \in Readers, RequestOwn(r)', past' = past, open' = open, matching' = matching,
           \A q \in Readers : q # r => reading'[q] = reading[q]
    PROVE  \A q \in Readers : RequestOwn(q)'
  BY RequestKept DEF InvoicesInv, InvoicesTyped

\* The requests, when the rows of the list are rendered anew.
LEMMA LeftBehind ==
    ASSUME InvoicesInv, reading' = Unmounted, past' = past
    PROVE  reading' \in [Readers -> Reading] /\ \A q \in Readers : RequestOwn(q)'
  <1>1. reading \in [Readers -> Reading]
    BY DEF InvoicesInv, InvoicesTyped
  <1>2. \A q \in Readers :
           reading'[q] = IF reading[q].by = "row" THEN [reading[q] EXCEPT !.by = "gone"] ELSE reading[q]
    BY DEF Unmounted
  <1>3. reading' \in [Readers -> Reading]
    BY <1>1 DEF Unmounted, Reading
  <1> QED BY <1>1, <1>2, <1>3, RequestKept DEF InvoicesInv

\* Nothing happens to Stripe and the cache.
LEMMA InvoicesFrame ==
    ASSUME InvoicesInv, UNCHANGED <<billed, past, cache>>, customers' \in SUBSET People,
           reading' \in [Readers -> Reading], matching' \in SUBSET People,
           \A q \in Readers : RequestOwn(q)', PagesOwn'
    PROVE  InvoicesInv'
  BY DEF InvoicesInv, InvoicesTyped, PastGrew, CacheOwn

\* A request begins.
LEMMA AskKeeps ==
    ASSUME InvoicesInv, NEW r \in Readers, NEW u \in People, NEW by \in {"row", "page"}, Ask(r, u, by),
           by = "row" => u = open /\ open \in matching,
           by = "page" => u = Me,
           UNCHANGED <<billed, past, cache, customers, matching, open>>, PagesOwn'
    PROVE  InvoicesInv'
  <1>1. reading \in [Readers -> Reading] /\ past \in [People -> [Ticks -> Nat]] /\ InvoiceTTL \in Nat \ {0}
    BY InvoicesAssumption DEF InvoicesInv, InvoicesTyped
  <1>2. past[u][InvoiceTTL] \in Nat
    BY <1>1 DEF Ticks
  <1> DEFINE new == [at |-> "cache", by |-> by, user |-> u, got |-> Nothing, least |-> past[u][InvoiceTTL]]
  <1>3. new \in Reading
    BY <1>2 DEF Reading, Amount, Nothing
  <1>4. reading' = [reading EXCEPT ![r] = new]
    BY DEF Ask
  <1>5. new.at = "cache" /\ new.by = by /\ new.user = u /\ new.least = past[u][InvoiceTTL]
    OBVIOUS
  <1> HIDE DEF new
  <1>6. /\ reading' \in [Readers -> Reading] /\ reading'[r] = new
        /\ \A q \in Readers : q # r => reading'[q] = reading[q]
    BY <1>1, <1>3, <1>4
  <1>7. RequestOwn(r)'
    BY <1>5, <1>6 DEF RequestOwn
  <1>8. \A q \in Readers : RequestOwn(q)'
    BY <1>6, <1>7, OthersKept
  <1> QED BY <1>6, <1>8, InvoicesFrame DEF InvoicesInv, InvoicesTyped

\* A request reads the cache, reads Stripe, fills the cache, or fails.
LEMMA ServerKeeps ==
    ASSUME InvoicesInv, NEW r \in Readers,
           ReadCached(r) \/ FetchInvoices(r) \/ FillCached(r) \/ ReadFails(r)
    PROVE  InvoicesInv'
  <1> DEFINE u == reading[r].user
             n == InvoiceTTL
  <1>0. /\ reading \in [Readers -> Reading] /\ past \in [People -> [Ticks -> Nat]] /\ n \in Nat \ {0}
        /\ billed \in [People -> Nat] /\ cache \in [People -> [got : Amount, left : 0 .. n]]
        /\ reading[r] \in Reading /\ RequestOwn(r)
    BY InvoicesAssumption DEF InvoicesInv, InvoicesTyped
  <1>1. /\ UNCHANGED <<customers, billed, past, matching, open, spend, table>>
        /\ reading[r].at # "idle" /\ u \in People /\ reading[r].least = past[u][n]
        /\ reading[r].by = "row" => u = open /\ open \in matching
        /\ reading[r].by = "page" => u = Me
    BY DEF ReadCached, FetchInvoices, FillCached, ReadFails, OnlyServer, InvoicesInv, RequestOwn
  <1>2. PagesOwn'
    BY <1>1 DEF InvoicesInv, PagesOwn
  <1>3. /\ past[u] \in [Ticks -> Nat] /\ billed[u] \in Nat /\ cache[u] \in [got : Amount, left : 0 .. n]
        /\ past[u][1] \in Nat /\ past[u][n] \in Nat /\ past[u][1] <= billed[u]
        /\ \A i \in Ticks : past[u][n] <= past[u][i] /\ past[u][i] \in Nat
        /\ 1 \in Ticks /\ n \in Ticks
    BY <1>0, <1>1 DEF InvoicesInv, PastGrew, Ticks
  <1> DEFINE Moves(new) == /\ reading' = [reading EXCEPT ![r] = new]
                           /\ new \in Reading
                           /\ new.by = reading[r].by /\ new.user = u /\ new.least = reading[r].least
  <1>4. ASSUME NEW new, Moves(new)
        PROVE  /\ reading' \in [Readers -> Reading] /\ reading'[r] = new
               /\ \A q \in Readers : q # r => reading'[q] = reading[q]
    BY <1>0, <1>4
  <1>5. CASE ReadCached(r)
    <2> DEFINE hit == cache[u]
               new == [reading[r] EXCEPT !.at = IF hit = NoEntry THEN "stripe" ELSE "done", !.got = hit.got]
    <2>1. reading' = [reading EXCEPT ![r] = new] /\ UNCHANGED cache
      BY <1>0, <1>5 DEF ReadCached, Found
    <2>2. /\ new \in Reading /\ new.by = reading[r].by /\ new.user = u /\ new.least = reading[r].least
          /\ new.got = hit.got /\ new.at = IF hit = NoEntry THEN "stripe" ELSE "done"
      BY <1>0, <1>3 DEF Reading
    <2>3. CASE hit = NoEntry
      <3>1. new.got = Nothing /\ new.at = "stripe"
        BY <2>2, <2>3 DEF NoEntry
      <3> HIDE DEF new
      <3>2. /\ reading' \in [Readers -> Reading] /\ reading'[r] = new
            /\ \A q \in Readers : q # r => reading'[q] = reading[q]
        BY <1>4, <2>1, <2>2
      <3>3. RequestOwn(r)'
        BY <1>1, <2>2, <3>1, <3>2 DEF RequestOwn
      <3>4. \A q \in Readers : RequestOwn(q)'
        BY <1>1, <3>2, <3>3, OthersKept
      <3> QED BY <1>1, <1>2, <2>1, <3>2, <3>4, InvoicesFrame DEF InvoicesInv, InvoicesTyped
    <2>4. CASE hit # NoEntry
      <3>1. hit.left > 0 /\ hit.got.of = u /\ hit.got.count >= past[u][n - hit.left + 1]
        BY <1>1, <2>4 DEF InvoicesInv, CacheOwn
      <3>2. n - hit.left + 1 \in Ticks
        <4>1. hit.left \in 0 .. n
          BY <1>3
        <4> HIDE DEF hit
        <4> QED BY <1>0, <3>1, <4>1 DEF Ticks
      <3>3. past[u][n - hit.left + 1] \in Nat /\ past[u][n] <= past[u][n - hit.left + 1]
        BY <1>3, <3>2
      <3>4. hit.got.count \in Int
        BY <1>3 DEF Amount
      <3>5. new.at = "done" /\ new.got.of = u /\ new.got.count >= past[u][n]
        BY <1>3, <2>2, <2>4, <3>1, <3>3, <3>4
      <3> HIDE DEF new
      <3>6. /\ reading' \in [Readers -> Reading] /\ reading'[r] = new
            /\ \A q \in Readers : q # r => reading'[q] = reading[q]
        BY <1>4, <2>1, <2>2
      <3>7. RequestOwn(r)'
        BY <1>1, <2>2, <3>5, <3>6 DEF RequestOwn
      <3>8. \A q \in Readers : RequestOwn(q)'
        BY <1>1, <3>6, <3>7, OthersKept
      <3> QED BY <1>1, <1>2, <2>1, <3>6, <3>8, InvoicesFrame DEF InvoicesInv, InvoicesTyped
    <2> QED BY <2>3, <2>4
  <1>6. CASE FetchInvoices(r)
    <2> DEFINE got == [of |-> u, count |-> billed[u]]
               new == [reading[r] EXCEPT !.at = "fill", !.got = got]
    <2>1. reading' = [reading EXCEPT ![r] = new] /\ UNCHANGED cache
      BY <1>0, <1>6 DEF FetchInvoices
    <2>2. got \in Amount /\ got.of = u /\ got.count = billed[u]
      BY <1>1, <1>3 DEF Amount
    <2> HIDE DEF got
    <2>3. /\ new \in Reading /\ new.by = reading[r].by /\ new.user = u /\ new.least = reading[r].least
          /\ new.got = got /\ new.at = "fill"
      BY <1>0, <2>2 DEF Reading
    <2> HIDE DEF new
    <2>4. /\ reading' \in [Readers -> Reading] /\ reading'[r] = new
          /\ \A q \in Readers : q # r => reading'[q] = reading[q]
      BY <1>4, <2>1, <2>3
    <2>5. RequestOwn(r)'
      BY <1>1, <1>3, <2>2, <2>3, <2>4 DEF RequestOwn
    <2>6. \A q \in Readers : RequestOwn(q)'
      BY <1>1, <2>4, <2>5, OthersKept
    <2> QED BY <1>1, <1>2, <2>1, <2>4, <2>6, InvoicesFrame DEF InvoicesInv, InvoicesTyped
  <1>7. CASE ReadFails(r)
    <2> DEFINE new == [reading[r] EXCEPT !.at = "failed", !.got = Nothing]
    <2>0. Nothing \in Amount
      BY DEF Nothing, Amount
    <2>1. reading' = [reading EXCEPT ![r] = new] /\ UNCHANGED cache
      BY <1>0, <1>7 DEF ReadFails
    <2>2. /\ new \in Reading /\ new.by = reading[r].by /\ new.user = u /\ new.least = reading[r].least
          /\ new.got = Nothing /\ new.at = "failed"
      BY <1>0, <2>0 DEF Reading
    <2> HIDE DEF new
    <2>3. /\ reading' \in [Readers -> Reading] /\ reading'[r] = new
          /\ \A q \in Readers : q # r => reading'[q] = reading[q]
      BY <1>4, <2>1, <2>2
    <2>4. RequestOwn(r)'
      BY <1>1, <2>2, <2>3 DEF RequestOwn
    <2>5. \A q \in Readers : RequestOwn(q)'
      BY <1>1, <2>3, <2>4, OthersKept
    <2> QED BY <1>1, <1>2, <2>1, <2>3, <2>5, InvoicesFrame DEF InvoicesInv, InvoicesTyped
  <1>8. CASE FillCached(r)
    <2> DEFINE new == [reading[r] EXCEPT !.at = "done"]
               put == [got |-> reading[r].got, left |-> n]
    <2>1. reading' = [reading EXCEPT ![r] = new] /\ cache' = [cache EXCEPT ![u] = put] /\ reading[r].at = "fill"
      BY <1>0, <1>8 DEF FillCached
    <2>2. /\ new \in Reading /\ new.by = reading[r].by /\ new.user = u /\ new.least = reading[r].least
          /\ new.got = reading[r].got /\ new.at = "done"
      BY <1>0 DEF Reading
    <2>3. reading[r].got \in Amount /\ reading[r].got.of = u /\ reading[r].got.count >= past[u][1]
      BY <1>0, <2>1 DEF RequestOwn, Reading
    <2>4. put \in [got : Amount, left : 0 .. n] /\ put.left = n /\ put.got = reading[r].got
      BY <1>0, <2>3
    <2> HIDE DEF new, put
    <2>5. /\ reading' \in [Readers -> Reading] /\ reading'[r] = new
          /\ \A q \in Readers : q # r => reading'[q] = reading[q]
      BY <1>4, <2>1, <2>2
    <2>6. /\ cache' \in [People -> [got : Amount, left : 0 .. n]] /\ cache'[u] = put
          /\ \A w \in People : w # u => cache'[w] = cache[w]
      BY <1>0, <1>1, <2>1, <2>4
    <2>7. reading[r].got.count >= reading[r].least
      <3>1. reading[r].got.count \in Int
        BY <2>3 DEF Amount
      <3> QED BY <1>1, <1>3, <2>3, <3>1
    <2>8. RequestOwn(r)'
      BY <1>1, <2>2, <2>3, <2>5, <2>7 DEF RequestOwn
    <2>9. \A q \in Readers : RequestOwn(q)'
      BY <1>1, <2>5, <2>8, OthersKept
    <2>10. CacheOwn'
      <3>1. ASSUME NEW w \in People
            PROVE  \/ cache'[w] = NoEntry
                   \/ /\ cache'[w].left > 0 /\ cache'[w].got.of = w
                      /\ cache'[w].got.count >= past[w][n - cache'[w].left + 1]
        <4>1. CASE w = u
          <5>1. n - put.left + 1 = 1 /\ put.left > 0
            BY <1>0, <2>4
          <5> QED BY <2>3, <2>4, <2>6, <4>1, <5>1
        <4>2. CASE w # u
          BY <2>6, <4>2 DEF InvoicesInv, CacheOwn
        <4> QED BY <4>1, <4>2
      <3> QED BY <1>1, <3>1 DEF CacheOwn
    <2> QED BY <1>1, <1>2, <2>5, <2>6, <2>9, <2>10 DEF InvoicesInv, InvoicesTyped, PastGrew
  <1> QED BY <1>5, <1>6, <1>7, <1>8

\* Time passes.
LEMMA PassKeeps ==
    ASSUME InvoicesInv, Pass
    PROVE  InvoicesInv'
  <1> DEFINE n == InvoiceTTL
  <1>0. /\ past \in [People -> [Ticks -> Nat]] /\ n \in Nat \ {0}
        /\ billed \in [People -> Nat] /\ cache \in [People -> [got : Amount, left : 0 .. n]]
        /\ UNCHANGED <<customers, billed, reading, matching, open, spend, table>>
        /\ \A r \in Readers : reading[r].at = "idle"
    BY InvoicesAssumption DEF InvoicesInv, InvoicesTyped, Pass
  <1>1. ASSUME NEW u \in People
        PROVE  /\ past'[u] \in [Ticks -> Nat] /\ past'[u][1] = billed[u]
               /\ \A i \in 2 .. n : past'[u][i] = past[u][i - 1]
    <2> DEFINE s == past[u]
               b == billed[u]
               t == past'[u]
               z == SubSeq(s, 1, n - 1)
    <2>1. s \in [1 .. n -> Nat] /\ b \in Nat /\ n \in Nat \ {0}
      BY <1>0 DEF Ticks
    <2>2. t = <<b>> \o z
      BY DEF Pass
    <2> HIDE DEF n, s, b, t
    <2>3. s \in Seq(Nat) /\ Len(s) = n
      BY <2>1
    <2>4. z \in Seq(Nat) /\ Len(z) = n - 1 /\ \A i \in 1 .. n - 1 : z[i] = s[i]
      BY <2>1, <2>3
    <2> HIDE DEF z
    <2>5. <<b>> \in Seq(Nat) /\ Len(<<b>>) = 1 /\ <<b>>[1] = b
      BY <2>1
    <2>6. t \in Seq(Nat) /\ Len(t) = n
      BY <2>1, <2>2, <2>4, <2>5
    <2>7. \A i \in 1 .. n : t[i] = IF i <= 1 THEN <<b>>[i] ELSE z[i - 1]
      BY <2>1, <2>2, <2>4, <2>5
    <2>8. t \in [1 .. n -> Nat]
      BY <2>6
    <2>9. t[1] = b
      BY <2>1, <2>5, <2>7
    <2>10. \A i \in 2 .. n : t[i] = s[i - 1]
      BY <2>1, <2>4, <2>7
    <2> QED BY <2>8, <2>9, <2>10 DEF n, s, b, t, Ticks
  <1>2. past' \in [People -> [Ticks -> Nat]]
    <2>1. past' = [u \in People |-> past'[u]]
      BY DEF Pass
    <2> QED BY <1>1, <2>1
  <1>3. ASSUME NEW u \in People
        PROVE  /\ cache'[u] \in [got : Amount, left : 0 .. n]
               /\ \/ cache'[u] = NoEntry
                  \/ /\ cache[u].left > 1 /\ cache'[u].left = cache[u].left - 1
                     /\ cache'[u].got = cache[u].got
    <2>1. cache'[u] = IF cache[u].left > 1 THEN [cache[u] EXCEPT !.left = @ - 1] ELSE NoEntry
      BY DEF Pass
    <2>2. cache[u] \in [got : Amount, left : 0 .. n]
      BY <1>0
    <2>3. NoEntry \in [got : Amount, left : 0 .. n]
      BY <1>0 DEF NoEntry, Nothing, Amount
    <2>4. CASE cache[u].left > 1
      BY <1>0, <2>1, <2>2, <2>4
    <2>5. CASE ~(cache[u].left > 1)
      BY <2>1, <2>3, <2>5
    <2> QED BY <2>4, <2>5
  <1>4. cache' \in [People -> [got : Amount, left : 0 .. n]]
    <2>1. cache' = [u \in People |-> cache'[u]]
      BY DEF Pass
    <2> QED BY <1>3, <2>1
  <1>5. PastGrew'
    <2>1. ASSUME NEW u \in People, NEW i \in Ticks, NEW k \in Ticks, i <= k
          PROVE  past'[u][k] <= past'[u][i]
      <3>1. /\ past[u] \in [Ticks -> Nat] /\ billed[u] \in Nat /\ past[u][1] <= billed[u]
            /\ \A a, b \in Ticks : a <= b => past[u][b] <= past[u][a]
        BY <1>0 DEF InvoicesInv, PastGrew
      <3>2. i \in 1 .. n /\ k \in 1 .. n
        BY DEF Ticks
      <3>3. CASE i = 1 /\ k = 1
        BY <1>1, <3>1, <3>3
      <3>4. CASE i = 1 /\ k # 1
        <4>1. k - 1 \in Ticks /\ 1 \in Ticks /\ k \in 2 .. n /\ 1 <= k - 1
          BY <1>0, <3>2, <3>4 DEF Ticks
        <4>2. past'[u][k] = past[u][k - 1] /\ past'[u][i] = billed[u]
          BY <1>1, <3>4, <4>1
        <4>3. past[u][k - 1] <= past[u][1] /\ past[u][k - 1] \in Nat /\ past[u][1] \in Nat
          BY <3>1, <4>1
        <4> QED BY <3>1, <4>2, <4>3
      <3>5. CASE i # 1
        <4>1. k - 1 \in Ticks /\ i - 1 \in Ticks /\ k \in 2 .. n /\ i \in 2 .. n /\ i - 1 <= k - 1
          BY <1>0, <2>1, <3>2, <3>5 DEF Ticks
        <4>2. past'[u][k] = past[u][k - 1] /\ past'[u][i] = past[u][i - 1]
          BY <1>1, <4>1
        <4> QED BY <3>1, <4>1, <4>2
      <3> QED BY <3>3, <3>4, <3>5
    <2>2. \A u \in People : past'[u][1] <= billed'[u]
      BY <1>0, <1>1
    <2> QED BY <2>1, <2>2 DEF PastGrew
  <1>6. CacheOwn'
    <2>1. ASSUME NEW u \in People, cache'[u] # NoEntry
          PROVE  /\ cache'[u].left > 0 /\ cache'[u].got.of = u
                 /\ cache'[u].got.count >= past'[u][n - cache'[u].left + 1]
      <3>1. cache[u].left > 1 /\ cache'[u].left = cache[u].left - 1 /\ cache'[u].got = cache[u].got
        BY <1>3, <2>1
      <3>2. cache[u].left \in 0 .. n
        BY <1>0
      <3>3. cache[u].got.of = u /\ cache[u].got.count >= past[u][n - cache[u].left + 1]
        BY <3>1, <3>2 DEF InvoicesInv, CacheOwn, NoEntry
      <3>4. /\ n - cache'[u].left + 1 \in 2 .. n
            /\ (n - cache'[u].left + 1) - 1 = n - cache[u].left + 1
        BY <1>0, <3>1, <3>2
      <3>5. past'[u][n - cache'[u].left + 1] = past[u][n - cache[u].left + 1]
        BY <1>1, <3>4
      <3> QED BY <3>1, <3>2, <3>3, <3>5
    <2> QED BY <2>1 DEF CacheOwn
  <1>7. (\A r \in Readers : RequestOwn(r)') /\ PagesOwn'
    BY <1>0 DEF RequestOwn, InvoicesInv, PagesOwn
  <1> QED BY <1>0, <1>2, <1>4, <1>5, <1>6, <1>7 DEF InvoicesInv, InvoicesTyped

\* A customer, or an invoice, more.
LEMMA StripeKeeps ==
    ASSUME InvoicesInv, NEW u \in People, Registered(u) \/ Billed(u)
    PROVE  InvoicesInv'
  <1>0. /\ UNCHANGED <<past, cache, reading, matching, open, spend, table>>
        /\ reading \in [Readers -> Reading] /\ billed \in [People -> Nat] /\ customers' \in SUBSET People
        /\ past \in [People -> [Ticks -> Nat]] /\ InvoiceTTL \in Nat \ {0}
    BY InvoicesAssumption DEF Registered, Billed, OnlyStripe, InvoicesInv, InvoicesTyped
  <1>1. \A r \in Readers : RequestOwn(r)'
    BY <1>0 DEF RequestOwn, InvoicesInv
  <1>2. PagesOwn'
    BY <1>0 DEF PagesOwn, InvoicesInv
  <1>3. CASE Registered(u)
    BY <1>0, <1>1, <1>2, <1>3, InvoicesFrame DEF Registered, InvoicesInv, InvoicesTyped
  <1>4. CASE Billed(u)
    <2>1. /\ billed' \in [People -> Nat]
          /\ \A w \in People : billed'[w] >= billed[w] /\ billed[w] \in Nat /\ billed'[w] \in Nat
      BY <1>0, <1>4 DEF Billed
    <2>2. \A w \in People : past[w][1] \in Nat
      BY <1>0 DEF Ticks
    <2>3. \A w \in People : past[w][1] <= billed'[w]
      BY <2>1, <2>2 DEF InvoicesInv, PastGrew
    <2> QED BY <1>0, <1>1, <1>2, <2>1, <2>3 DEF InvoicesInv, InvoicesTyped, PastGrew, CacheOwn
  <1> QED BY <1>3, <1>4

\* The list of users: its rows are rendered anew, or stay.
LEMMA ListKeeps ==
    ASSUME InvoicesInv,
           \/ \E u \in People : ListUser(u) \/ Expand(u)
           \/ \E found \in SUBSET People : Search(found)
           \/ Reload \/ SpendNothing
    PROVE  InvoicesInv'
  <1>0. /\ UNCHANGED <<customers, billed, past, cache, table>> /\ customers \in SUBSET People
        /\ reading \in [Readers -> Reading] /\ matching \in SUBSET People
        /\ \A r \in Readers : RequestOwn(r)
    BY DEF ListUser, Expand, Search, Reload, SpendNothing, OnlyList, InvoicesInv, InvoicesTyped
  <1>1. CASE \E u \in People : Expand(u)
    <2>1. reading' = Unmounted /\ spend' = Nothing /\ matching' = matching
      BY <1>1 DEF Expand
    <2>2. PagesOwn'
      BY <1>0, <2>1 DEF PagesOwn, InvoicesInv
    <2> QED BY <1>0, <2>1, <2>2, LeftBehind, InvoicesFrame
  <1>2. CASE Reload
    <2>1. reading' = Unmounted /\ spend' = Nothing /\ matching' = People
      BY <1>2 DEF Reload
    <2>2. PagesOwn'
      BY <1>0, <2>1 DEF PagesOwn, InvoicesInv
    <2> QED BY <1>0, <2>1, <2>2, LeftBehind, InvoicesFrame
  <1>3. CASE (\E u \in People : ListUser(u)) \/ SpendNothing
    <2>1. UNCHANGED <<reading, matching, open>> /\ (spend' = spend \/ (spend' = Empty /\ open \in matching))
      BY <1>3 DEF ListUser, SpendNothing, CanFetch
    <2>2. PagesOwn'
      BY <1>0, <2>1 DEF PagesOwn, InvoicesInv
    <2>3. \A q \in Readers : RequestOwn(q)'
      BY <1>0, <2>1, RequestKept
    <2> QED BY <1>0, <2>1, <2>2, <2>3, InvoicesFrame
  <1>4. ASSUME NEW found \in SUBSET People, Search(found) PROVE InvoicesInv'
    <2>1. matching' = found /\ open' = open /\ Rematched(found)
      BY <1>4 DEF Search
    <2>2. CASE (open \in found) = (open \in matching)
      <3>1. UNCHANGED <<reading, spend>> /\ (open \in matching => open \in matching')
        BY <2>1, <2>2 DEF Rematched
      <3>2. PagesOwn'
        BY <1>0, <2>1, <3>1 DEF PagesOwn, InvoicesInv
      <3>3. \A q \in Readers : RequestOwn(q)'
        BY <1>0, <2>1, <3>1, RequestKept
      <3> QED BY <1>0, <2>1, <3>1, <3>2, <3>3, InvoicesFrame
    <2>3. CASE (open \in found) # (open \in matching)
      <3>1. reading' = Unmounted /\ spend' = Nothing
        BY <2>1, <2>3 DEF Rematched
      <3>2. PagesOwn'
        BY <1>0, <3>1 DEF PagesOwn, InvoicesInv
      <3> QED BY <1>0, <2>1, <3>1, <3>2, LeftBehind, InvoicesFrame
    <2> QED BY <2>2, <2>3
  <1> QED BY <1>1, <1>2, <1>3, <1>4

\* An answer arrives, at its row, at none, or at the billing page.
LEMMA AnswerKeeps ==
    ASSUME InvoicesInv, NEW r \in Readers, SpendAnswered(r) \/ ShowTable(r)
    PROVE  InvoicesInv'
  <1>0. /\ UNCHANGED <<customers, billed, past, cache, matching, open>>
        /\ customers \in SUBSET People /\ matching \in SUBSET People
        /\ reading \in [Readers -> Reading] /\ RequestOwn(r)
        /\ reading' = [reading EXCEPT ![r] = NoReader]
        /\ reading[r].at \in {"done", "failed"} /\ reading[r].at # "idle"
    BY DEF SpendAnswered, ShowTable, OnlyList, OnlyTable, InvoicesInv, InvoicesTyped
  <1>1. NoReader \in Reading /\ NoReader.at = "idle"
    BY DEF NoReader, Reading, Amount, Nothing
  <1>2. /\ reading' \in [Readers -> Reading] /\ reading'[r] = NoReader
        /\ \A q \in Readers : q # r => reading'[q] = reading[q]
    BY <1>0, <1>1
  <1>3. RequestOwn(r)'
    BY <1>1, <1>2 DEF RequestOwn
  <1>4. \A q \in Readers : RequestOwn(q)'
    BY <1>0, <1>2, <1>3, OthersKept
  <1>5. PagesOwn'
    <2>1. CASE SpendAnswered(r) /\ reading[r].by = "row"
      <3>1. spend' = TotalInvoiced(r) /\ table' = table /\ open \in matching /\ reading[r].user = open
        BY <1>0, <2>1 DEF SpendAnswered, OnlyList, RequestOwn
      <3>2. TotalInvoiced(r) = Empty \/ TotalInvoiced(r).of = open
        BY <1>0, <3>1 DEF TotalInvoiced, RequestOwn
      <3> QED BY <1>0, <3>1, <3>2 DEF PagesOwn, InvoicesInv
    <2>2. CASE SpendAnswered(r) /\ reading[r].by # "row"
      BY <1>0, <2>2 DEF SpendAnswered, OnlyList, PagesOwn, InvoicesInv
    <2>3. CASE ShowTable(r)
      <3>1. table' = reading[r].got /\ spend' = spend /\ reading[r].user = Me
        BY <1>0, <2>3 DEF ShowTable, OnlyTable, RequestOwn
      <3>2. reading[r].got.of \in {Me, NoOne}
        BY <1>0, <3>1 DEF RequestOwn, Nothing
      <3> QED BY <1>0, <3>1, <3>2 DEF PagesOwn, InvoicesInv
    <2> QED BY <2>1, <2>2, <2>3
  <1> QED BY <1>0, <1>2, <1>4, <1>5, InvoicesFrame

\* One lemma for all the steps.
LEMMA InvoicesStep ==
    ASSUME InvoicesInv, InvoicesNext
    PROVE  InvoicesInv'
  <1>1. ASSUME NEW r \in Readers, FetchSpend(r) PROVE InvoicesInv'
    <2>1. /\ Ask(r, open, "row") /\ open \in matching /\ open \in People
          /\ UNCHANGED <<billed, past, cache, customers, matching, open, spend, table>>
      BY <1>1 DEF FetchSpend, CanFetch, InvoicesInv, InvoicesTyped
    <2>2. PagesOwn'
      BY <2>1 DEF PagesOwn, InvoicesInv
    <2> QED BY <2>1, <2>2, AskKeeps
  <1>2. ASSUME NEW r \in Readers, OpenInvoices(r) PROVE InvoicesInv'
    <2>0. UNCHANGED <<customers, billed, past, cache, matching, open, spend>> /\ Me \in People
      BY <1>2, PeopleAssumption DEF OpenInvoices, OnlyTable
    <2>1. CASE Me \in customers
      <3>1. Ask(r, Me, "page") /\ table' = table
        BY <1>2, <2>1 DEF OpenInvoices
      <3>2. PagesOwn'
        BY <2>0, <3>1 DEF PagesOwn, InvoicesInv
      <3> QED BY <2>0, <3>1, <3>2, AskKeeps
    <2>2. CASE Me \notin customers
      <3>1. table' = Empty /\ reading' = reading
        BY <1>2, <2>2 DEF OpenInvoices
      <3>2. PagesOwn'
        BY <2>0, <3>1 DEF PagesOwn, InvoicesInv, Empty
      <3>3. \A q \in Readers : RequestOwn(q)'
        BY <2>0, <3>1, RequestKept DEF InvoicesInv, InvoicesTyped
      <3> QED BY <2>0, <3>1, <3>2, <3>3, InvoicesFrame DEF InvoicesInv, InvoicesTyped
    <2> QED BY <2>1, <2>2
  <1>3. ASSUME CloseTable PROVE InvoicesInv'
    <2>1. UNCHANGED <<customers, billed, past, cache, matching, open, spend, reading>> /\ table' = Nothing
      BY <1>3 DEF CloseTable, OnlyTable
    <2>2. PagesOwn'
      BY <2>1 DEF PagesOwn, InvoicesInv, Nothing
    <2>3. \A q \in Readers : RequestOwn(q)'
      BY <2>1, RequestKept DEF InvoicesInv, InvoicesTyped
    <2> QED BY <2>1, <2>2, <2>3, InvoicesFrame DEF InvoicesInv, InvoicesTyped
  <1>4. ASSUME NEW r \in Readers, ReadCached(r) \/ FetchInvoices(r) \/ FillCached(r) \/ ReadFails(r)
        PROVE  InvoicesInv'
    BY <1>4, ServerKeeps
  <1>5. ASSUME NEW r \in Readers, SpendAnswered(r) \/ ShowTable(r) PROVE InvoicesInv'
    BY <1>5, AnswerKeeps
  <1>6. ASSUME NEW u \in People, Registered(u) \/ Billed(u) PROVE InvoicesInv'
    BY <1>6, StripeKeeps
  <1>7. ASSUME Pass PROVE InvoicesInv'
    BY <1>7, PassKeeps
  <1>8. ASSUME \/ \E u \in People : ListUser(u) \/ Expand(u)
               \/ \E found \in SUBSET People : Search(found)
               \/ Reload \/ SpendNothing
        PROVE  InvoicesInv'
    BY <1>8, ListKeeps
  <1> QED BY InvoicesNext, <1>1, <1>2, <1>3, <1>4, <1>5, <1>6, <1>7, <1>8 DEF InvoicesNext

\* Nobody is a customer yet.
LEMMA InvoicesStarted ==
    ASSUME InvoicesInit
    PROVE  InvoicesInv
  <1>0. InvoiceTTL \in Nat \ {0}
    BY InvoicesAssumption
  <1>1. InvoicesTyped
    <2>1. NoEntry \in [got : Amount, left : 0 .. InvoiceTTL] /\ NoReader \in Reading
      BY <1>0 DEF NoEntry, NoReader, Nothing, Amount, Reading
    <2> QED BY <2>1 DEF InvoicesInit, InvoicesTyped, Ticks
  <1>2. PastGrew
    BY <1>0 DEF InvoicesInit, PastGrew, Ticks
  <1>3. CacheOwn
    BY DEF InvoicesInit, CacheOwn
  <1>4. \A r \in Readers : RequestOwn(r)
    BY DEF InvoicesInit, RequestOwn, NoReader
  <1>5. PagesOwn
    BY DEF InvoicesInit, PagesOwn, Nothing
  <1> QED BY <1>1, <1>2, <1>3, <1>4, <1>5 DEF InvoicesInv

\* Every answer of the spend route and of the billing page has the invoices of the
\* user it was asked for, no older than the cache's five minutes, and is shown in
\* his row or to himself, through searches, other rows and late answers
\* (billing-stripe.ts, admin-user-search.tsx, invoice-table.tsx).
THEOREM InvoicesAreOwn == Spec => []InvoicesOwn
  <1>1. Init => InvoicesInv
    BY InvoicesStarted DEF Init
  <1>2. ASSUME InvoicesInv, [Next]_billingVars PROVE InvoicesInv'
    <2>1. CASE InvoicesNext
      BY <1>2, <2>1, InvoicesStep
    <2>2. CASE UNCHANGED invoiceVars
      <3>1. UNCHANGED <<customers, billed, past, cache, reading, matching, open, spend, table>>
        BY <2>2 DEF invoiceVars
      <3>2. \A q \in Readers : RequestOwn(q)'
        BY <1>2, <3>1, RequestKept DEF InvoicesInv, InvoicesTyped
      <3>3. PagesOwn'
        BY <1>2, <3>1 DEF PagesOwn, InvoicesInv
      <3> QED BY <1>2, <3>1, <3>2, <3>3, InvoicesFrame DEF InvoicesInv, InvoicesTyped
    <2> QED BY <1>2, <2>1, <2>2 DEF Next, billingVars
  <1>3. InvoicesInv => InvoicesOwn
    BY DEF InvoicesInv, RequestOwn, PagesOwn, InvoicesOwn
  <1> QED BY <1>1, <1>2, <1>3, PTL DEF Spec

-----------------------------------------------------------------------------
(* The administrators' overview.                                           *)

JobRow == [today : BOOLEAN, status : {"none", "processing", "ok", "error"}]

View == [queue : {"no", "length", "pending", "oldest", "end"}, tables : {"no", "jobs", "end"},
         length : Nat, inFlight : Nat, oldest : Nat, counted : SUBSET Queued, errors : Nat,
         noQueue : BOOLEAN, noTables : BOOLEAN, before : SUBSET Queued, failedBefore : SUBSET Queued]

OverviewTyped ==
    /\ row \in [Queued -> JobRow]
    /\ stream \in Seq(Queued)
    /\ entry \in [Queued -> {"none", "waiting", "pending", "acked", "lost"}]
    /\ waited \in SUBSET Queued
    /\ view \in View

\* A job that waits, or is pending, is in the stream and its row says processing;
\* what waited since the load began waits still.
QueueKept ==
    /\ waited \subseteq InEntry("waiting")
    /\ \A j \in Queued :
          /\ entry[j] = "waiting" => \E i \in DOMAIN stream : stream[i] = j
          /\ entry[j] \in {"waiting", "pending"} => row[j].status = "processing"

\* The length once it is read, and the oldest once it is, cover what waited.
LengthCovers ==
    view.queue \in {"pending", "oldest", "end"} /\ ~view.noQueue => view.length >= Cardinality(waited)

OldestCovers ==
    view.queue = "end" /\ ~view.noQueue =>
        \A i \in DOMAIN stream : stream[i] \in waited => \E k \in 1 .. i : stream[k] = view.oldest

\* The jobs and errors that were there are counted as the listing comes to them.
CountsCover ==
    /\ view.failedBefore \subseteq view.before
    /\ \A j \in view.failedBefore : row[j].status = "error"
    /\ view.errors >= Cardinality(view.failedBefore \cap view.counted)
    /\ view.errors <= Cardinality(view.counted)
    /\ view.tables = "end" /\ ~view.noTables => view.before \subseteq view.counted

OverviewInv == OverviewTyped /\ QueueKept /\ LengthCovers /\ OldestCovers /\ CountsCover

\* Sets of jobs are finite, and a subset has no more than its set.
LEMMA JobSets ==
    /\ \A S \in SUBSET Queued : IsFiniteSet(S) /\ Cardinality(S) \in Nat
    /\ \A S \in SUBSET Queued : \A T \in SUBSET S : Cardinality(T) <= Cardinality(S)
  <1>1. IsFiniteSet(Queued)
    BY OverviewAssumption, FS_Interval DEF Queued
  <1>2. ASSUME NEW S \in SUBSET Queued PROVE IsFiniteSet(S) /\ Cardinality(S) \in Nat
    BY <1>1, FS_Subset, FS_CardinalityType
  <1>3. ASSUME NEW S \in SUBSET Queued, NEW T \in SUBSET S PROVE Cardinality(T) <= Cardinality(S)
    BY <1>2, FS_Subset
  <1> QED BY <1>2, <1>3

\* A job more.
LEMMA JobAdded ==
    ASSUME NEW S \in SUBSET Queued, NEW j \in Queued, j \notin S
    PROVE  Cardinality(S \cup {j}) = Cardinality(S) + 1
  BY JobSets, FS_AddElement

\* A stream is at least as long as it has jobs.
LEMMA StreamLongEnough ==
    ASSUME NEW s \in Seq(Queued), NEW S \in SUBSET Queued,
           \A j \in S : \E i \in DOMAIN s : s[i] = j
    PROVE  Len(s) >= Cardinality(S)
  <1> DEFINE f == [j \in S |-> CHOOSE i \in DOMAIN s : s[i] = j]
             n == Len(s)
  <1>1. n \in Nat /\ DOMAIN s = 1 .. n
    OBVIOUS
  <1>2. \A j \in S : f[j] \in 1 .. n /\ s[f[j]] = j
    BY <1>1
  <1>3. f \in [S -> 1 .. n]
    BY <1>2
  <1>4. IsFiniteSet(1 .. n) /\ Cardinality(1 .. n) = n
    BY <1>1, FS_Interval
  <1>5. IsFiniteSet(S) /\ Cardinality(S) \in Nat
    BY JobSets
  <1> HIDE DEF f, n
  <1> DEFINE T == 1 .. n
  <1>6. f \in Injection(S, T)
    BY <1>2, <1>3 DEF Injection, IsInjective
  <1> HIDE DEF T
  <1>7. Cardinality(S) <= Cardinality(T)
    <2>1. IsFiniteSet(T)
      BY <1>4 DEF T
    <2> QED BY <1>6, <2>1, FS_Injection
  <1> QED BY <1>1, <1>4, <1>7 DEF n, T

\* The gateway and the workers.
LEMMA QueueStep ==
    ASSUME OverviewInv,
           \/ \E j \in Queued : Recorded(j) \/ Enqueued(j) \/ Taken(j) \/ Acknowledged(j)
           \/ Lost \/ GroupEnsured
    PROVE  OverviewInv'
  <1>0. /\ row \in [Queued -> JobRow] /\ stream \in Seq(Queued) /\ waited \in SUBSET Queued
        /\ entry \in [Queued -> {"none", "waiting", "pending", "acked", "lost"}]
        /\ view \in View /\ view' = view
        /\ view.failedBefore \in SUBSET Queued
    BY DEF OverviewInv, OverviewTyped, View, OnlyJobs, Recorded, Enqueued, Taken, Acknowledged, Lost, GroupEnsured
  <1>1. ASSUME waited' \subseteq waited PROVE LengthCovers'
    <2>1. /\ Cardinality(waited') <= Cardinality(waited)
          /\ Cardinality(waited) \in Nat /\ Cardinality(waited') \in Nat
      BY <1>0, <1>1, JobSets
    <2>2. view.length \in Nat
      BY <1>0 DEF View
    <2> QED BY <1>0, <2>1, <2>2 DEF OverviewInv, LengthCovers
  <1>2. ASSUME \A j \in Queued : row[j].status = "error" => row'[j].status = "error" PROVE CountsCover'
    BY <1>0, <1>2 DEF OverviewInv, CountsCover
  <1>3. ASSUME stream' = stream, waited' \subseteq waited PROVE OldestCovers'
    BY <1>0, <1>3 DEF OverviewInv, OldestCovers
  <1>4. ASSUME NEW j \in Queued, Recorded(j) PROVE OverviewInv'
    <2>1. /\ UNCHANGED <<stream, entry, waited>> /\ row[j].status = "none"
          /\ \E today \in BOOLEAN : row' = [row EXCEPT ![j] = [today |-> today, status |-> "processing"]]
      BY <1>4 DEF Recorded
    <2>2. /\ row' \in [Queued -> JobRow] /\ row'[j].status = "processing"
          /\ \A i \in Queued : i # j => row'[i] = row[i]
      BY <1>0, <2>1 DEF JobRow
    <2>3. QueueKept'
      BY <2>1, <2>2 DEF OverviewInv, QueueKept, InEntry
    <2> QED BY <1>0, <1>1, <1>2, <1>3, <2>1, <2>2, <2>3 DEF OverviewInv, OverviewTyped
  <1>5. ASSUME NEW j \in Queued, Enqueued(j) PROVE OverviewInv'
    <2>1. /\ UNCHANGED <<row, waited>> /\ row[j].status = "processing" /\ entry[j] = "none"
          /\ stream' = Append(stream, j) /\ entry' = [entry EXCEPT ![j] = "waiting"]
      BY <1>5 DEF Enqueued
    <2>2. /\ stream' \in Seq(Queued) /\ DOMAIN stream' = 1 .. Len(stream) + 1 /\ DOMAIN stream = 1 .. Len(stream)
          /\ Len(stream) \in Nat /\ stream'[Len(stream) + 1] = j
          /\ \A i \in DOMAIN stream : i \in DOMAIN stream' /\ stream'[i] = stream[i]
      BY <1>0, <2>1
    <2>3. /\ entry' \in [Queued -> {"none", "waiting", "pending", "acked", "lost"}]
          /\ entry'[j] = "waiting" /\ \A i \in Queued : i # j => entry'[i] = entry[i]
      BY <1>0, <2>1
    <2>4. j \notin waited
      BY <2>1 DEF OverviewInv, QueueKept, InEntry
    <2>5. QueueKept'
      <3>1. ASSUME NEW i \in Queued, entry'[i] = "waiting" PROVE \E k \in DOMAIN stream' : stream'[k] = i
        <4>1. CASE i = j
          BY <2>2, <4>1
        <4>2. CASE i # j
          <5>1. PICK k \in DOMAIN stream : stream[k] = i
            BY <2>3, <3>1, <4>2 DEF OverviewInv, QueueKept
          <5> QED BY <2>2, <5>1
        <4> QED BY <4>1, <4>2
      <3>2. \A i \in Queued : entry'[i] \in {"waiting", "pending"} => row'[i].status = "processing"
        BY <2>1, <2>3 DEF OverviewInv, QueueKept
      <3>3. waited' \subseteq {i \in Queued : entry'[i] = "waiting"}
        BY <2>1, <2>3 DEF OverviewInv, QueueKept, InEntry
      <3> QED BY <3>1, <3>2, <3>3 DEF QueueKept, InEntry
    <2>6. OldestCovers'
      <3>1. ASSUME view.queue = "end", ~view.noQueue, NEW i \in DOMAIN stream', stream'[i] \in waited
            PROVE  \E k \in 1 .. i : stream'[k] = view.oldest
        <4>1. i \in DOMAIN stream /\ stream[i] \in waited
          BY <2>2, <2>4, <3>1
        <4>2. PICK k \in 1 .. i : stream[k] = view.oldest
          BY <3>1, <4>1 DEF OverviewInv, OldestCovers
        <4>3. k \in DOMAIN stream
          BY <2>2, <4>1
        <4> QED BY <2>2, <4>2, <4>3
      <3> QED BY <1>0, <2>1, <3>1 DEF OldestCovers
    <2> QED BY <1>0, <1>1, <1>2, <2>1, <2>2, <2>3, <2>5, <2>6 DEF OverviewInv, OverviewTyped
  <1>6. ASSUME NEW j \in Queued, Taken(j) PROVE OverviewInv'
    <2>1. /\ UNCHANGED <<row, stream>> /\ entry[j] = "waiting"
          /\ entry' = [entry EXCEPT ![j] = "pending"] /\ waited' = waited \ {j}
      BY <1>6 DEF Taken
    <2>2. /\ entry' \in [Queued -> {"none", "waiting", "pending", "acked", "lost"}]
          /\ entry'[j] = "pending" /\ \A i \in Queued : i # j => entry'[i] = entry[i]
      BY <1>0, <2>1
    <2>3. QueueKept'
      BY <2>1, <2>2 DEF OverviewInv, QueueKept, InEntry
    <2> QED BY <1>0, <1>1, <1>2, <1>3, <2>1, <2>2, <2>3 DEF OverviewInv, OverviewTyped
  <1>7. ASSUME NEW j \in Queued, Acknowledged(j) PROVE OverviewInv'
    <2>1. /\ UNCHANGED <<stream, waited>> /\ entry[j] = "pending"
          /\ entry' = [entry EXCEPT ![j] = "acked"]
          /\ \E s \in {"ok", "error"} : row' = [row EXCEPT ![j].status = s]
      BY <1>7 DEF Acknowledged
    <2>2. /\ entry' \in [Queued -> {"none", "waiting", "pending", "acked", "lost"}]
          /\ entry'[j] = "acked" /\ \A i \in Queued : i # j => entry'[i] = entry[i]
      BY <1>0, <2>1
    <2>3. row' \in [Queued -> JobRow] /\ \A i \in Queued : i # j => row'[i] = row[i]
      BY <1>0, <2>1 DEF JobRow
    <2>4. row[j].status = "processing" /\ j \notin waited
      BY <2>1 DEF OverviewInv, QueueKept, InEntry
    <2>5. QueueKept'
      BY <2>1, <2>2, <2>3, <2>4 DEF OverviewInv, QueueKept, InEntry
    <2> QED BY <1>0, <1>1, <1>2, <1>3, <2>1, <2>2, <2>3, <2>4, <2>5 DEF OverviewInv, OverviewTyped
  <1>8. CASE Lost
    <2>1. /\ UNCHANGED row /\ stream' = <<>> /\ waited' = {}
          /\ entry' = [j \in Queued |-> IF entry[j] = "none" THEN "none" ELSE "lost"]
      BY <1>8 DEF Lost
    <2>2. stream' \in Seq(Queued) /\ DOMAIN stream' = {}
      BY <2>1
    <2>3. /\ entry' \in [Queued -> {"none", "waiting", "pending", "acked", "lost"}]
          /\ \A i \in Queued : entry'[i] \notin {"waiting", "pending"}
      BY <2>1
    <2>4. QueueKept'
      BY <2>1, <2>3 DEF QueueKept, InEntry
    <2>5. OldestCovers'
      BY <2>2 DEF OldestCovers
    <2> QED BY <1>0, <1>1, <1>2, <2>1, <2>2, <2>3, <2>4, <2>5 DEF OverviewInv, OverviewTyped
  <1>9. CASE GroupEnsured
    BY <1>9 DEF GroupEnsured, OnlyJobs, OverviewInv, OverviewTyped, QueueKept, LengthCovers,
                OldestCovers, CountsCover, InEntry
  <1> QED BY <1>4, <1>5, <1>6, <1>7, <1>8, <1>9

\* A step of the page that reads nothing of the queue and counts nothing.
LEMMA ViewFrame ==
    ASSUME OverviewInv, UNCHANGED <<row, stream, entry, waited>>, view' \in View,
           LengthCovers', OldestCovers', CountsCover'
    PROVE  OverviewInv'
  BY DEF OverviewInv, OverviewTyped, QueueKept, InEntry

\* The page is opened.
LEMMA OpenKeeps ==
    ASSUME OverviewInv, OpenOverview
    PROVE  OverviewInv'
  <1> DEFINE any == OfToday(AnyStatus)
             bad == OfToday({"error"})
  <1>0. UNCHANGED <<row, stream, entry>> /\ waited' = InEntry("waiting")
    BY DEF OpenOverview
  <1>1. /\ any \in SUBSET Queued /\ bad \in SUBSET Queued /\ bad \subseteq any
        /\ \A j \in bad : row[j].status = "error"
    BY DEF OfToday, AnyStatus
  <1>2. view' = [NotViewed EXCEPT !.queue = "length", !.tables = "jobs", !.before = any, !.failedBefore = bad]
    BY DEF OpenOverview
  <1> HIDE DEF any, bad
  <1>3. /\ view' \in View /\ view'.queue = "length" /\ view'.tables = "jobs" /\ view'.counted = {}
        /\ view'.errors = 0 /\ view'.failedBefore = bad /\ view'.before = any
    BY <1>1, <1>2 DEF NotViewed, View
  <1>4. Cardinality({}) = 0
    BY FS_EmptySet
  <1>5. view'.failedBefore \cap view'.counted = {}
    BY <1>3
  <1>6. CountsCover'
    BY <1>0, <1>1, <1>3, <1>4, <1>5 DEF CountsCover
  <1>7. QueueKept' /\ waited' \in SUBSET Queued
    BY <1>0 DEF OverviewInv, QueueKept, InEntry
  <1>8. LengthCovers' /\ OldestCovers'
    BY <1>3 DEF LengthCovers, OldestCovers
  <1> QED BY <1>0, <1>3, <1>6, <1>7, <1>8 DEF OverviewInv, OverviewTyped

\* The half of the page that reads Redis.
LEMMA QueueHalf ==
    ASSUME OverviewInv, ReadLength \/ ReadPending \/ ReadOldest \/ QueueReadFails
    PROVE  OverviewInv'
  <1>0. /\ UNCHANGED <<row, stream, entry, waited>> /\ view \in View
        /\ stream \in Seq(Queued) /\ waited \in SUBSET Queued
    BY DEF ReadLength, ReadPending, ReadOldest, QueueReadFails, OnlyView, OverviewInv, OverviewTyped
  <1> DEFINE Counts == UNCHANGED <<view.counted, view.errors, view.before, view.failedBefore,
                                   view.tables, view.noTables>>
  <1>1. Counts => CountsCover'
    BY <1>0 DEF OverviewInv, CountsCover
  <1>2. CASE ReadLength
    <2>1. view' = [view EXCEPT !.queue = "pending", !.length = Len(stream)] /\ Len(stream) \in Nat
      BY <1>0, <1>2 DEF ReadLength
    <2>2. view' \in View /\ view'.queue = "pending" /\ view'.length = Len(stream) /\ Counts
      BY <1>0, <2>1 DEF View
    <2>3. Len(stream) >= Cardinality(waited)
      <3>1. \A j \in waited : \E i \in DOMAIN stream : stream[i] = j
        BY DEF OverviewInv, QueueKept, InEntry
      <3> QED BY <1>0, <3>1, StreamLongEnough
    <2>4. LengthCovers' /\ OldestCovers'
      BY <1>0, <2>2, <2>3 DEF LengthCovers, OldestCovers
    <2> QED BY <1>0, <1>1, <2>2, <2>4, ViewFrame
  <1>3. CASE ReadPending
    <2>1. PICK n \in Nat : view' = [view EXCEPT !.queue = "oldest", !.inFlight = n]
      <3>1. InEntry("pending") \in SUBSET Queued
        BY DEF InEntry
      <3>2. Cardinality(InEntry("pending")) \in Nat
        BY <3>1, JobSets
      <3> QED BY <1>3, <3>2 DEF ReadPending
    <2>2. /\ view' \in View /\ view'.queue = "oldest" /\ view'.length = view.length
          /\ view'.noQueue = view.noQueue /\ Counts
      BY <1>0, <2>1 DEF View
    <2>3. LengthCovers' /\ OldestCovers'
      BY <1>0, <1>3, <2>2 DEF ReadPending, LengthCovers, OldestCovers, OverviewInv
    <2> QED BY <1>0, <1>1, <2>2, <2>3, ViewFrame
  <1>4. CASE ReadOldest
    <2>1. view' = [view EXCEPT !.queue = "end", !.oldest = FirstEntry] /\ view.queue = "oldest"
      BY <1>4 DEF ReadOldest
    <2>2. FirstEntry \in Nat /\ (\A i \in DOMAIN stream : i >= 1 /\ stream[1] = FirstEntry)
      <3>1. CASE stream = <<>>
        BY <3>1 DEF FirstEntry
      <3>2. CASE stream # <<>>
        <4>1. 1 \in DOMAIN stream /\ stream[1] \in Queued /\ \A i \in DOMAIN stream : i >= 1
          BY <1>0, <3>2
        <4> QED BY <3>2, <4>1, OverviewAssumption DEF FirstEntry, Queued
      <3> QED BY <3>1, <3>2
    <2>3. /\ view' \in View /\ view'.queue = "end" /\ view'.oldest = FirstEntry /\ view'.length = view.length
          /\ view'.noQueue = view.noQueue /\ Counts
      BY <1>0, <2>1, <2>2 DEF View
    <2>4. OldestCovers'
      <3>1. ASSUME NEW i \in DOMAIN stream PROVE \E k \in 1 .. i : stream[k] = view'.oldest
        <4>1. i \in Nat /\ i >= 1 /\ stream[1] = view'.oldest
          BY <1>0, <2>2, <2>3, <3>1
        <4> QED BY <4>1
      <3> QED BY <1>0, <3>1 DEF OldestCovers
    <2>5. LengthCovers'
      BY <1>0, <2>1, <2>3 DEF LengthCovers, OverviewInv
    <2> QED BY <1>0, <1>1, <2>3, <2>4, <2>5, ViewFrame
  <1>5. CASE QueueReadFails
    <2>1. PICK q \in {"pending", "oldest", "end"} : view' = [view EXCEPT !.queue = q, !.noQueue = TRUE]
      BY <1>0, <1>5 DEF QueueReadFails
    <2>2. view' \in View /\ view'.noQueue = TRUE /\ Counts
      BY <1>0, <2>1 DEF View
    <2>3. LengthCovers' /\ OldestCovers'
      BY <2>2 DEF LengthCovers, OldestCovers
    <2> QED BY <1>0, <1>1, <2>2, <2>3, ViewFrame
  <1> QED BY <1>2, <1>3, <1>4, <1>5

\* The half that lists the table.
LEMMA TablesHalf ==
    ASSUME OverviewInv, (\E j \in Queued : CountRow(j)) \/ ListingEnds \/ ListingFails
    PROVE  OverviewInv'
  <1>0. /\ UNCHANGED <<row, stream, entry, waited>> /\ view \in View
    BY DEF CountRow, ListingEnds, ListingFails, OnlyView, OverviewInv, OverviewTyped
  <1>1. /\ view.counted \in SUBSET Queued /\ view.failedBefore \in SUBSET Queued /\ view.errors \in Nat
        /\ Cardinality(view.counted) \in Nat
    BY <1>0, JobSets DEF View
  <1> DEFINE Queue == UNCHANGED <<view.queue, view.length, view.oldest, view.noQueue>>
  <1>2. Queue => LengthCovers' /\ OldestCovers'
    BY <1>0 DEF OverviewInv, LengthCovers, OldestCovers
  <1>3. ASSUME NEW j \in Queued, CountRow(j) PROVE OverviewInv'
    <2> DEFINE more == IF row[j].status = "error" THEN view.errors + 1 ELSE view.errors
    <2>1. /\ view' = [view EXCEPT !.counted = view.counted \cup {j}, !.errors = more]
          /\ view.tables = "jobs" /\ j \notin view.counted
      BY <1>0, <1>3 DEF CountRow, View
    <2>2. /\ more \in Nat /\ more >= view.errors /\ more <= view.errors + 1
          /\ (row[j].status = "error" => more = view.errors + 1)
      BY <1>1
    <2> HIDE DEF more
    <2>3. /\ view' \in View /\ view'.counted = view.counted \cup {j} /\ view'.errors = more /\ view'.tables = "jobs"
          /\ UNCHANGED <<view.before, view.failedBefore, view.noTables>> /\ Queue
      BY <1>0, <1>1, <2>1, <2>2 DEF View
    <2>4. Cardinality(view'.counted) = Cardinality(view.counted) + 1
      BY <1>1, <2>1, <2>3, JobAdded
    <2>5. more >= Cardinality(view.failedBefore \cap (view.counted \cup {j}))
      <3> DEFINE S == view.failedBefore \cap view.counted
      <3>1. S \in SUBSET Queued /\ Cardinality(S) \in Nat /\ view.errors >= Cardinality(S) /\ j \notin S
        BY <1>1, <2>1, JobSets DEF OverviewInv, CountsCover
      <3>2. CASE j \in view.failedBefore
        <4>1. view.failedBefore \cap (view.counted \cup {j}) = S \cup {j}
          BY <3>2
        <4>2. row[j].status = "error"
          BY <3>2 DEF OverviewInv, CountsCover
        <4> HIDE DEF S
        <4>3. Cardinality(S \cup {j}) = Cardinality(S) + 1
          BY <3>1, JobAdded
        <4> QED BY <1>1, <2>2, <3>1, <4>1, <4>2, <4>3
      <3>3. CASE j \notin view.failedBefore
        <4>1. view.failedBefore \cap (view.counted \cup {j}) = S
          BY <3>3
        <4> HIDE DEF S
        <4> QED BY <1>1, <2>2, <3>1, <4>1
      <3> QED BY <3>2, <3>3
    <2>6. more <= Cardinality(view.counted) + 1
      BY <1>1, <2>2 DEF OverviewInv, CountsCover
    <2>7. CountsCover'
      BY <1>0, <2>3, <2>4, <2>5, <2>6 DEF OverviewInv, CountsCover
    <2> QED BY <1>0, <1>2, <2>3, <2>7, ViewFrame
  <1>4. ASSUME ListingEnds \/ ListingFails PROVE OverviewInv'
    <2>1. PICK b \in BOOLEAN : /\ view' = [view EXCEPT !.tables = "end", !.noTables = b]
                               /\ ~b => view.before \subseteq view.counted
      <3>1. CASE ListingEnds
        <4>1. view' = [view EXCEPT !.tables = "end"] /\ view.before \subseteq view.counted
          BY <3>1 DEF ListingEnds
        <4>2. /\ view.noTables \in BOOLEAN
              /\ [view EXCEPT !.tables = "end"] = [view EXCEPT !.tables = "end", !.noTables = view.noTables]
          BY <1>0 DEF View
        <4> QED BY <4>1, <4>2
      <3>2. CASE ListingFails
        BY <3>2 DEF ListingFails
      <3> QED BY <1>4, <3>1, <3>2
    <2>2. /\ view' \in View /\ view'.noTables = b
          /\ UNCHANGED <<view.counted, view.errors, view.before, view.failedBefore>> /\ Queue
      BY <1>0, <2>1 DEF View
    <2>3. CountsCover'
      BY <1>0, <2>1, <2>2 DEF OverviewInv, CountsCover
    <2> QED BY <1>0, <1>2, <2>2, <2>3, ViewFrame
  <1> QED BY <1>3, <1>4

\* The page is left, or was not open yet.
LEMMA NotViewedCovers ==
    ASSUME view = NotViewed
    PROVE  view \in View /\ LengthCovers /\ OldestCovers /\ CountsCover
  <1>1. /\ view \in View /\ view.queue = "no" /\ view.tables = "no" /\ view.errors = 0
        /\ view.counted = {} /\ view.before = {} /\ view.failedBefore = {}
    BY DEF NotViewed, View
  <1>2. Cardinality({}) = 0 /\ {} \cap {} = {}
    BY FS_EmptySet
  <1> QED BY <1>1, <1>2 DEF LengthCovers, OldestCovers, CountsCover

\* At the end of both halves the overview covers what there was.
LEMMA CoversOfInv ==
    ASSUME OverviewInv
    PROVE  OverviewCovers
  <1>1. /\ view.counted \in SUBSET Queued /\ view.before \in SUBSET Queued /\ view.failedBefore \in SUBSET Queued
        /\ view.errors \in Nat
    BY DEF OverviewInv, OverviewTyped, View
  <1>2. ASSUME Shown, ~view.noTables
        PROVE  /\ Cardinality(view.counted) >= Cardinality(view.before)
               /\ view.errors >= Cardinality(view.failedBefore)
    <2>1. view.before \subseteq view.counted /\ view.failedBefore \cap view.counted = view.failedBefore
      BY <1>2 DEF Shown, OverviewInv, CountsCover
    <2> QED BY <1>1, <2>1, JobSets DEF OverviewInv, CountsCover
  <1>3. ASSUME Shown, ~view.noQueue
        PROVE  /\ view.length >= Cardinality(waited)
               /\ \A i \in DOMAIN stream : stream[i] \in waited => \E k \in 1 .. i : stream[k] = view.oldest
    BY <1>3 DEF Shown, OverviewInv, LengthCovers, OldestCovers
  <1> QED BY <1>2, <1>3 DEF OverviewCovers, OverviewInv, CountsCover

\* One lemma for all the steps.
LEMMA OverviewStep ==
    ASSUME OverviewInv, OverviewNext
    PROVE  OverviewInv'
  <1>1. CASE LeaveOverview
    <2>1. UNCHANGED <<row, stream, entry>> /\ view' = NotViewed /\ waited' = {}
      BY <1>1 DEF LeaveOverview
    <2>2. view' \in View /\ LengthCovers' /\ OldestCovers' /\ CountsCover'
      <3>1. /\ view' \in View /\ view'.queue = "no" /\ view'.tables = "no" /\ view'.errors = 0
            /\ view'.counted = {} /\ view'.before = {} /\ view'.failedBefore = {}
        BY <2>1 DEF NotViewed, View
      <3>2. Cardinality({}) = 0 /\ {} \cap {} = {}
        BY FS_EmptySet
      <3> QED BY <3>1, <3>2 DEF LengthCovers, OldestCovers, CountsCover
    <2> QED BY <2>1, <2>2 DEF OverviewInv, OverviewTyped, QueueKept, InEntry
  <1>2. CASE OpenOverview
    BY <1>2, OpenKeeps
  <1>3. CASE ReadLength \/ ReadPending \/ ReadOldest \/ QueueReadFails
    BY <1>3, QueueHalf
  <1>4. CASE (\E j \in Queued : CountRow(j)) \/ ListingEnds \/ ListingFails
    BY <1>4, TablesHalf
  <1>5. CASE \/ \E j \in Queued : Recorded(j) \/ Enqueued(j) \/ Taken(j) \/ Acknowledged(j)
             \/ Lost \/ GroupEnsured
    BY <1>5, QueueStep
  <1> QED BY OverviewNext, <1>1, <1>2, <1>3, <1>4, <1>5 DEF OverviewNext

\* Unless a read of them failed, the overview shows no less than there is: the
\* length and the age of the queue cover what waited all along, the day's jobs and
\* errors those there were when the page was opened, through jobs that come and
\* end meanwhile and losses of Redis (admin-overview-data.ts).
THEOREM OverviewCoversAll == Spec => []OverviewCovers
  <1>1. Init => OverviewInv
    <2> SUFFICES ASSUME OverviewInit PROVE OverviewInv
      BY DEF Init
    <2>1. view \in View /\ LengthCovers /\ OldestCovers /\ CountsCover
      BY NotViewedCovers DEF OverviewInit
    <2> QED BY <2>1 DEF OverviewInit, OverviewInv, OverviewTyped, QueueKept, JobRow, InEntry
  <1>2. ASSUME OverviewInv, [Next]_billingVars PROVE OverviewInv'
    <2>1. CASE OverviewNext
      BY <1>2, <2>1, OverviewStep
    <2>2. CASE UNCHANGED overviewVars
      BY <1>2, <2>2
         DEF overviewVars, OverviewInv, OverviewTyped, QueueKept, LengthCovers, OldestCovers, CountsCover, InEntry
    <2> QED BY <1>2, <2>1, <2>2 DEF Next, billingVars
  <1>3. OverviewInv => OverviewCovers
    BY CoversOfInv
  <1> QED BY <1>1, <1>2, <1>3, PTL DEF Spec

-----------------------------------------------------------------------------
(* Sums of bytes.                                                          *)

Bulk(S) == UNION {{j} \X (1 .. BytesOf[j]) : j \in S}

\* The bytes of finitely many jobs are a number.
LEMMA UsedFinite ==
    ASSUME NEW S, S \subseteq Charges, IsFiniteSet(S)
    PROVE  IsFiniteSet(Bulk(S)) /\ Used(S) \in Nat /\ Used(S) = Cardinality(Bulk(S))
  <1> DEFINE Of(j) == {j} \X (1 .. BytesOf[j])
             T == {Of(j) : j \in S}
             f == [j \in S |-> Of(j)]
  <1>1. f \in Surjection(S, T)
    <2>1. f \in [S -> T]
      OBVIOUS
    <2>2. \A t \in T : \E j \in S : f[j] = t
      OBVIOUS
    <2> HIDE DEF f, T
    <2> QED BY <2>1, <2>2 DEF Surjection
  <1>2. IsFiniteSet(T)
    <2> HIDE DEF f, T
    <2> QED BY <1>1, FS_Surjection
  <1>3. ASSUME NEW t \in T PROVE IsFiniteSet(t)
    <2>1. PICK j \in S : t = Of(j)
      OBVIOUS
    <2>2. BytesOf[j] \in Nat
      BY ChargesAssumption
    <2>3. IsFiniteSet({j})
      BY FS_Singleton
    <2>5. IsFiniteSet(1 .. BytesOf[j])
      <3>1. 1 \in Int /\ BytesOf[j] \in Int
        BY <2>2
      <3> HIDE DEF f, T
      <3> QED BY <3>1, FS_Interval
    <2>4. IsFiniteSet({j} \X (1 .. BytesOf[j]))
      BY <2>3, <2>5, FS_Product
    <2> QED BY <2>1, <2>4
  <1>4. IsFiniteSet(UNION T)
    <2> HIDE DEF T
    <2> QED BY <1>2, <1>3, FS_UNION
  <1>5. Bulk(S) = UNION T
    BY DEF Bulk
  <1>6. IsFiniteSet(Bulk(S)) /\ Cardinality(Bulk(S)) \in Nat
    BY <1>4, <1>5, FS_CardinalityType
  <1> QED BY <1>6 DEF Used, Bulk

\* No jobs have no bytes.
LEMMA UsedNone == Used({}) = 0
  <1>1. Bulk({}) = {}
    BY DEF Bulk
  <1> QED BY <1>1, FS_EmptySet DEF Used, Bulk

\* Fewer jobs have fewer bytes.
LEMMA UsedSubset ==
    ASSUME NEW S, S \subseteq Charges, IsFiniteSet(S), NEW T, T \subseteq S
    PROVE  Used(T) <= Used(S) /\ Used(T) \in Nat /\ Used(S) \in Nat
  <1>1. Bulk(T) \subseteq Bulk(S)
    BY DEF Bulk
  <1>2. Cardinality(Bulk(T)) <= Cardinality(Bulk(S))
    BY <1>1, UsedFinite, FS_Subset
  <1>3. IsFiniteSet(T) /\ T \subseteq Charges
    BY FS_Subset
  <1> QED BY <1>2, <1>3, UsedFinite

\* The bytes of jobs that are put together are the sum.
LEMMA UsedApart ==
    ASSUME NEW S, S \subseteq Charges, IsFiniteSet(S), NEW T, T \subseteq Charges, IsFiniteSet(T),
           S \cap T = {}
    PROVE  Used(S \cup T) = Used(S) + Used(T) /\ Used(S) \in Nat /\ Used(T) \in Nat
  <1>1. IsFiniteSet(S \cup T) /\ S \cup T \subseteq Charges
    BY FS_Union
  <1>2. Bulk(S \cup T) = Bulk(S) \cup Bulk(T) /\ Bulk(S) \cap Bulk(T) = {}
    BY DEF Bulk
  <1>3. /\ IsFiniteSet(Bulk(S)) /\ IsFiniteSet(Bulk(T))
        /\ Used(S) = Cardinality(Bulk(S)) /\ Used(T) = Cardinality(Bulk(T))
        /\ Used(S) \in Nat /\ Used(T) \in Nat
    BY UsedFinite
  <1>4. Used(S \cup T) = Cardinality(Bulk(S) \cup Bulk(T))
    BY <1>1, <1>2, UsedFinite
  <1>5. Cardinality(Bulk(S) \cup Bulk(T))
          = Cardinality(Bulk(S)) + Cardinality(Bulk(T)) - Cardinality(Bulk(S) \cap Bulk(T))
    BY <1>3, FS_Union
  <1>6. Cardinality(Bulk(S) \cap Bulk(T)) = 0
    BY <1>2, FS_EmptySet
  <1> HIDE DEF Bulk
  <1> QED BY <1>3, <1>4, <1>5, <1>6

\* One more job has its bytes more.
LEMMA UsedOneMore ==
    ASSUME NEW S, S \subseteq Charges, IsFiniteSet(S), NEW j \in Charges, j \notin S
    PROVE  /\ IsFiniteSet(S \cup {j})
           /\ Used(S \cup {j}) = Used(S) + BytesOf[j]
  <1>1. IsFiniteSet(S \cup {j}) /\ S \cup {j} \subseteq Charges
    BY FS_AddElement
  <1>2. BytesOf[j] \in Nat /\ BytesOf[j] >= 1
    BY ChargesAssumption
  <1> DEFINE One == {j} \X (1 .. BytesOf[j])
  <1>3. Bulk(S \cup {j}) = Bulk(S) \cup One /\ Bulk(S) \cap One = {}
    BY DEF Bulk
  <1>4. IsFiniteSet(One) /\ Cardinality(One) = BytesOf[j]
    <2>1. IsFiniteSet(1 .. BytesOf[j]) /\ Cardinality(1 .. BytesOf[j]) = BytesOf[j]
      BY <1>2, FS_Interval
    <2>2. IsFiniteSet({j}) /\ Cardinality({j}) = 1
      BY FS_Singleton
    <2>3. /\ IsFiniteSet({j} \X (1 .. BytesOf[j]))
          /\ Cardinality({j} \X (1 .. BytesOf[j])) = Cardinality({j}) * Cardinality(1 .. BytesOf[j])
      <3> HIDE DEF One
      <3> QED BY <2>1, <2>2, FS_Product
    <2>4. Cardinality({j}) * Cardinality(1 .. BytesOf[j]) = BytesOf[j]
      BY <1>2, <2>1, <2>2
    <2> QED BY <2>3, <2>4
  <1> HIDE DEF One
  <1>5. IsFiniteSet(Bulk(S)) /\ Used(S) = Cardinality(Bulk(S)) /\ Used(S) \in Nat
    BY UsedFinite
  <1>6. Cardinality(Bulk(S) \cup One) = Cardinality(Bulk(S)) + Cardinality(One) - Cardinality({})
    BY <1>3, <1>4, <1>5, FS_Union
  <1>7. Cardinality({}) = 0
    BY FS_EmptySet
  <1>8. Used(S \cup {j}) = Cardinality(Bulk(S) \cup One)
    BY <1>1, <1>3, UsedFinite
  <1> QED BY <1>1, <1>2, <1>4, <1>5, <1>6, <1>7, <1>8

\* One job less has its bytes less.
LEMMA UsedOneLess ==
    ASSUME NEW S, S \subseteq Charges, IsFiniteSet(S), NEW j \in S
    PROVE  Used(S \ {j}) = Used(S) - BytesOf[j]
  <1>1. IsFiniteSet(S \ {j}) /\ S \ {j} \subseteq Charges /\ (S \ {j}) \cup {j} = S
    BY FS_RemoveElement
  <1>2. Used((S \ {j}) \cup {j}) = Used(S \ {j}) + BytesOf[j]
    BY <1>1, UsedOneMore
  <1>3. Used(S \ {j}) \in Nat /\ BytesOf[j] \in Nat
    BY <1>1, UsedFinite, ChargesAssumption
  <1>4. Used(S) = Used(S \ {j}) + BytesOf[j]
    BY <1>1, <1>2
  <1> QED BY <1>3, <1>4

-----------------------------------------------------------------------------
(* The usage on the billing page.                                          *)

RowStates == {"none", "processing", "ok", "error", "deleted"}

LoadType == [at : {"no", "counters", "rows", "seed", "shown", "astray"}, left : SUBSET Meters,
             names : SUBSET {NameOf[k] : k \in Meters}, hit : BOOLEAN, total : Int]

UsageTyped ==
    /\ listed \subseteq Meters
    /\ charged \subseteq Charges /\ IsFiniteSet(charged)
    /\ finished \subseteq Charges /\ IsFiniteSet(finished)
    /\ refunds \in [Charges -> Nat]
    /\ rowOf \in [Charges -> RowStates]
    /\ counter \in [Meters -> Int \cup {NoValue}]
    /\ load \in LoadType
    /\ before \subseteq charged \cap finished
    /\ unsure \in BOOLEAN
    /\ \A j \in Charges : rowOf[j] = "ok" => j \in finished
    /\ \A j \in Charges : refunds[j] > 0 => j \in charged

\* The jobs charged to a key and never taken off again.
KeptOf(k) == {j \in ChargedTo(k) : refunds[j] = 0}

\* A counter holds no more than the jobs charged to its key and, unless it is
\* short, no less than those that were never taken off; no finished job was.
CounterInv ==
    /\ \A k \in Meters : counter[k] # NoValue =>
          /\ counter[k] <= Used(ChargedTo(k))
          /\ k \notin short => counter[k] >= Used(KeptOf(k))
    /\ \A j \in charged \cap finished : refunds[j] > 0 => MeterOf[j] \in short

\* Those of some jobs whose keys were read.
ReadOf(set, left) == {j \in set : MeterOf[j] \notin left}

LoadInv ==
    /\ load.at = "counters" =>
          /\ load.total <= Used(ReadOf(charged, load.left))
          /\ ~unsure => load.total >= Used(ReadOf(before, load.left))
    /\ load.at = "seed" =>
          /\ load.total <= Used(charged \cup finished)
          /\ ~unsure => load.total >= Used(before)
    /\ load.at = "shown" => stats.units * UnitSize \in Nat
    /\ UsageShown

UsageInv == UsageTyped /\ CounterInv /\ LoadInv

\* What is charged, kept, finished or read is finite and of the jobs.
LEMMA ChargedFinite ==
    ASSUME UsageTyped
    PROVE  /\ charged \subseteq Charges /\ IsFiniteSet(charged)
           /\ charged \cup finished \subseteq Charges /\ IsFiniteSet(charged \cup finished)
           /\ before \subseteq Charges /\ IsFiniteSet(before)
           /\ \A k : /\ ChargedTo(k) \subseteq Charges /\ IsFiniteSet(ChargedTo(k))
                     /\ KeptOf(k) \subseteq Charges /\ IsFiniteSet(KeptOf(k))
  <1>1. charged \subseteq Charges /\ IsFiniteSet(charged) /\ finished \subseteq Charges
        /\ IsFiniteSet(finished) /\ before \subseteq charged
    BY DEF UsageTyped
  <1>2. IsFiniteSet(charged \cup finished)
    BY <1>1, FS_Union
  <1>3. \A k : ChargedTo(k) \subseteq charged /\ KeptOf(k) \subseteq charged
    BY DEF ChargedTo, KeptOf
  <1>4. \A S : S \subseteq charged => IsFiniteSet(S)
    BY <1>1, FS_Subset
  <1> QED BY <1>1, <1>2, <1>3, <1>4

\* Their bytes are numbers.
LEMMA ChargedNat ==
    ASSUME UsageTyped
    PROVE  /\ Used(charged \cup finished) \in Nat /\ Used(before) \in Nat
           /\ \A k : Used(ChargedTo(k)) \in Nat /\ Used(KeptOf(k)) \in Nat
  BY ChargedFinite, UsedFinite

\* No load at all.
LEMMA NoLoadTyped == NotLoading \in LoadType
  BY DEF NotLoading, LoadType

\* A load that begins or ends.
LEMMA LoadsTyped ==
    ASSUME NEW at \in {"no", "counters", "rows", "seed", "shown", "astray"},
           NEW left \in SUBSET Meters
    PROVE  /\ [NotLoading EXCEPT !.at = at, !.left = left] \in LoadType
           /\ [NotLoading EXCEPT !.at = at] \in LoadType
  BY NoLoadTyped DEF LoadType

\* The first state of the page.
LEMMA UsageStarted == UsageInit => UsageInv
  <1> SUFFICES ASSUME UsageInit PROVE UsageInv
    OBVIOUS
  <1> USE DEF UsageInit
  <1>1. refunds \in [Charges -> Nat] /\ rowOf \in [Charges -> RowStates]
    BY DEF RowStates
  <1>2. counter \in [Meters -> Int \cup {NoValue}]
    OBVIOUS
  <1>3. \A j \in Charges : rowOf[j] # "ok" /\ refunds[j] = 0
    OBVIOUS
  <1>4. IsFiniteSet({})
    BY FS_EmptySet
  <1>5. load \in LoadType
    BY NoLoadTyped
  <1>6. UsageTyped
    <2>1. listed \subseteq Meters /\ charged = {} /\ finished = {} /\ before = {} /\ unsure = FALSE
      OBVIOUS
    <2>2. IsFiniteSet(charged) /\ IsFiniteSet(finished)
      BY <1>4, <2>1
    <2>3. charged \subseteq Charges /\ finished \subseteq Charges /\ before \subseteq charged \cap finished
      BY <2>1
    <2>4. \A j \in Charges : ~(refunds[j] > 0)
      <3>1. ~(0 > 0)
        OBVIOUS
      <3> QED BY <1>3, <3>1
    <2>5. unsure \in BOOLEAN /\ listed \subseteq Meters
      BY <2>1
    <2> HIDE DEF UsageInit
    <2> QED BY <1>1, <1>2, <1>3, <1>5, <2>2, <2>3, <2>4, <2>5 DEF UsageTyped
  <1>7. CounterInv
    BY DEF CounterInv
  <1>8. LoadInv
    BY DEF LoadInv, UsageShown, NotLoading
  <1> QED BY <1>6, <1>7, <1>8 DEF UsageInv

\* What the gateway, the other pages and Redis do.
World ==
    \/ \E j \in Charges : \/ Charge(j) \/ CreateRow(j) \/ Converted(j)
                          \/ Failed(j) \/ Refund(j) \/ ResultDeleted(j)
    \/ \E k \in Meters : KeyDeleted(k)
    \/ Flush

\* What a load does.
Loading ==
    \/ \E k \in Meters : GetCounter(k)
    \/ \E name \in load.names : SeedName(name)
    \/ OpenBilling \/ OpenAstray \/ ScanJobs \/ ShowStats \/ LeaveBilling

\* The page's steps are those of the world and those of its load.
LEMMA UsageSplit == UsageNext => World \/ Loading
  BY DEF UsageNext, World, Loading

\* A counter that is changed by a number stays one.
LEMMA CountedTyped ==
    ASSUME UsageTyped, NEW k \in Meters, NEW by \in Int, Counted(k, by)
    PROVE  /\ counter' \in [Meters -> Int \cup {NoValue}]
           /\ \A m \in Meters : m # k => counter'[m] = counter[m]
           /\ counter'[k] = IF counter[k] = NoValue THEN by ELSE counter[k] + by
           /\ counter'[k] # NoValue
  <1>1. counter \in [Meters -> Int \cup {NoValue}] /\ NoValue \notin Int
    BY UnitsAssumption DEF UsageTyped
  <1>2. counter' = [counter EXCEPT ![k] = IF @ = NoValue THEN by ELSE @ + by]
    BY DEF Counted
  <1>3. (IF counter[k] = NoValue THEN by ELSE counter[k] + by) \in Int
    BY <1>1
  <1> QED BY <1>1, <1>2, <1>3

\* The jobs change their state one at a time.
LEMMA WorldTyped ==
    ASSUME UsageTyped, World
    PROVE  UsageTyped' /\ charged \subseteq charged' /\ finished \subseteq finished'
           /\ UNCHANGED loadVars
  <1> USE ChargesAssumption
  <1>0. UsageTyped
    OBVIOUS
  <1>1. ASSUME NEW j \in Charges, Charge(j)
        PROVE  UsageTyped' /\ charged \subseteq charged' /\ finished \subseteq finished'
               /\ UNCHANGED loadVars
    <2>1. charged' = charged \cup {j} /\ UNCHANGED <<listed, refunds, rowOf, finished, loadVars>>
      BY <1>1 DEF Charge
    <2>2. IsFiniteSet(charged')
      BY <2>1, FS_AddElement DEF UsageTyped
    <2>3. counter' \in [Meters -> Int \cup {NoValue}]
      <3>1. MeterOf[j] \in Meters /\ BytesOf[j] \in Int /\ Counted(MeterOf[j], BytesOf[j])
        BY <1>1 DEF Charge
      <3> QED BY <3>1, CountedTyped
    <2> QED BY <1>0, <2>1, <2>2, <2>3 DEF UsageTyped, loadVars
  <1>2. ASSUME NEW j \in Charges, NEW to \in RowStates, SetRow(j, to),
               finished' = IF to = "ok" THEN finished \cup {j} ELSE finished,
               UNCHANGED <<listed, charged, refunds, counter, loadVars>>
        PROVE  UsageTyped' /\ charged \subseteq charged' /\ finished \subseteq finished'
               /\ UNCHANGED loadVars
    <2>1. rowOf' \in [Charges -> RowStates]
      BY <1>0, <1>2 DEF SetRow, UsageTyped
    <2>2. \A i \in Charges : rowOf'[i] = "ok" => i \in finished'
      BY <1>0, <1>2 DEF SetRow, UsageTyped
    <2>3. IsFiniteSet(finished') /\ finished' \subseteq Charges /\ finished \subseteq finished'
      BY <1>0, <1>2, FS_AddElement DEF UsageTyped
    <2> QED BY <1>0, <1>2, <2>1, <2>2, <2>3 DEF UsageTyped, loadVars
  <1>3. ASSUME NEW j \in Charges, CreateRow(j) \/ Converted(j) \/ Failed(j) \/ ResultDeleted(j)
        PROVE  UsageTyped' /\ charged \subseteq charged' /\ finished \subseteq finished'
               /\ UNCHANGED loadVars
    <2>1. CASE CreateRow(j)
      BY <1>2, <2>1 DEF CreateRow, RowStates
    <2>2. CASE Converted(j)
      BY <1>2, <2>2 DEF Converted, RowStates
    <2>3. CASE Failed(j)
      BY <1>2, <2>3 DEF Failed, RowStates
    <2>4. CASE ResultDeleted(j)
      BY <1>2, <2>4 DEF ResultDeleted, RowStates
    <2> QED BY <1>3, <2>1, <2>2, <2>3, <2>4
  <1>4. ASSUME NEW j \in Charges, Refund(j)
        PROVE  UsageTyped' /\ charged \subseteq charged' /\ finished \subseteq finished'
               /\ UNCHANGED loadVars
    <2>1. /\ refunds' = [refunds EXCEPT ![j] = @ + 1] /\ j \in charged
          /\ UNCHANGED <<listed, charged, rowOf, finished, loadVars>>
      BY <1>4 DEF Refund
    <2>2. refunds' \in [Charges -> Nat]
      BY <1>0, <2>1 DEF UsageTyped
    <2>3. \A i \in Charges : refunds'[i] > 0 => i \in charged'
      BY <1>0, <2>1 DEF UsageTyped
    <2>4. counter' \in [Meters -> Int \cup {NoValue}]
      <3>1. MeterOf[j] \in Meters /\ -BytesOf[j] \in Int /\ Counted(MeterOf[j], -BytesOf[j])
        BY <1>4 DEF Refund
      <3> QED BY <3>1, CountedTyped
    <2> QED BY <1>0, <2>1, <2>2, <2>3, <2>4 DEF UsageTyped, loadVars
  <1>5. ASSUME UNCHANGED <<charged, refunds, rowOf, finished, loadVars>>, listed' \subseteq listed,
               counter' \in [Meters -> Int \cup {NoValue}]
        PROVE  UsageTyped' /\ charged \subseteq charged' /\ finished \subseteq finished'
               /\ UNCHANGED loadVars
    BY <1>0, <1>5 DEF UsageTyped, loadVars
  <1>6. ASSUME NEW k \in Meters, KeyDeleted(k)
        PROVE  UsageTyped' /\ charged \subseteq charged' /\ finished \subseteq finished'
               /\ UNCHANGED loadVars
    BY <1>0, <1>5, <1>6 DEF KeyDeleted, UsageTyped
  <1>7. ASSUME Flush
        PROVE  UsageTyped' /\ charged \subseteq charged' /\ finished \subseteq finished'
               /\ UNCHANGED loadVars
    BY <1>5, <1>7 DEF Flush
  <1> QED BY <1>1, <1>3, <1>4, <1>6, <1>7 DEF World

\* A load does not touch what it reads, and keeps its own types.
LEMMA LoadingTyped == ASSUME UsageTyped, Loading PROVE UsageTyped' /\ UNCHANGED jobVars
  <1>0. UsageTyped
    OBVIOUS
  <1>1. ASSUME UNCHANGED jobVars, load' \in LoadType, before' \subseteq charged \cap finished,
               unsure' \in BOOLEAN
        PROVE  UsageTyped' /\ UNCHANGED jobVars
    BY <1>0, <1>1 DEF UsageTyped, jobVars
  <1>2. load \in LoadType /\ before \subseteq charged \cap finished /\ unsure \in BOOLEAN
    BY DEF UsageTyped
  <1>3. CASE OpenBilling
    <2>1. listed \in SUBSET Meters
      BY DEF UsageTyped
    <2>2. load' \in LoadType
      BY <1>3, <2>1, LoadsTyped DEF OpenBilling
    <2> QED BY <1>1, <1>3, <2>2 DEF OpenBilling
  <1>4. CASE OpenAstray
    BY <1>1, <1>2, <1>4, LoadsTyped DEF OpenAstray
  <1>5. ASSUME NEW k \in Meters, GetCounter(k) PROVE UsageTyped' /\ UNCHANGED jobVars
    <2>1. counter[k] \in Int \cup {NoValue}
      BY DEF UsageTyped
    <2>2. (IF counter[k] = NoValue THEN load.total ELSE load.total + counter[k]) \in Int
      BY <1>2, <2>1 DEF LoadType
    <2>3. load' \in LoadType
      BY <1>2, <1>5, <2>2 DEF GetCounter, LoadType
    <2>4. unsure' \in BOOLEAN
      BY <1>2, <1>5 DEF GetCounter
    <2> QED BY <1>1, <1>2, <1>5, <2>3, <2>4 DEF GetCounter
  <1>6. CASE ScanJobs
    <2> DEFINE total == Used(FinishedRows)
               names == IF load.at = "rows" THEN {} ELSE {NameOf[MeterOf[j]] : j \in FinishedRows}
    <2>1. FinishedRows \subseteq finished /\ FinishedRows \subseteq Charges
      BY DEF FinishedRows, UsageTyped
    <2>2. total \in Int
      <3>1. IsFiniteSet(FinishedRows)
        BY <2>1, FS_Subset DEF UsageTyped
      <3> QED BY <2>1, <3>1, UsedFinite
    <2>3. names \subseteq {NameOf[k] : k \in Meters}
      BY <2>1, ChargesAssumption
    <2>4. load' = [load EXCEPT !.at = "seed", !.names = names, !.total = total]
      BY <1>6 DEF ScanJobs
    <2>5. unsure' \in BOOLEAN
      BY <1>6 DEF ScanJobs
    <2> HIDE DEF total, names
    <2>6. load' \in LoadType
      BY <1>2, <2>2, <2>3, <2>4 DEF LoadType
    <2> QED BY <1>1, <1>2, <1>6, <2>5, <2>6 DEF ScanJobs
  <1>7. ASSUME NEW name, SeedName(name) PROVE UsageTyped' /\ UNCHANGED jobVars
    <2>1. load' \in LoadType
      BY <1>2, <1>7 DEF SeedName, LoadType
    <2> QED BY <1>1, <1>2, <1>7, <2>1 DEF SeedName
  <1>8. CASE ShowStats
    BY <1>1, <1>2, <1>8, LoadsTyped DEF ShowStats
  <1>9. CASE LeaveBilling
    BY <1>1, <1>9, NoLoadTyped DEF LeaveBilling
  <1> QED BY <1>3, <1>4, <1>5, <1>6, <1>7, <1>8, <1>9 DEF Loading

\* A charge adds its bytes to the counter, and the job to those charged.
LEMMA ChargeKeeps ==
    ASSUME UsageTyped, CounterInv, NEW j \in Charges, Charge(j)
    PROVE  CounterInv'
  <1> DEFINE k0 == MeterOf[j]
  <1>1. /\ j \notin charged /\ charged' = charged \cup {j} /\ UNCHANGED <<refunds, finished>>
        /\ Counted(k0, BytesOf[j])
        /\ ShortIf(counter[k0] = NoValue /\ ChargedTo(k0) # {}, k0)
    BY DEF Charge
  <1>2. k0 \in Meters /\ BytesOf[j] \in Nat
    BY ChargesAssumption
  <1>3. refunds[j] = 0
    BY <1>1 DEF UsageTyped
  <1>4. \A k : k # k0 => ChargedTo(k)' = ChargedTo(k) /\ KeptOf(k)' = KeptOf(k)
    BY <1>1 DEF ChargedTo, KeptOf
  <1>5. /\ ChargedTo(k0)' = ChargedTo(k0) \cup {j} /\ j \notin ChargedTo(k0)
        /\ KeptOf(k0)' = KeptOf(k0) \cup {j} /\ j \notin KeptOf(k0)
    BY <1>1, <1>3 DEF ChargedTo, KeptOf
  <1>6. /\ \A m \in Meters : m # k0 => counter'[m] = counter[m]
        /\ counter'[k0] = IF counter[k0] = NoValue THEN BytesOf[j] ELSE counter[k0] + BytesOf[j]
    BY <1>1, <1>2, CountedTyped
  <1>7. short \subseteq short'
    BY <1>1 DEF ShortIf
  <1>8. /\ Used(ChargedTo(k0)') = Used(ChargedTo(k0)) + BytesOf[j]
        /\ Used(KeptOf(k0)') = Used(KeptOf(k0)) + BytesOf[j]
    <2>1. ChargedTo(k0) \subseteq Charges /\ IsFiniteSet(ChargedTo(k0))
          /\ KeptOf(k0) \subseteq Charges /\ IsFiniteSet(KeptOf(k0))
      BY ChargedFinite
    <2>2. Used(ChargedTo(k0) \cup {j}) = Used(ChargedTo(k0)) + BytesOf[j]
      BY <1>5, <2>1, UsedOneMore
    <2>3. Used(KeptOf(k0) \cup {j}) = Used(KeptOf(k0)) + BytesOf[j]
      BY <1>5, <2>1, UsedOneMore
    <2> QED BY <1>5, <2>2, <2>3
  <1>9. Used(ChargedTo(k0)) \in Nat /\ Used(KeptOf(k0)) \in Nat
    BY ChargedNat
  <1>10. ASSUME NEW k \in Meters, counter'[k] # NoValue
         PROVE  /\ counter'[k] <= Used(ChargedTo(k)')
                /\ k \notin short' => counter'[k] >= Used(KeptOf(k)')
    <2>1. CASE k # k0
      BY <1>4, <1>6, <1>7, <1>10, <2>1 DEF CounterInv
    <2>2. CASE k = k0 /\ counter[k0] = NoValue
      <3>1. counter'[k0] = BytesOf[j]
        BY <1>6, <2>2
      <3>2. ASSUME k0 \notin short' PROVE KeptOf(k0) = {}
        <4>1. ChargedTo(k0) = {}
          BY <1>1, <2>2, <3>2 DEF ShortIf
        <4> QED BY <4>1 DEF KeptOf
      <3>3. k0 \notin short' => Used(KeptOf(k0)) = 0
        BY <3>2, UsedNone
      <3> HIDE DEF k0
      <3> QED BY <1>2, <1>8, <1>9, <2>2, <3>1, <3>3
    <2>3. CASE k = k0 /\ counter[k0] # NoValue
      <3>1. counter'[k0] = counter[k0] + BytesOf[j] /\ counter[k0] \in Int
        BY <1>2, <1>6, <2>3 DEF UsageTyped
      <3>2. counter[k0] <= Used(ChargedTo(k0)) /\ (k0 \notin short' => counter[k0] >= Used(KeptOf(k0)))
        BY <1>2, <1>7, <2>3 DEF CounterInv
      <3> HIDE DEF k0
      <3> QED BY <1>2, <1>8, <1>9, <2>3, <3>1, <3>2
    <2> QED BY <2>1, <2>2, <2>3
  <1>11. ASSUME NEW i \in charged' \cap finished', refunds'[i] > 0 PROVE MeterOf[i] \in short'
    <2>1. i \in charged
      BY <1>1, <1>3, <1>11
    <2> QED BY <1>1, <1>7, <1>11, <2>1 DEF CounterInv
  <1> QED BY <1>10, <1>11 DEF CounterInv, Used

\* A refund takes the bytes off, and the job from those never taken off.
LEMMA RefundKeeps ==
    ASSUME UsageTyped, CounterInv, NEW j \in Charges, Refund(j)
    PROVE  CounterInv'
  <1> DEFINE k0 == MeterOf[j]
  <1>1. /\ j \in charged /\ refunds' = [refunds EXCEPT ![j] = @ + 1]
        /\ UNCHANGED <<charged, finished>> /\ Counted(k0, -BytesOf[j])
        /\ ShortIf(counter[k0] = NoValue \/ refunds[j] > 0 \/ j \in finished, k0)
    BY DEF Refund
  <1>2. k0 \in Meters /\ BytesOf[j] \in Nat /\ -BytesOf[j] \in Int
    BY ChargesAssumption
  <1>3. refunds[j] \in Nat /\ \A i \in Charges : refunds'[i] = IF i = j THEN refunds[j] + 1 ELSE refunds[i]
    BY <1>1 DEF UsageTyped
  <1>4. \A k : ChargedTo(k)' = ChargedTo(k)
    BY <1>1 DEF ChargedTo
  <1>5. charged \subseteq Charges
    BY DEF UsageTyped
  <1>6. \A k : k # k0 => KeptOf(k)' = KeptOf(k)
    BY <1>1, <1>3, <1>5 DEF ChargedTo, KeptOf
  <1>7. /\ \A m \in Meters : m # k0 => counter'[m] = counter[m]
        /\ counter'[k0] = IF counter[k0] = NoValue THEN -BytesOf[j] ELSE counter[k0] + (-BytesOf[j])
    BY <1>1, <1>2, CountedTyped
  <1>8. short \subseteq short'
    BY <1>1 DEF ShortIf
  <1>9. Used(ChargedTo(k0)) \in Nat /\ Used(KeptOf(k0)) \in Nat
    BY ChargedNat
  <1>10. ASSUME k0 \notin short'
         PROVE  counter[k0] # NoValue /\ Used(KeptOf(k0)') = Used(KeptOf(k0)) - BytesOf[j]
    <2>1. counter[k0] # NoValue /\ ~(refunds[j] > 0)
      BY <1>1, <1>10 DEF ShortIf
    <2>2. j \in KeptOf(k0)
      BY <1>1, <1>3, <2>1 DEF KeptOf, ChargedTo
    <2>3. KeptOf(k0)' = KeptOf(k0) \ {j}
      BY <1>1, <1>3, <1>5 DEF KeptOf, ChargedTo
    <2>4. Used(KeptOf(k0) \ {j}) = Used(KeptOf(k0)) - BytesOf[j]
      BY <2>2, ChargedFinite, UsedOneLess
    <2> QED BY <2>1, <2>3, <2>4
  <1>11. ASSUME NEW k \in Meters, counter'[k] # NoValue
         PROVE  /\ counter'[k] <= Used(ChargedTo(k)')
                /\ k \notin short' => counter'[k] >= Used(KeptOf(k)')
    <2>1. CASE k # k0
      BY <1>4, <1>6, <1>7, <1>8, <1>11, <2>1 DEF CounterInv
    <2>2. CASE k = k0 /\ counter[k0] = NoValue
      <3>1. counter'[k0] = -BytesOf[j] /\ k0 \in short'
        BY <1>1, <1>7, <2>2 DEF ShortIf
      <3> HIDE DEF k0
      <3> QED BY <1>2, <1>4, <1>9, <2>2, <3>1
    <2>3. CASE k = k0 /\ counter[k0] # NoValue
      <3>1. counter'[k0] = counter[k0] + (-BytesOf[j]) /\ counter[k0] \in Int
        BY <1>2, <1>7, <2>3 DEF UsageTyped
      <3>2. counter[k0] <= Used(ChargedTo(k0)) /\ (k0 \notin short' => counter[k0] >= Used(KeptOf(k0)))
        BY <1>2, <1>8, <2>3 DEF CounterInv
      <3> HIDE DEF k0
      <3> QED BY <1>2, <1>4, <1>9, <1>10, <2>3, <3>1, <3>2
    <2> QED BY <2>1, <2>2, <2>3
  <1>12. ASSUME NEW i \in charged' \cap finished', refunds'[i] > 0 PROVE MeterOf[i] \in short'
    <2>1. CASE i = j
      BY <1>1, <1>12, <2>1 DEF ShortIf
    <2>2. CASE i # j
      BY <1>1, <1>3, <1>5, <1>8, <1>12, <2>2 DEF CounterInv
    <2> QED BY <2>1, <2>2
  <1> QED BY <1>11, <1>12 DEF CounterInv, Used

\* Every step keeps the counters between what was charged and what was never
\* taken off.
LEMMA CounterStep == ASSUME UsageTyped, CounterInv, World PROVE CounterInv'
  <1>1. ASSUME UNCHANGED <<charged, refunds>>, short \subseteq short',
               counter' = counter \/ (\A k \in Meters : counter'[k] = NoValue),
               \A i \in finished' : i \in finished \/ (refunds[i] > 0 => MeterOf[i] \in short')
        PROVE  CounterInv'
    <2>1. \A k : ChargedTo(k)' = ChargedTo(k) /\ KeptOf(k)' = KeptOf(k)
      BY <1>1 DEF ChargedTo, KeptOf
    <2>2. ASSUME NEW k \in Meters, counter'[k] # NoValue
          PROVE  /\ counter'[k] <= Used(ChargedTo(k)')
                 /\ k \notin short' => counter'[k] >= Used(KeptOf(k)')
      BY <1>1, <2>1, <2>2 DEF CounterInv
    <2>3. \A i \in charged' \cap finished' : refunds'[i] > 0 => MeterOf[i] \in short'
      BY <1>1 DEF CounterInv
    <2> QED BY <2>2, <2>3 DEF CounterInv, Used
  <1>2. ASSUME NEW j \in Charges, CreateRow(j) \/ Failed(j) \/ ResultDeleted(j) PROVE CounterInv'
    BY <1>1, <1>2 DEF CreateRow, Failed, ResultDeleted
  <1>3. ASSUME NEW j \in Charges, Converted(j) PROVE CounterInv'
    BY <1>1, <1>3 DEF Converted, ShortIf
  <1>4. ASSUME NEW k \in Meters, KeyDeleted(k) PROVE CounterInv'
    BY <1>1, <1>4 DEF KeyDeleted
  <1>5. CASE Flush
    BY <1>1, <1>5 DEF Flush
  <1> QED BY <1>2, <1>3, <1>4, <1>5, ChargeKeeps, RefundKeeps DEF World

\* A load changes no counter.
LEMMA CounterKept == ASSUME CounterInv, UNCHANGED jobVars PROVE CounterInv'
  <1>1. UNCHANGED <<charged, refunds, counter, finished, short>>
    BY DEF jobVars
  <1> QED BY <1>1 DEF CounterInv, ChargedTo, KeptOf, Used

\* Units that are begun are enough for the bytes, and all but the last are full.
LEMMA UnitsEnough ==
    ASSUME NEW bytes \in Int
    PROVE  /\ UnitsOf(bytes) \in Nat /\ UnitsOf(bytes) * UnitSize \in Nat
           /\ UnitsOf(bytes) * UnitSize >= bytes
           /\ \A n \in Nat : bytes <= n => UnitsOf(bytes) * UnitSize < n + UnitSize
  <1>1. UnitSize \in Nat /\ UnitSize >= 1
    BY UnitsAssumption
  <1>2. CASE bytes > 0
    <2> DEFINE sum == bytes + UnitSize - 1
               q == sum \div UnitSize
               r == sum % UnitSize
    <2>1. sum \in Nat
      BY <1>1, <1>2
    <2> HIDE DEF sum
    <2>2. /\ q \in Int /\ r \in Int
          /\ sum = UnitSize * q + r
          /\ 0 <= r /\ r < UnitSize
      BY <1>1, <2>1
    <2>3. UnitsOf(bytes) = q
      BY <1>2 DEF UnitsOf, sum
    <2> HIDE DEF q, r
    <2>4. q >= 0
      <3>1. ASSUME q < 0 PROVE FALSE
        <4>1. -q - 1 \in Nat
          BY <2>2, <3>1
        <4>2. UnitSize * (-q - 1) >= 0
          BY <1>1, <4>1
        <4>3. UnitSize * q <= -UnitSize
          BY <1>1, <2>2, <4>2
        <4> QED BY <1>1, <2>1, <2>2, <4>3
      <3> QED BY <2>2, <3>1
    <2>5. q * UnitSize = UnitSize * q
      BY <1>1, <2>2
    <2>6. q * UnitSize = bytes + UnitSize - 1 - r
      <3>1. UnitSize * q \in Int
        BY <1>1, <2>2
      <3> QED BY <1>1, <2>2, <2>5, <3>1 DEF sum
    <2>7. UnitsOf(bytes) \in Nat /\ UnitsOf(bytes) * UnitSize = bytes + UnitSize - 1 - r
      BY <2>2, <2>3, <2>4, <2>6
    <2> QED BY <1>1, <1>2, <2>2, <2>7
  <1>3. CASE ~(bytes > 0)
    <2>1. UnitsOf(bytes) = 0 /\ 0 * UnitSize = 0
      BY <1>1, <1>3 DEF UnitsOf
    <2>2. UnitsOf(bytes) * UnitSize = 0
      BY <2>1
    <2> QED BY <1>1, <1>3, <2>1, <2>2
  <1> QED BY <1>2, <1>3

\* The order of units is that of their bytes.
LEMMA UnitsOrder ==
    ASSUME NEW a \in Nat, NEW b \in Nat
    PROVE  /\ a * UnitSize >= b * UnitSize => a >= b
           /\ a * UnitSize > b * UnitSize => a > b
  <1>1. UnitSize \in Nat /\ UnitSize >= 1
    BY UnitsAssumption
  <1>2. \A x, y \in Nat : x <= y => x * UnitSize <= y * UnitSize
    <2> SUFFICES ASSUME NEW x \in Nat, NEW y \in Nat, x <= y PROVE x * UnitSize <= y * UnitSize
      OBVIOUS
    <2>1. PICK d \in Nat : y = x + d
      <3>1. y - x \in Nat /\ y = x + (y - x)
        OBVIOUS
      <3> QED BY <3>1
    <2>2. (x + d) * UnitSize = x * UnitSize + d * UnitSize
      BY <1>1
    <2>3. d * UnitSize \in Nat /\ x * UnitSize \in Nat
      BY <1>1
    <2> QED BY <2>1, <2>2, <2>3
  <1>3. a * UnitSize \in Nat /\ b * UnitSize \in Nat
    BY <1>1
  <1>4. a < b => a * UnitSize + UnitSize <= b * UnitSize
    <2> SUFFICES ASSUME a < b PROVE a * UnitSize + UnitSize <= b * UnitSize
      OBVIOUS
    <2>1. a + 1 \in Nat /\ a + 1 <= b
      OBVIOUS
    <2>2. (a + 1) * UnitSize <= b * UnitSize
      BY <1>2, <2>1
    <2>3. (a + 1) * UnitSize = a * UnitSize + UnitSize
      BY <1>1
    <2> QED BY <2>2, <2>3
  <1>5. a <= b => a * UnitSize <= b * UnitSize
    BY <1>2
  <1> QED BY <1>1, <1>3, <1>4, <1>5

\* What is shown is enough if the sum was.
LEMMA CardsEnough ==
    ASSUME NEW total \in Int, NEW used \in Nat, total >= used,
           NEW cards, cards = Calculated(UnitsOf(total))
    PROVE  /\ cards.units * UnitSize >= used
           /\ used >= FreeUnits * UnitSize => cards.rest = 0
           /\ used > FreeUnits * UnitSize => cards.cost > 0
  <1> DEFINE u == UnitsOf(total)
  <1>1. u \in Nat /\ u * UnitSize >= total
    BY UnitsEnough
  <1>2. UnitSize \in Nat /\ FreeUnits \in Nat
    BY UnitsAssumption
  <1>3. /\ cards.units = u
        /\ cards.rest = IF u < FreeUnits THEN FreeUnits - u ELSE 0
        /\ cards.cost = IF u > FreeUnits THEN u - FreeUnits ELSE 0
    BY DEF Calculated
  <1> HIDE DEF u
  <1>4. u * UnitSize \in Nat /\ FreeUnits * UnitSize \in Nat
    BY <1>1, <1>2
  <1>5. u * UnitSize >= used
    BY <1>1, <1>4
  <1>6. used >= FreeUnits * UnitSize => u >= FreeUnits
    BY <1>1, <1>2, <1>4, <1>5, UnitsOrder
  <1>7. used > FreeUnits * UnitSize => u > FreeUnits
    BY <1>1, <1>2, <1>4, <1>5, UnitsOrder
  <1> QED BY <1>1, <1>2, <1>3, <1>5, <1>6, <1>7

\* A read of a counter brings the bytes of its key: no more than were charged to
\* it and, without doubt, no less than those of its jobs the page was opened with.
LEMMA CounterRead ==
    ASSUME UsageTyped, CounterInv, LoadInv, NEW k \in Meters, GetCounter(k)
    PROVE  /\ load'.total <= Used(ReadOf(charged, load'.left))
           /\ ~unsure' => load'.total >= Used(ReadOf(before, load'.left))
  <1> DEFINE mine == {j \in before : MeterOf[j] = k}
             read == ReadOf(before, load.left)
             all  == ReadOf(charged, load.left)
  <1>1. /\ load.at = "counters" /\ k \in load.left
        /\ ~unsure' => /\ ~unsure /\ k \notin short
                       /\ counter[k] = NoValue => ChargedTo(k) = {}
    BY DEF GetCounter
  <1>2. /\ load'.left = load.left \ {k}
        /\ load'.total = IF counter[k] = NoValue THEN load.total ELSE load.total + counter[k]
    BY DEF GetCounter, UsageTyped, LoadType
  <1>3. /\ ReadOf(before, load'.left) = read \cup mine /\ read \cap mine = {}
        /\ ReadOf(charged, load'.left) = all \cup ChargedTo(k) /\ all \cap ChargedTo(k) = {}
    BY <1>1, <1>2 DEF ReadOf, ChargedTo
  <1>4. /\ mine \subseteq Charges /\ IsFiniteSet(mine)
        /\ read \subseteq Charges /\ IsFiniteSet(read)
        /\ all \subseteq Charges /\ IsFiniteSet(all)
        /\ ChargedTo(k) \subseteq Charges /\ IsFiniteSet(ChargedTo(k))
    <2>1. mine \subseteq before /\ read \subseteq before /\ all \subseteq charged
      BY DEF ReadOf
    <2> QED BY <2>1, ChargedFinite, FS_Subset
  <1>5. mine \subseteq ChargedTo(k)
    BY DEF ChargedTo, UsageTyped
  <1>6. load.total \in Int /\ load.total <= Used(all) /\ (~unsure' => load.total >= Used(read))
    BY <1>1 DEF LoadInv, UsageTyped, LoadType
  <1> HIDE DEF mine, read, all
  <1>7. /\ Used(read \cup mine) = Used(read) + Used(mine)
        /\ Used(read) \in Nat /\ Used(mine) \in Nat
    BY <1>3, <1>4, UsedApart
  <1>8. /\ Used(all \cup ChargedTo(k)) = Used(all) + Used(ChargedTo(k))
        /\ Used(all) \in Nat /\ Used(ChargedTo(k)) \in Nat
    BY <1>3, <1>4, UsedApart
  <1>9. CASE counter[k] = NoValue
    <2>1. ASSUME ~unsure' PROVE Used(mine) = 0
      <3>1. mine = {}
        BY <1>1, <1>5, <1>9, <2>1
      <3> QED BY <3>1, UsedNone
    <2>2. load'.total = load.total
      BY <1>2, <1>9
    <2>3. load'.total <= Used(all \cup ChargedTo(k))
      BY <1>6, <1>8, <2>2
    <2>4. ~unsure' => load'.total >= Used(read \cup mine)
      BY <1>6, <1>7, <2>1, <2>2
    <2> QED BY <1>3, <2>3, <2>4
  <1>10. CASE counter[k] # NoValue
    <2>1. counter[k] \in Int /\ counter[k] <= Used(ChargedTo(k))
      BY <1>10 DEF UsageTyped, CounterInv
    <2>2. ASSUME ~unsure' PROVE counter[k] >= Used(mine)
      <3>1. k \notin short
        BY <1>1, <2>2
      <3>2. mine \subseteq KeptOf(k)
        <4>1. ASSUME NEW j \in mine PROVE refunds[j] = 0
          <5>1. j \in charged \cap finished /\ MeterOf[j] = k /\ j \in Charges
            BY <4>1 DEF mine, UsageTyped
          <5>2. ~(refunds[j] > 0)
            BY <3>1, <5>1 DEF CounterInv
          <5> QED BY <5>1, <5>2 DEF UsageTyped
        <4> QED BY <1>5, <4>1 DEF KeptOf
      <3>3. Used(mine) <= Used(KeptOf(k)) /\ Used(KeptOf(k)) \in Nat
        BY <3>2, ChargedFinite, UsedSubset
      <3>4. counter[k] >= Used(KeptOf(k))
        BY <1>10, <3>1 DEF CounterInv
      <3> QED BY <1>7, <2>1, <3>3, <3>4
    <2>3. load'.total = load.total + counter[k]
      BY <1>2, <1>10
    <2>4. load'.total <= Used(all \cup ChargedTo(k))
      BY <1>6, <1>8, <2>1, <2>3
    <2>5. ~unsure' => load'.total >= Used(read \cup mine)
      BY <1>6, <1>7, <2>1, <2>2, <2>3
    <2> QED BY <1>3, <2>4, <2>5
  <1> QED BY <1>9, <1>10

\* The world only adds to what was charged and finished.
LEMMA LoadWorld ==
    ASSUME UsageTyped, LoadInv, UsageTyped', charged \subseteq charged', finished \subseteq finished',
           UNCHANGED loadVars
    PROVE  LoadInv'
  <1>1. UNCHANGED <<load, stats, before, unsure>>
    BY DEF loadVars
  <1>2. /\ charged' \subseteq Charges /\ IsFiniteSet(charged')
        /\ finished' \subseteq Charges /\ IsFiniteSet(finished')
    BY DEF UsageTyped
  <1>3. Used(ReadOf(charged, load.left)) <= Used(ReadOf(charged', load.left))
        /\ Used(ReadOf(charged, load.left)) \in Nat /\ Used(ReadOf(charged', load.left)) \in Nat
    <2>1. ReadOf(charged', load.left) \subseteq charged'
          /\ ReadOf(charged, load.left) \subseteq ReadOf(charged', load.left)
      BY DEF ReadOf
    <2>2. ReadOf(charged', load.left) \subseteq Charges /\ IsFiniteSet(ReadOf(charged', load.left))
      BY <1>2, <2>1, FS_Subset
    <2> QED BY <2>1, <2>2, UsedSubset
  <1>4. /\ Used(charged \cup finished) <= Used(charged' \cup finished')
        /\ Used(charged \cup finished) \in Nat /\ Used(charged' \cup finished') \in Nat
    <2>1. charged' \cup finished' \subseteq Charges /\ IsFiniteSet(charged' \cup finished')
      BY <1>2, FS_Union
    <2> QED BY <2>1, UsedSubset
  <1>5. load.total \in Int
    BY DEF UsageTyped, LoadType
  <1>6. load'.at = "counters" =>
          /\ load'.total <= Used(ReadOf(charged', load'.left))
          /\ ~unsure' => load'.total >= Used(ReadOf(before', load'.left))
    BY <1>1, <1>3, <1>5 DEF LoadInv
  <1>7. load'.at = "seed" =>
          /\ load'.total <= Used(charged' \cup finished')
          /\ ~unsure' => load'.total >= Used(before')
    BY <1>1, <1>4, <1>5 DEF LoadInv
  <1>8. ASSUME load'.at = "shown" PROVE UsageShown' /\ stats'.units * UnitSize \in Nat
    <2>1. load.at = "shown" /\ stats' = stats /\ before' = before /\ unsure' = unsure
      BY <1>1, <1>8
    <2> DEFINE shown == stats.units * UnitSize
    <2>2. /\ shown \in Nat
          /\ shown < Used(charged \cup finished) + UnitSize
          /\ ~unsure => /\ shown >= Used(before)
                        /\ Used(before) >= FreeUnits * UnitSize => stats.rest = 0
                        /\ Used(before) > FreeUnits * UnitSize => stats.cost > 0
      BY <2>1 DEF LoadInv, UsageShown
    <2>3. shown < Used(charged' \cup finished') + UnitSize
      <3>1. UnitSize \in Nat
        BY UnitsAssumption
      <3> HIDE DEF shown
      <3> QED BY <1>4, <2>2, <3>1
    <2> QED BY <2>1, <2>2, <2>3 DEF UsageShown, Used
  <1>9. load'.at # "shown" => UsageShown'
    BY DEF UsageShown
  <1> QED BY <1>6, <1>7, <1>8, <1>9 DEF LoadInv, Used, ReadOf

\* Every step of a load keeps what was read so far between the two.
LEMMA LoadStep ==
    ASSUME UsageTyped, CounterInv, LoadInv, Loading, UsageTyped', UNCHANGED jobVars
    PROVE  LoadInv'
  <1>1. UNCHANGED <<charged, finished, rowOf>>
    BY DEF jobVars
  <1>2. ASSUME load'.at \in {"no", "rows", "astray"} PROVE LoadInv'
    BY <1>2 DEF LoadInv, UsageShown
  <1>3. NotLoading.at = "no" /\ \A at : [NotLoading EXCEPT !.at = at].at = at
    BY DEF NotLoading
  <1>4. CASE OpenBilling
    <2>1. CASE load' = [NotLoading EXCEPT !.at = "counters", !.left = listed]
      <3>1. load'.at = "counters" /\ load'.left = listed /\ load'.total = 0
        BY <2>1 DEF NotLoading
      <3>2. before' = {j \in charged \cap finished : MeterOf[j] \in listed}
        BY <1>4 DEF OpenBilling
      <3>3. ReadOf(before', load'.left) = {}
        BY <3>1, <3>2 DEF ReadOf
      <3>4. Used(ReadOf(charged, load'.left)) \in Nat
        <4>1. ReadOf(charged, load'.left) \subseteq charged
          BY DEF ReadOf
        <4> QED BY <4>1, ChargedFinite, FS_Subset, UsedFinite
      <3>5. /\ load'.total <= Used(ReadOf(charged, load'.left))
            /\ load'.total >= Used(ReadOf(before', load'.left))
        BY <3>1, <3>3, <3>4, UsedNone
      <3> QED BY <1>1, <3>1, <3>5 DEF LoadInv, UsageShown, Used, ReadOf
    <2>2. CASE load' = [NotLoading EXCEPT !.at = "rows"]
      BY <1>2, <1>3, <2>2
    <2> QED BY <1>4, <2>1, <2>2 DEF OpenBilling
  <1>5. CASE OpenAstray
    BY <1>2, <1>3, <1>5 DEF OpenAstray
  <1>6. ASSUME NEW k \in Meters, GetCounter(k) PROVE LoadInv'
    <2>1. load'.at = "counters" /\ before' = before
      BY <1>6 DEF GetCounter, UsageTyped, LoadType
    <2>2. /\ load'.total <= Used(ReadOf(charged, load'.left))
          /\ ~unsure' => load'.total >= Used(ReadOf(before, load'.left))
      BY <1>6, CounterRead
    <2> QED BY <1>1, <2>1, <2>2 DEF LoadInv, UsageShown, Used, ReadOf
  <1>7. CASE ScanJobs
    <2>1. /\ load'.at = "seed" /\ before' = before
          /\ load'.total = Used(FinishedRows)
          /\ unsure' = (\E j \in finished : rowOf[j] # "ok" \/ j \in Nameless)
      BY <1>7 DEF ScanJobs, UsageTyped, LoadType
    <2>2. FinishedRows \subseteq charged \cup finished
      BY DEF FinishedRows, UsageTyped
    <2>3. Used(FinishedRows) <= Used(charged \cup finished) /\ Used(FinishedRows) \in Nat
      BY <2>2, ChargedFinite, UsedSubset
    <2>4. ASSUME ~unsure' PROVE Used(FinishedRows) >= Used(before)
      <3>1. before \subseteq finished /\ finished \subseteq Charges
        BY DEF UsageTyped
      <3>2. before \subseteq FinishedRows
        BY <2>1, <2>4, <3>1 DEF FinishedRows
      <3>3. FinishedRows \subseteq Charges /\ IsFiniteSet(FinishedRows)
        BY <2>2, ChargedFinite, FS_Subset
      <3>4. Used(before) <= Used(FinishedRows) /\ Used(before) \in Nat
        BY <3>2, <3>3, UsedSubset
      <3> QED BY <2>3, <3>4
    <2> QED BY <1>1, <2>1, <2>3, <2>4 DEF LoadInv, UsageShown, Used
  <1>8. ASSUME NEW name, SeedName(name) PROVE LoadInv'
    <2>1. /\ load.at = "seed" /\ load'.at = "seed" /\ load'.total = load.total
          /\ before' = before /\ unsure' = unsure
      BY <1>8 DEF SeedName, UsageTyped, LoadType
    <2> QED BY <1>1, <2>1 DEF LoadInv, UsageShown, Used
  <1>9. CASE ShowStats
    <2>1. /\ load'.at = "shown" /\ before' = before /\ unsure' = unsure
          /\ stats' = Calculated(UnitsOf(load.total))
          /\ load.at = "seed" \/ (load.at = "counters" /\ load.left = {})
      BY <1>3, <1>9 DEF ShowStats
    <2>2. /\ load.total <= Used(charged \cup finished)
          /\ ~unsure => load.total >= Used(before)
      <3>1. CASE load.at = "seed"
        BY <3>1 DEF LoadInv
      <3>2. CASE load.at = "counters" /\ load.left = {}
        <4>1. ReadOf(charged, load.left) = charged /\ ReadOf(before, load.left) = before
          BY <3>2 DEF ReadOf
        <4>2. Used(charged) <= Used(charged \cup finished) /\ Used(charged) \in Nat
              /\ Used(charged \cup finished) \in Nat
          BY ChargedFinite, UsedSubset
        <4>3. load.total <= Used(charged) /\ (~unsure => load.total >= Used(before))
          BY <3>2, <4>1 DEF LoadInv
        <4>4. load.total \in Int
          BY DEF UsageTyped, LoadType
        <4> QED BY <4>2, <4>3, <4>4
      <3> QED BY <2>1, <3>1, <3>2
    <2>3. load.total \in Int /\ Used(charged \cup finished) \in Nat /\ Used(before) \in Nat
      BY ChargedNat DEF UsageTyped, LoadType
    <2>4. stats'.units = UnitsOf(load.total)
      BY <2>1 DEF Calculated
    <2>5. /\ stats'.units * UnitSize \in Nat
          /\ stats'.units * UnitSize < Used(charged \cup finished) + UnitSize
      BY <2>2, <2>3, <2>4, UnitsEnough
    <2>6. ASSUME ~unsure
          PROVE  /\ stats'.units * UnitSize >= Used(before)
                 /\ Used(before) >= FreeUnits * UnitSize => stats'.rest = 0
                 /\ Used(before) > FreeUnits * UnitSize => stats'.cost > 0
      BY <2>1, <2>2, <2>3, <2>6, CardsEnough
    <2> QED BY <1>1, <2>1, <2>5, <2>6 DEF LoadInv, UsageShown, Used
  <1>10. CASE LeaveBilling
    BY <1>2, <1>3, <1>10 DEF LeaveBilling
  <1> QED BY <1>4, <1>5, <1>6, <1>7, <1>8, <1>9, <1>10 DEF Loading

\* UsageInv holds throughout.
LEMMA UsageInvariance == Spec => []UsageInv
  <1>1. Init => UsageInv
    BY UsageStarted DEF Init
  <1>2. UsageInv /\ [Next]_billingVars => UsageInv'
    <2> SUFFICES ASSUME UsageInv, [Next]_billingVars PROVE UsageInv'
      OBVIOUS
    <2>0. UsageTyped /\ CounterInv /\ LoadInv
      BY DEF UsageInv
    <2>1. CASE World
      <3>1. UsageTyped' /\ charged \subseteq charged' /\ finished \subseteq finished'
            /\ UNCHANGED loadVars
        BY <2>0, <2>1, WorldTyped
      <3>2. CounterInv' /\ LoadInv'
        BY <2>0, <2>1, <3>1, CounterStep, LoadWorld
      <3> QED BY <3>1, <3>2 DEF UsageInv
    <2>2. CASE Loading
      <3>1. UsageTyped' /\ UNCHANGED jobVars
        BY <2>0, <2>2, LoadingTyped
      <3>2. CounterInv' /\ LoadInv'
        BY <2>0, <2>2, <3>1, CounterKept, LoadStep
      <3> QED BY <3>1, <3>2 DEF UsageInv
    <2>3. CASE UNCHANGED usageVars
      <3>1. UNCHANGED jobVars /\ UNCHANGED loadVars
        BY <2>3 DEF usageVars
      <3>2. UsageTyped'
        BY <2>0, <3>1 DEF UsageTyped, jobVars, loadVars
      <3>3. CounterInv'
        BY <2>0, <3>1, CounterKept
      <3>4. LoadInv'
        BY <2>0, <3>1, <3>2, LoadWorld DEF jobVars
      <3> QED BY <3>2, <3>3, <3>4 DEF UsageInv
    <2> QED BY <2>1, <2>2, <2>3, UsageSplit DEF Next, billingVars
  <1> QED BY <1>1, <1>2, PTL DEF Spec

\* The billing page shows no more than what was charged or finished, but for the
\* unit that is begun, and at least what the finished jobs had used when it was
\* opened, unless what it read was short; for any keys, whatever their names, any
\* jobs, sizes of a unit and free units, and any number of refunds and losses.
THEOREM UsageIsShown == Spec => []UsageShown
  <1>1. UsageInv => UsageShown
    BY DEF UsageInv, LoadInv
  <1> QED BY <1>1, UsageInvariance, PTL
==============================================================================

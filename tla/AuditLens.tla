------------------------------ MODULE AuditLens ------------------------------
(***************************************************************************)
(* The read side of AuditLens (modules/auditlens): an artifact of a GitHub *)
(* workflow run is fetched and its text files stored as one evidence       *)
(* document; later its findings are parsed, deduplicated and calibrated    *)
(* and stored as another.  Meanwhile runs upload artifacts and GitHub      *)
(* deletes old ones.  Documents are their own references.                  *)
(*                                                                         *)
(* A step of a call is one request to GitHub or one access to the store.   *)
(* Module Runtime composes them: a call leaves here at pc "log".           *)
(***************************************************************************)
EXTENDS Calls, Integers, Sequences, SequencesExt

CONSTANTS
    Paths,              \* the paths of archive entries, a sequence in string order
    DeterministicPaths, \* those that end in deterministic-findings.json
    ConsolePaths,       \* those with console-errors in them
    LighthousePaths,    \* those with lighthouse in them, in any case
    Texts,              \* contents that decode as UTF-8
    NoText,             \* any other content, and a directory
    Empty,              \* the empty text
    TokenErrors,        \* texts with "Unexpected token" in them
    LowSeo,             \* texts that are a Lighthouse report with seo below 0.8
    ReportOf,           \* [Texts -> the findings list in it, or Malformed]
    Malformed,
    Archives,           \* sequences of [path, body]
    ArtifactNames,
    WorkflowRuns,       \* the sequence GitHub lists: [id, branch, prs]
    MaxArtifacts        \* bound: artifacts ever uploaded

\* A report is what some program wrote: its confidence may be any number.
ASSUME AuditLensAssumption ==
    /\ Paths \in Seq(ToSet(Paths))
    /\ Archives \subseteq Seq([path : ToSet(Paths), body : Texts \cup {NoText}])
    /\ \A x \in Texts : ReportOf[x] # Malformed =>
          /\ ReportOf[x] \in Seq(ToSet(ReportOf[x]))
          /\ \A f \in ToSet(ReportOf[x]) : f.confidence \in {None} \cup Int

VARIABLES
    artifacts,  \* on GitHub, newest first: [id, run, name, zip]
    uploaded    \* history: every artifact there ever was, by id

lensVars == <<artifacts, uploaded>>

RunIds == {WorkflowRuns[n].id : n \in DOMAIN WorkflowRuns}

AuditLensInit == artifacts = <<>> /\ uploaded = <<>>

-----------------------------------------------------------------------------
(* Evidence                                                                *)

\* list_run_artifacts (one page of 50, more than there are here): where those
\* of one name are.
Listed(run, name) ==
    {n \in DOMAIN artifacts : artifacts[n].run = run /\ artifacts[n].name = name}

\* list_runs: a pull request selects from what was listed for the branch.
ListRuns(p) ==
    LET r == at[p].req IN
    /\ at[p].pc = "list_runs"
    /\ Step(p, "log", [runs |-> SelectSeq(WorkflowRuns, LAMBDA w :
            (r.branch = None \/ w.branch = r.branch) /\ (r.pr = None \/ r.pr \in w.prs))])
    /\ UNCHANGED <<storeVars, lensVars>>

\* fetch_evidence, first request: the first artifact of that name, or ValueError.
ListArtifacts(p) ==
    LET found == Listed(at[p].req.run, at[p].req.name) IN
    /\ at[p].pc = "fetch_evidence"
    /\ IF found = {} THEN Fails(p) ELSE Step(p, "download", artifacts[Min(found)].id)
    /\ UNCHANGED <<storeVars, lensVars>>

\* Mutation: an entry that does not decode takes the file's earlier text away.
FilesOfLast(zip) ==
    LET entries(q) == {n \in DOMAIN zip : zip[n].path = q}
        last(q) == zip[Max(entries(q))].body IN
    [q \in {q \in ToSet(Paths) : entries(q) # {} /\ last(q) \in Texts} |-> last(q)]

\* extract_text_files_from_zip: the last text under each path; what is no text
\* is skipped.
FilesOf(zip) ==
    LET texts(q) == {n \in DOMAIN zip : zip[n].path = q /\ zip[n].body \in Texts} IN
    [q \in {q \in ToSet(Paths) : texts(q) # {}} |-> zip[Max(texts(q))].body]

\* The second request fails when the artifact is gone.  An artifact's content
\* never changes: a new upload is a new id.
Download(p) ==
    LET r == at[p].req
        id == at[p].got IN
    /\ at[p].pc = "download"
    /\ IF \E n \in DOMAIN artifacts : artifacts[n].id = id
       THEN Step(p, "put", [run |-> r.run, name |-> r.name, id |-> id,
                            files |-> FilesOf(uploaded[id].zip)])
       ELSE Fails(p)
    /\ UNCHANGED <<storeVars, lensVars>>

\* put_json_immutable of an evidence or a findings document.
PutDocument(p) ==
    /\ \/ at[p].pc = "put" /\ Exists(p, at[p].got, "put_open", "log")
       \/ at[p].pc = "put_open" /\ Open(p, at[p].got, "put_write")
       \/ at[p].pc = "put_write" /\ Write(p, at[p].got, "log")
    /\ UNCHANGED lensVars

-----------------------------------------------------------------------------
(* Findings                                                                *)

Default(value, otherwise) == IF value = None THEN otherwise ELSE value

\* _make_finding_id: a fingerprint of what the report says, before defaults.
IdOf(f) == [severity |-> f.severity, category |-> f.category, title |-> f.title,
            evidence |-> f.evidence]

\* parse_deterministic_findings; confidence in hundredths.
Normalized(f) ==
    [id |-> IdOf(f),
     severity |-> Default(f.severity, "s3"),
     category |-> Default(f.category, "general"),
     title |-> Default(f.title, "Untitled finding"),
     evidence |-> f.evidence,
     confidence |-> Default(f.confidence, 80)]

\* The elements of s that are in T, in their order.
Among(s, T) ==
    LET upTo[n \in 0 .. Len(s)] ==
          IF n = 0 THEN <<>>
          ELSE LET before == upTo[n - 1] IN IF s[n] \in T THEN Append(before, s[n]) ELSE before
    IN upTo[Len(s)]

Matching(files, paths, texts) == {q \in DOMAIN files \cap paths : files[q] \in texts}

\* The stored document has its keys in order, so the files are visited in the
\* order of their paths whatever order the archive had.
FilesIn(files, paths, texts) == Among(Paths, Matching(files, paths, texts))

\* What a fixed rule makes of a file that it matches; its id is fixed too.
RuleFinding(rule, category, confidence, path) ==
    [id |-> [rule |-> rule], severity |-> "s3", category |-> category, title |-> rule,
     evidence |-> path, confidence |-> confidence]

ConsoleFinding(path) == RuleFinding("console_unexpected_token", "correctness", 90, path)
LighthouseFinding(path) == RuleFinding("lighthouse_seo_low", "seo", 80, path)

\* _fallback_findings_from_files, _lighthouse_findings_from_files
ConsoleFindings(files) ==
    LET matched == FilesIn(files, ConsolePaths, TokenErrors) IN
    [n \in DOMAIN matched |-> ConsoleFinding(matched[n])]

LighthouseFindings(files) ==
    LET matched == FilesIn(files, LighthousePaths, LowSeo) IN
    [n \in DOMAIN matched |-> LighthouseFinding(matched[n])]

\* The report of the first deterministic file; an empty one counts as none.
Report(files) ==
    LET reports == FilesIn(files, DeterministicPaths, Texts) IN
    IF reports = <<>> \/ files[Head(reports)] = Empty
    THEN <<>>
    ELSE ReportOf[files[Head(reports)]]

ReportFindings(files) == [n \in DOMAIN Report(files) |-> Normalized(Report(files)[n])]

UsesReport(profile) == profile \notin {"console", "lighthouse"}

\* _findings_from_files; any other profile is "auto".
RawFindings(files, profile) ==
    CASE profile = "deterministic" -> ReportFindings(files)
      [] profile = "console" -> ConsoleFindings(files)
      [] profile = "lighthouse" -> LighthouseFindings(files)
      [] OTHER -> ReportFindings(files) \o ConsoleFindings(files) \o LighthouseFindings(files)

\* By title: one string of the two, which two pairs may have in common.
KeyOf(f, strategy) ==
    IF strategy = "by_title" THEN f.category \o "::" \o f.title ELSE f.id

\* Mutation: a later finding replaces the one with its key.
DedupeLast(findings, strategy) ==
    FoldLeft(LAMBDA kept, f :
        Append(SelectSeq(kept, LAMBDA g : KeyOf(g, strategy) # KeyOf(f, strategy)), f),
        <<>>, findings)

\* _dedupe_findings: one pass, the first of a key stays.
Dedupe(findings, strategy) ==
    LET kept[n \in 0 .. Len(findings)] ==
          IF n = 0 THEN <<>>
          ELSE LET before == kept[n - 1] IN
               IF \E m \in DOMAIN before :
                     KeyOf(before[m], strategy) = KeyOf(findings[n], strategy)
               THEN before ELSE Append(before, findings[n])
    IN kept[Len(findings)]

\* _calibrate_confidence: by severity, and no higher than 1.
Bump(severity) ==
    CASE severity = "s1" -> 12 [] severity = "s2" -> 8 [] severity = "s3" -> 4 [] OTHER -> 2

\* Mutation: nothing keeps it below 1.
CalibrateUncapped(f) == [f EXCEPT !.confidence = @ + Bump(f.severity)]

Calibrate(f) ==
    [f EXCEPT !.confidence = IF @ + Bump(f.severity) < 100 THEN @ + Bump(f.severity) ELSE 100]

\* document.get("files", {}): a document of another kind has none.
FilesAt(document) ==
    IF "files" \in DOMAIN document THEN document.files ELSE [q \in {} |-> Empty]

\* parse_findings of any reference: a file that is not whole, or a report that is
\* needed and does not parse, ends the call, a Lighthouse file that does not
\* parse is skipped.
ParseFindings(p) ==
    LET r == at[p].req
        files == FilesAt(r.evidence) IN
    /\ at[p].pc = "parse_findings"
    /\ IF r.evidence \in torn \/ (UsesReport(r.profile) /\ Report(files) = Malformed)
       THEN Fails(p)
       ELSE LET kept == Dedupe(RawFindings(files, r.profile), r.strategy) IN
            Step(p, "put", [source |-> r.evidence, profile |-> r.profile,
                            strategy |-> r.strategy,
                            findings |-> [n \in DOMAIN kept |-> Calibrate(kept[n])]])
    /\ UNCHANGED <<storeVars, lensVars>>

-----------------------------------------------------------------------------

AuditLensHandle(p) ==
    ListRuns(p) \/ ListArtifacts(p) \/ Download(p) \/ PutDocument(p) \/ ParseFindings(p)

\* A workflow run uploads an artifact, perhaps again under the same name.
Upload(run, name, zip) ==
    LET a == [id |-> Len(uploaded) + 1, run |-> run, name |-> name, zip |-> zip] IN
    /\ Len(uploaded) < MaxArtifacts
    /\ uploaded' = Append(uploaded, a)
    /\ artifacts' = <<a>> \o artifacts
    /\ UNCHANGED <<at, storeVars>>

\* An artifact expires or is deleted.
Expire(n) ==
    /\ artifacts' = RemoveAt(artifacts, n)
    /\ UNCHANGED <<at, storeVars, uploaded>>

AuditLensWorld ==
    \/ \E run \in RunIds, name \in ArtifactNames, zip \in Archives : Upload(run, name, zip)
    \/ \E n \in DOMAIN artifacts : Expire(n)

-----------------------------------------------------------------------------
(* Properties                                                              *)

EvidenceDocuments == {d \in objects : DOMAIN d = {"run", "name", "id", "files"}}
FindingsDocuments == {d \in objects : DOMAIN d = {"source", "profile", "strategy", "findings"}}

\* All the text of one artifact and nothing but the text; a text that was there
\* is not lost to an unreadable entry of the same path.
OfOneArtifact(d) ==
    LET a == uploaded[d.id]
        text(n) == a.zip[n].body \in Texts IN
    /\ a.run = d.run /\ a.name = d.name
    /\ \A q \in DOMAIN d.files : \E n \in DOMAIN a.zip :
          a.zip[n] = [path |-> q, body |-> d.files[q]]
    /\ \A n \in DOMAIN a.zip : text(n) =>
          /\ a.zip[n].path \in DOMAIN d.files
          /\ (\A m \in DOMAIN a.zip : m > n => a.zip[m].path # a.zip[n].path \/ ~text(m))
                => d.files[a.zip[n].path] = a.zip[n].body

\* Evidence is what it says: the text of one artifact of that run and name,
\* whatever is uploaded or expires between the two requests.
EvidenceIsOneArtifact == \A d \in EvidenceDocuments : OfOneArtifact(d)

\* What the findings of a document are about: the entries of the report, and
\* the files that match a rule.
Entries(d) ==
    IF d.profile \in {"console", "lighthouse"} THEN <<>> ELSE ReportFindings(FilesAt(d.source))

Ruled(d) ==
    LET files == FilesAt(d.source) IN
    (IF d.profile \in {"deterministic", "lighthouse"} THEN {}
     ELSE {ConsoleFinding(q) : q \in Matching(files, ConsolePaths, TokenErrors)})
    \cup (IF d.profile \in {"deterministic", "console"} THEN {}
          ELSE {LighthouseFinding(q) : q \in Matching(files, LighthousePaths, LowSeo)})

\* g is f with its confidence raised once, unless it was 1 or more.
Raised(f, g) ==
    /\ [g EXCEPT !.confidence = f.confidence] = f
    /\ g.confidence > f.confidence \/ f.confidence >= 100
    /\ g.confidence - f.confidence <= 12

\* No two findings have one key; the first report entry of each key is there as
\* it was, and every file that matches a rule is accounted for by a finding of
\* its key; nothing else is there, and no confidence is more than 1.
Complete(d) ==
    LET entries == Entries(d)
        listed == ToSet(d.findings)
        Key(f) == KeyOf(f, d.strategy) IN
    /\ \A m, n \in DOMAIN d.findings : m # n => Key(d.findings[m]) # Key(d.findings[n])
    /\ \A n \in DOMAIN entries :
          (\A m \in 1 .. n - 1 : Key(entries[m]) # Key(entries[n]))
              => \E g \in listed : Raised(entries[n], g)
    /\ \A f \in Ruled(d) : \E g \in listed : Key(g) = Key(f)
    /\ \A g \in listed :
          g.confidence <= 100 /\ \E f \in ToSet(entries) \cup Ruled(d) : Raised(f, g)

\* Findings are of evidence in the store, complete and calibrated once, whatever
\* the profile and the strategy.
FindingsAreComplete == \A d \in FindingsDocuments : d.source \in objects /\ Complete(d)
=============================================================================

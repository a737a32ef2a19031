------------------------------ MODULE MCRuntime ------------------------------
(***************************************************************************)
(* Two API processes; two reports of findings, console logs and Lighthouse *)
(* files in two archives, one of them with two entries of one path; two    *)
(* findings of one title key; two releases of three tags, and a branch     *)
(* beside the default one.                                                 *)
(***************************************************************************)
EXTENDS Runtime

CONSTANTS p1, p2, profile, list, login, upload, v1, v2, v3

MCPaths == <<"a/deterministic-findings.json", "b/deterministic-findings.json",
             "console-errors-1.log", "lighthouse/console-errors-2.log">>
MCDeterministic == {MCPaths[1], MCPaths[2]}
MCConsole == {MCPaths[3], MCPaths[4]}
MCLighthouse == {MCPaths[4]}

MCTexts == {"empty", "report", "not json", "unexpected token", "low seo"}
Finding(s, c, t, n) ==
    [severity |-> s, category |-> c, title |-> t, evidence |-> "a", confidence |-> n]
MCReports == [x \in MCTexts |->
    IF x = "report"
    THEN <<Finding("s1", "seo", "slow", 95), Finding(None, "seo", "slow", None),
           Finding("s3", "seo", "slow::page", 95), Finding("s3", "seo::slow", "page", 20),
           Finding("s2", "correctness", "console_unexpected_token", 250)>>
    ELSE Malformed]

Entry(n, text) == [path |-> MCPaths[n], body |-> text]
MCArchives ==
    {<<Entry(4, "unexpected token"), Entry(3, "unexpected token"), Entry(2, "report")>>,
     <<Entry(3, "unexpected token"), Entry(3, NoText), Entry(1, "not json"), Entry(4, "low seo")>>}
MCProfiled ==
    {<<"auto", "by_title">>, <<"deterministic", "by_id">>, <<"console", "by_id">>,
     <<"lighthouse", "by_id">>}
MCWorkflowRuns ==
    <<[id |-> 2, branch |-> "main", prs |-> {}], [id |-> 1, branch |-> "dev", prs |-> {7}]>>

\* 1 - 2 - 3 - 4 on the default branch, 5 on a branch from 2.
MCReach == <<{1}, {1, 2}, {1, 2, 3}, {1, 2, 3, 4}, {1, 2, 5}>>
MCReleases == <<v3, v2>>
MCTagged == [t \in {v1, v2, v3} |-> CASE t = v1 -> 1 [] t = v2 -> 2 [] t = v3 -> 5]

ScanReport == [report |-> "scan"]
MCOthers == {ScanReport}
MCReceipts == {<<>>, <<"receipt">>}

Generate(tag, from) ==
    [tool |-> "generate_notes", tag |-> tag, from |-> from, to |-> None,
     window |-> 2, fallback |-> None]
Scan(host, auth) == [tool |-> "start_scan", host |-> host, auth |-> auth]

MCRequests ==
    {[tool |-> "list_runs", branch |-> "dev", pr |-> 7],
     [tool |-> "fetch_evidence", run |-> 1, name |-> upload],
     [tool |-> "parse_findings", evidence |-> ScanReport, profile |-> "auto", strategy |-> "by_id"],
     [tool |-> "core"], [tool |-> "list_receipts"],
     Generate(None, None), Generate(v2, v1),
     Scan("www.home", login), Scan("home.internal", None)}

Symmetric == Permutations({p1, p2})

MCEntriesIn == [h \in {"www.home", "home.internal"} |->
    IF h = "www.home" THEN {"home"} ELSE {"home", "internal"}]
=============================================================================

# Xpsd: a TLA+ verification project

Xpsd decides whether the vulnerabilities of a scan report are reachable in a code base. A Go
command (`cmd/xpsd`) selects findings, runs one agentic LLM session for each, has the decisive
verdicts challenged by a second session, and writes verdicts, reports, SARIF and an exit code. The
sessions call tools of an MCP server (`tools/mcp-server`) and, through it, of a web fetcher
(`tools/web-fetcher`). A container entrypoint turns all this into a GitHub action.

The modules here are translated from the source. TLC checks them on small instances and TLAPS
proves theorems about them for every instance. `PROJECT.json` ties each definition to the lines it
models and each property to a slip in the code that would break it.

## Inventory

| component | state it keeps | operations | talks to |
|---|---|---|---|
| ReAct enforcer (`react.go`) | cycle, thought flag, seen calls, token count, usage, under one mutex | prompt, pre-tool and post-tool hooks; event handler; `Usage` | the Copilot runtime calls the hooks, in parallel for parallel tool calls, and delivers events on a goroutine of its own |
| Session runner (`runner.go`) | a session; the caller's usage record | `RunSession`, `RunText` | enforcer, runtime; called by scan mode, single mode and the review |
| Adversarial review (`challenge.go`) | none beyond a call | `ChallengeVerdict`, `parseChallenge`, `mergeChallenge` | runs a session; between analysis and persisting |
| Scan run (`batch.go`, `main.go`) | results so far, usage totals, files of the run directory | `RunScan`, `WriteScanArtifacts`, `CountResults`, `FailOnTriggered` | analysis and render callbacks; a signal cancels its context |
| Single-CVE mode (`main.go`) | the verdict, `verdict.json`, the SARIF file | `runSingleMode` | sessions, review; the body of `run()` |
| Child processes and MCP client (`main.go`, `mcp.go`, `web.go`, `orient.go`) | ports, processes, deferred calls | start, poll, stop; `CheckMCP` | MCP server, web fetcher, Copilot CLI; signals |
| Selection (`scan.go`, `exploit.go`, `main.go`) | the list of findings, the rows of the feed matched | parse, dedup, `-only`, floors, gates, rank and cap | scan report, CVSS-BT feed, enrichment |
| Enrichment (`enrich.go`) | the findings, a shared cache, a count, a pool of six | `EnrichFindings` | the OSV API |
| Container action (`docker-entrypoint.sh`, `action.yml`) | artifacts and outputs | run, publish | runs the command, reads its files afterwards |
| Code search tools (`code_tools.go`, `comm_tools.go`, `lang.go`, `common.go`) | none beyond a request | `grep`, `lang_*` | grep, ast-grep, tool cache |
| Tool cache (`tool_cache.go`) | results by tool and arguments, 12 hours | `cachedJSON` | the lang tools, which also read the fetched directories |
| Dependency fetch (`dep_tools.go`) | `<tool output>/deps/<name>` | `fetch_dependency_source` | archive hosts, git; each call on its own goroutine |
| SARIF (`sarif.go`) | none | `BuildScanSARIF`, `VerdictToSARIF` | results of a run, in the order of the ranking |
| MCP server, other tools | none beyond a request | python, OSV, web, proxy | the file system, the network |
| Web fetcher (`server.py`) | one browser | `render` | MCP server |

What is hard in it, and what makes each part correct:

- *Enforcer*: hooks of parallel calls interleave, events lag behind them, and a reply is composed
  after the lock is released. Correct if the budget is passed by no more than the calls in flight,
  the model is told before it is refused, strict mode runs no call twice, and the usage is exact.
- *Review*: four ways to fail and a merge that moves a route between fields. Correct if only
  cited disagreement changes a verdict, and the route stays where a reader looks for it.
- *Scan run*: cancellation, kill and failed writes between any two steps. Correct if every finding
  is accounted for, the gate fails closed, files, counts, exit code and outputs agree, and the usage
  of every session that answered is in the totals once.
- *Lifecycle*: three children that may die, come up late or never, a port that is free only when it
  is chosen, polls that know neither the child nor the context, and seven early returns, each after
  another set of deferred calls. Correct if a run that returns leaves no child and nothing
  unreadable, and if it returns at all.
- *Single-CVE mode*: the same failures in another order, with one verdict and no aggregate. Correct
  if what it leaves and how it exits tell the verdict after the review.
- *Selection*: the order of six filters and a feed that may be cut. Correct if no session is spent
  on a finding a filter drops and none that qualifies is lost but to better ones.
- *Reports and SARIF*: five formats, each with its own way to several scores, several ids and
  missing data; findings of one id that share a SARIF rule. Correct if a score keeps its vector, one
  vulnerability is one finding whatever id it comes under, and no rule hides a result of its own.
- *Enrichment*: workers race on a cache that is unlocked during a fetch. Correct if the outcome is
  that of a sequential walk, nothing is overridden, and whatever has a score is rated.
- *Search*: limits cut before and after a shared cache, children that fail or are killed. Correct if
  an answer not marked as truncated is complete. A reachability analysis concludes "no" from what a
  search did not find, so a silent loss is the worst a search can do.
- *Dependency fetch*: no lock on a directory that calls share. Correct, while calls come one at a
  time (`overlap` is a history variable that says so), if a returned path is whole and stays so; what
  concurrent calls do to it is a finding.

`PROJECT.json` lists the hazards with their lines.

## Modules

| module | models | state and actions |
|---|---|---|
| `ToolBudget` | what a session promises of its tool-call budget | calls admitted and completed, and whether the model was told; `Admit`, `Complete`, `Tell` |
| `React` | the enforcer in one session | the struct's fields under the names of the code; `UserPrompt`, `PreToolUse`, `PostToolUse`, `EventHandler` are the hooks and the handler, each atomic as the mutex makes it; `PostReply` is the part of the post-tool hook after its first unlock; `Emit`s are the runtime and the model; `Answer` and `Abort` are the two ways `SendAndWait` returns |
| `Challenge` | a verdict's text and its review, as pure operators | `ShownIn`, `Overturns`, `Merge`, used by `Review`, `SingleRun` and `ScanRun` |
| `Review` | one verdict and its review | every first verdict the prompt's schema allows, every reviewer answer |
| `Lifecycle` | `run()` around its body | `at` is the place in `run()`, one action per start, poll and deferred call; `Outside` is what children, other programs and signals do at any moment; `Body` is any body that writes and returns |
| `SingleRun` | single-CVE mode inside the action | `Lifecycle` with `runSingleMode` as its body and `Review` as its review; `Publish` is the entrypoint |
| `ScanRun` | a run of scan mode inside the action | one action per step of `RunScan` and `runScanMode`, the writes of `verdicts.json` and of the SARIF file among them; `Signal` and `Kill` at any moment; `PublishOutputs` is the entrypoint |
| `Enrich` | the pool of workers | `Spawn` takes a slot; a lookup is a hit or a miss, a fetch ends later; `Use` is the rest of an iteration |
| `Report` | the five report parsers, as pure operators | an entry is one record for all formats; what each parser takes of it for ids, severity, score and vector |
| `Sarif` | the SARIF file of a scan, as pure operators | an answer per finding; outcome, level, rule, rating and the band a rating is in |
| `Select` | report to chosen findings to SARIF file | one action per stage of `main.go` 190-255, one step per row of the feed; `RunScan` gives each chosen finding any outcome |
| `Search` | requests to the search tools | a request runs its rules one after the other, each from the cache or by a child process; `Parse` is the loop over the lines of grep, `Use` what a tool keeps of a result, `Answer` the reply and its mark |
| `DepFetch` | calls on one directory, and the search cache over it | one action per step that touches the directory, one file at a time |

`Review` and `ScanRun` extend `Challenge`; `SingleRun` extends `Lifecycle` and `Review`; `Select`
extends `Sarif`, and that `Report`. `React` implements `ToolBudget` under the refinement mapping
`Budget` of `React`. `SingleRun` implements `Lifecycle`, whose variables it keeps, and `Review`: what
is shown of either alone holds of it. A session is one step of `SingleRun` and `ScanRun`: what it
does inside is `React`. `Select` takes the enrichment as what `Enrich` was shown to keep
(`NeverOverridden`, `ScoredIsRated`): any filling-in of what was missing that leaves scored findings
rated; `FitsSelection` proves that the pool does just that. The `MC...` modules give the instances, the `...Proofs` modules hold the theorems.

Abstractions worth knowing: a verdict's text is what Go reads of it (its `reachable` field, "prose"
for what `parseVerdict` refuses, "blank") together with what the entrypoint is shown of it. The two
differ: Python takes the key in lower case only, of any object, and Go takes it in any case but
refuses an object in which some other field has the wrong type. `ShownIn` says what goes with what,
for texts that name the field once; `Printed` adds the line ends that the shell drops. A
tool call is its key (tool and arguments); severities are cut to a few bands; a rating of the
SARIF file is twice a score, so that 8.0 for an unscored high finding lies between two scores of its
band, as in the code (`sarif.go:218`); a CVSS vector is the
score it encodes (`Enrich`) or the attack vector it shows (`Select`); a package is a name and a
version, of which the ranking compares the name only, so that ties stay as they came; a directory is the set of its
files, each with the source it came from; a search rule is the set of the sites it would print, and
the limit in bytes on an answer is counted in sites; a child process is where it is on the way to
serving. Where Go walks a map (Trivy's scores) or a tool prints in an order of its own (grep,
ast-grep) the choice is nondeterministic. Messages, logging and layout are left out.

In `Search` the history variable `quiet` keeps what limited an answer without being told in it: a
grep killed at its deadline, the limit in bytes, a pattern that failed, the limit of a single
pattern. `NothingLostUntold` excepts these four, which are in the code and listed below, and says
that there is no fifth, with any requests in flight together and any entry in the cache.

The lines headed "Forms some definitions below would take under a slip in the code" are not part
of the models: each is what one definition would be after a plausible mistake, and `PROJECT.json`
pairs it with the property that then fails.

## Runs

Passing runs:

| run | question | bounds |
|---|---|---|
| `react_lenient` | How far can parallel calls pass the two budgets, is the model told before it is refused and always in the end, is the reported usage exact, does the enforcer implement `ToolBudget`? | budget of two calls with two in flight, the smallest at which one is in flight when the last one completes; context sizes on both sides of the token ceiling; events up to two behind |
| `react_strict` | Does strict mode run a call twice, or lose a thought? | three call keys, a queue of events two deep, so that a turn end and a thought can be in it together |
| `single` | Is every merged verdict one a reader can follow, do files, output and exit code tell it, is a child or an unreadable file ever left, does the run end, does it implement the lifecycle? | none but the settings: all verdicts and answers of the abstraction, every fate of three children; the stricter policy over the files of a former run (`GateFailsClosed` and `TellsOneVerdict` have the others) |
| `scan` | Counts, gate, artifacts, SARIF file, outputs and usage under failure, cancellation, kill? | two findings, so that one can precede and one follow a failure; the run takes the strictest policy, the theorems have all |
| `enrich` | Is the outcome that of a sequential walk and the count exact; is nothing overridden and all that is scored rated; does it return? | three findings that share two ids, two workers: both races on one id and waiting for a slot happen; three kinds of report on a finding (nothing known, a severity only, a score without a vector) |
| `select` | Do score and vector belong together, are sessions spent well (floors, `-only`, cap, duplicates, aliases), does anything that qualifies get lost, and does the SARIF file rate what was found reachable or never decided in no lower a band than it belongs? | reports in each format of up to three entries drawn from three to five: duplicates with other aliases, another id for one CVE, another version of one package, an empty id, several scores, a vector that gives none, two scores of the high band and a finding of that band without a score under one id; every feed of up to two rows in any order, short rows, cut or down at any row; for up to three findings every outcome of each session |
| `search` | Is an unmarked answer complete but for the four causes, and is every request answered? | two requests in flight together for one rule of three sites, by any two tools with limits below, at and above its matches (for a grep and a definition the exceptions leave TLC little to check here; `AnswersAreComplete` has every limit); a definition has two rules, so that one can fail or be cut and the other not |
| `dep_calls` | Is a returned path whole, does it stay so, does the search cache see it whole, do calls end? | two calls, in flight together or not, an archive, a repository and an archive of one file more than the budget |

The runs that end in a violation are findings, each against a line of the documentation or of a
comment that `PROJECT.json` quotes:

- `scan_stale`: a scan that fails early publishes the outcome of a former run.
- `select_cut`: a feed cut short drops findings it had not matched yet.
- `dep_partial`: a call returns the tree that a concurrent one is still extracting.
- `search_file`: `grep` of a single file, the way the tool's own note sends the model when a result
  was too large, drops every line without a colon and misreads the others, because grep prints no
  file name there.

The models also show these divergences, for which no run is kept:

- In strict mode a call is recorded as seen before it is denied for a missing thought
  (`react.go:283`); the denial says to state a thought and "then retry the tool call"
  (`react.go:299`), and the retry is denied as a repeat whose result to reuse (`react.go:271`),
  though it never ran. `StrictRunsOnce` holds.
- No flag of the command turns strict mode on (`runner.go:28` is set by nobody), so a repeated call
  is let through (`react.go:277`); `docs/arch.md:47` says the enforcer "blocks repeat calls".
- `-max-cycles` is checked before a call and counted after it, so parallel calls pass the cap that
  `docs/usage.md:198` says it puts on tool calls; `CallsBounded` says by how many.
- The usage of a session that failed or timed out is in no total (`runner.go:203`), nor is that of
  the rendering turns (`runner.go:228`), where `docs/usage.md:251` says the costs are summed
  "across the run"; `CostExact` says that these two are all that is missing.
- The reviewer's evidence is appended (`challenge.go:176`); `docs/usage.md:219` says it replaces the
  first pass's.
- A scan whose analyses fail exits 0 without a policy (`main.go:547`); `docs/usage.md:286` gives
  exit code 1 for an analysis error, as single mode does (`main.go:429`).
- A decisive verdict stands when its review fails (`challenge.go:117`); `docs/usage.md:206` says
  every one is re-checked.
- The entrypoint reads `verdict.json` with Python's `json.load` (`docker-entrypoint.sh:82`), Go with
  `json.Unmarshal` into a typed record (`batch.go:182`). Of `{"reachable": "yes", "evidence":
  [{"line": "42"}]}` the action publishes yes, while Go counts it as unparsed, does not have it
  reviewed, gives it "needs review" in SARIF and exits 0 under `-fail-on reachable`. The other way
  round, Go takes `{"Reachable": "yes"}` for a yes that the action publishes as empty, or counts as
  no in scan mode. `AccountsAgree` of `SingleRun` excepts what it calls `Disputable`, `OutputsRight`
  the key in another case.
- In single mode the action's output is the field as it is, but for the line ends the shell drops
  (`"yes\n"` is uncertain for Go and yes for the action); `action.yml:142` lists yes, no and
  uncertain. After a failed run, or
  a failed write, it is the field of a former run's file.
- `waitForMCP` takes any server at the chosen port for its own; the port is free between `freePort`
  and the child's bind (`main.go:590`), and the child then listens on one that nobody polls
  (`listenWithRotation`). `AnalysisHasServer` says what is left: some server answered. It also polls
  on to its deadline when the child is dead or the run cancelled.
- A SIGKILL of the command leaves its children running.
- `applyOSV` may put the vector of another score beside a score of the scanner (`enrich.go:138`);
  `scan.go:58` says the two never come from different entries.
- The feed is fetched for `-is-remote` too (`exploit.go:186`, `docs/usage.md:113`).
- `-only` misses an alias that a collapsed duplicate listed (`scan.go:282`, `docs/usage.md:78`).
- A SARIF rule is built from the first finding with its id (`sarif.go:258`). With a severity that
  does not go with the score it may be rated below another finding of the id that was found
  reachable, where `sarif.go:240` says one reachable finding "keeps the whole rule at its real
  severity"; `AlertsStandOut` holds where severities and scores agree, and only because
  `RankAndCap` puts the worst finding first. Even there only the band is kept: behind a high finding
  scored 7.1 an unscored reachable one of the same id, which would be 8.0 by itself, is rated 7.1.
- The bands are those of `scoreToSeverity` (`scan.go:222`), where 9.0 is critical; the comment at
  `sarif.go:204` has GitHub's critical begin above 9.0.
- A grep killed after 60 seconds has exit code -1, which passes for a success (`common.go:126`): the
  error "grep timeout" (`common.go:121`) is never given, and what was printed is the whole answer.
- The loop over grep's lines may end at the limit in bytes (`common.go:152`), while `truncated`
  looks at the number of matches only (`comm_tools.go:141`).
- `lang_get_definition`, `lang_get_outline` and `lang_get_imports` pass over a pattern that fails
  (`lang.go:528`, `551`, `639`) and do not tell when one reaches its limit of 50, 500 or 200.
- A name already used returns whatever source is in its folder (`dep_tools.go:183`).

Bounds are constants named for what they cut (`MaxCalls`, `MaxTurns`, `MaxContext`, `MaxQueue`,
`MaxRequests`, `MaxScore`, `MaxReport`) and appear only in guards and ranges; `Lifecycle`,
`SingleRun` and `Search` need none. They suffice because the properties speak of two calls, two
findings, two ids or two requests at a time. Deadlock is not checked where the program stops:
sessions, runs, pools and requests end.

Fairness is weak and only where the code's own scheduling gives it: a hook that has unlocked runs
to its return (`React`); the process and the entrypoint run on, and every poll and session ends within its time,
while no child need ever come up (`SingleRun`); some goroutine of the pool runs and fetches end
within the HTTP client's timeout (`Enrich`); a request runs on and its children end or are killed at
their deadline (`Search`); a call of `fetch_dependency_source` that has begun runs on, as
`depFetchTimeout` ends every wait (`DepFetch`). Signals, kills, events, tool calls, deaths of
children and cancellation are never fair.

## Theorems

All hold for every value of the constants that the `ASSUME` of their module allows.

- `ReactProofs`: `TypeCorrect`; `CallsAreBounded`, `RefusalIsAnnounced`, `NothingAfterTold` and the
  refinement `KeepsBudget` all follow from the inductive `BudgetInv`. The bound on admitted calls is
  not inductive by itself: it needs that the cycle is one past the completed calls, that a hook in
  progress holds a cycle already counted, and that a spent budget is told or about to be told.
  `StrictOnce` follows from `RecordInv`: what ran is recorded.
  `UsageIsExact`, `ThoughtIsSeen` and `CeilingStops` follow from `QueueInv`, which replays the queue:
  it says what the handler's fields will be when the events still queued have reached it, so that a
  late event is neither lost nor counted twice.
- `SingleRunProofs`, in three parts. Of the review: `MergeSound`, from the shape of the first verdict
  the schema allows and the fact that a verdict is merged once. Of the lifecycle:
  `ChildrenAreStopped`, `EndsReadable` and `AnalysisHasServer`, for any body; the inductive invariant
  says for each place in `run()` which children may be alive and which have not been started, so that
  every early return goes to a deferred call that stops all that were. Of the whole: `RunsInLifecycle`
  and `ReviewsItsVerdict` map each step to one of the lifecycle or the review, or a stutter;
  `NothingIsLeftRunning`, `AllIsReadable`, `ServerHasAnswered`, `VerdictIsSound` and
  `RouteFitsAnswer` then carry the theorems of the parts over. `TypeCorrect`, `GateFailsClosed` and
  `TellsOneVerdict` need an invariant that ties the step of the mode, the place in `run()`, the exit
  code and the state of the review: what is written after the review is never reviewed again.
  `TellsOneVerdict` says less of a text that Go refuses or whose answer is none of the three it asks
  for: there the output may be another than the one Go acted on, as the divergences above show.
- `ScanRunProofs`: `TypeCorrect`; `GateFailsClosed` from `GateInv`. Its loop part ties the number of
  results to the loop index and the place in the code; its failure part says that a failed result
  holds no answer, without which "every answer is no" would not exclude a failed analysis.
  `FilesTellResults` and `OutputsAreRight` (the latter for a clean output directory) from
  `AccountsInv`: no finding has a verdict on disk before it is recorded but the one between being
  stored and being recorded, the aggregate and the SARIF file are made of results that no longer
  change, and an output of the aggregate. `AllAreCounted` from the fact that the five classes partition the results, and
  `CostIsExact` from `CostInv`: what a total lacks is told by a failed result.
- `EnrichProofs`: `TypeCorrect`, `ScoreIsRated`, and `ValuesKept` as an action property. `applyOSV`
  is treated by lemmas of its own. `ChangesAreCounted` from `CountInv`: the count is the number of
  findings whose worker is done and has touched its own, and a worker has touched its finding just
  when it differs from the input, as a value once filled in stays. `PoolIsSequential` from `WalkInv`:
  the finding of a worker that stands at its k-th id is what k - 1 steps of the sequential walk make
  of it, and what the cache holds is what the database holds, unless a fetch was lost. `FitsSelection`
  says that the pool does no more than `Select` assumes of it.
- `ListFacts`: induction over data. `LeastNumber` comes from the library's theorem on well-founded
  relations, and `SetInduction` from it: induction with a set in place of a formula, which needs no
  operator as a parameter. From it, `FoldWalk`: `FoldLeft` of any operator is what the walk of the
  sequence comes to. The operator is a constant of the module, which `EnrichProofs` instantiates with
  `Fill` and `SelectProofs` with `Offer`.
- `SelectProofs`: the selection as a whole, for every report, feed and combination of flags.
  `OrderIsListed` and `ListedIsWhole` say that a finite set has a listing in any total order of it, so
  that the `CHOOSE` of `Listed` gives one; they are what filters, dedup, the ranking and the rules of
  the SARIF file rest on. `SelectInvariant` has a part on the types; one on the feed (what was
  matched is what the rows read so far hold of the ids asked for, and when the reader stopped of
  itself no row behind it is of one of them); and one on the list, which says at each stage what has been
  dropped and why. `EvidenceIsPaired` goes through the five parsers one by one. `NoSessionIsWasted`,
  `OneSessionPerCve` and `BestAreKept` follow; the last needs that the ranking is a total order that
  a cut respects. `AlertsAreSeen` needs that the list is ranked, that `Max` of the outcomes is one of
  them, and that the rating of a finding, scored or not, is in the band of its severity.
- `SearchProofs`: `TypeCorrect`; `AnswersAreComplete` from `SearchInv`, whose part on the cache says
  that an entry has all sites of its rule or as many as the limit in its key, and whose part on a
  request that what it has so far lacks nothing of the rules it has run, unless it has reached its
  limit or a cause was noted.
- `DepFetchProofs`: `TypeCorrect`; `PathIsKept`, `FailureLeavesNothing` and `CacheSeesWhole` from
  `FetchInv`: while calls come one at a time, a directory that no call is working in is empty or the
  whole of one source, and one that is being filled was empty before.

Only model-checked: liveness (`SpentIsTold`, `RunEnds`, `EnrichmentReturns` and the two
`CallsEnd`), which is out of the prover's reach (that a scan's loop over its findings ends is plain
from its form, and what may hang around it, the children, is in `RunEnds`), and the counterexamples of the runs that are
findings. Every invariant and every safety property of a step that a passing run checks is a theorem
too. Where the code of the selection filters or sorts a list, `Report` and `Select` have `Listed` and
`Kept`, which choose a listing by what is true of it: the provers cannot look into `SelectSeq`.

## Not modelled

Format detection, JSON errors and the texts of the report parsers; the locations and texts of the
SARIF file; the argument list of the action and the wrapper script; prompts, logging and the cost
line; the protocol of the MCP client below its readiness check; the tools that read one file, list
files, run Python, query OSV or fetch a page, which keep nothing between calls; the patterns of each
language, which are a parameter of `Search`; the web fetcher's handling of a page. In `Lifecycle`
the race on the port of the fetcher is left out: it only decides which tools the server offers.
Address checks and sandboxing are not a subject here: a refusal is one more way for a call to fail.

## Plan

Done: `React` and `ToolBudget`; `Challenge`, `Review`, `ScanRun`; `Enrich`; `Report`, `Select`,
`Sarif`; `DepFetch`; `Lifecycle` and `SingleRun`; `Search`.

Worth doing next, in this order:

1. `ScanRun` as a body of `Lifecycle`, as `SingleRun` is.
2. The locations of `Sarif` (evidence in and outside the repository, the fallback to a target and to
   a manifest).
3. Small pure modules with a reference definition: result truncation on rune boundaries, the CVSS
   round-up in tenths, the CONNECT tunnel's two copying goroutines.
4. Proofs: that `ScanRun` reviews each of its verdicts as `Review` does; the bound under which calls
   in flight together are safe in `DepFetch`.

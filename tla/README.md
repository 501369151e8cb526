# Verification of the hierarchical tag pickers

TLA+ models of the hierarchical tag UI in `src/ui/src` and of its API test page. The models are checked with TLC on a small tag tree. TLAPS proofs establish the central safety properties of both pickers, and a refinement of an abstract single-flight contract, for every tag tree.

## 1. Inventory

### Components

| Component | Source | State | Operations |
|---|---|---|---|
| Dropdown (inline picker) | `components/HierarchicalTagDropdown/index.tsx` | `tagLevels`, `selectedPath`, `loading`, `error` | mount load, `handleTagSelect`, the `loadTags` continuation (success / failure), `handleClear` |
| Selector (modal picker) | `components/HierarchicalTagSelector/index.tsx` | `tagLevels`, `selectedPath`, `loading` | open (effect on `visible`), `handleTagSelect`, `handleConfirm`, `handleClose`, the `loadTags` continuation |
| Host page | `pages/HierarchicalTagTest/index.tsx` | `dropdownValue`, `selectedTag`, `showSelector`, `selectorResult` | `handleDropdownChange`, `handleSelectorConfirm`, the open button, `onClose` |
| Tag fetch gateway | `services/client/hierarchical_tag.ts` | none | `getHierarchicalTags` (used), `getHierarchicalTagPath`, `createHierarchicalTag`, `updateHierarchicalTag` (not called by any component) |
| ApiTest page | `pages/ApiTest/index.tsx` | `testResult`, `loading`, `error` | mount test, two test buttons, the `fetch` and `response.json()` continuations |

### How the parts interact

- A click calls `handleTagSelect`.
- If the tag is a branch, the handler calls `loadTags`, which awaits the gateway.
- When the answer arrives, the continuation writes the new level into `tagLevels` and clears `loading`.
- In the dropdown, the continuation then calls the host's `onChange`.
- In the selector, a leaf calls the host's `onConfirm`, and the host hides the modal.
- The host passes `visible` back to the selector. The selector stays mounted while hidden, so its state survives.

### What makes it hard

JavaScript runs one event or one promise continuation at a time. Even so, a `loadTags` continuation runs some time after its click. It commits the `tagLevels` and `selectedPath` captured by the closure of the render that handled the click, not the live state.

- In the dropdown, only the disabled toggle (`disabled={loading}`) keeps a second load from starting. A clear is still possible while a load is out.
- In the selector, nothing serialises loads. Answers commit in the order they arrive.
- Failures are caught. Nothing is retried.
- A failed root load leaves an empty picker. This is a real end state, which is why the dropdown runs set `CHECK_DEADLOCK FALSE`.
- A render that throws is another end state. Neither picker has an error boundary, so the page unmounts; the selector runs set `CHECK_DEADLOCK FALSE` for it.

### What makes each component correct

Dropdown:
- at most one load in flight;
- the levels form a cascade from the root;
- every selected tag is in its level;
- the host's value is the component's selection;
- the `onChange` after a load reports the live selection unless a clear came in between;
- a reported leaf comes with its chain of ancestors;
- the render never throws on the selection;
- a load eventually settles.

Selector:
- the levels form a cascade;
- the path is no longer than the levels;
- a stale answer is never committed;
- the host is only handed a path that ends in a leaf (spec 4.1, `isComplete`);
- the spinner never shows with nothing loading;
- the spinner is up while any load is out, and everything settles once the user stops;
- the breadcrumb never throws on the selection.

ApiTest page:
- one test at a time, with "Testing..." shown exactly while it runs;
- the success alert is never shown next to the error of a later test.

The dropdown and the ApiTest page both promise the same thing about their requests: one in flight, an indicator up exactly while it is, and each request settles. `SingleFlight` states that promise once, abstractly.

The hazards behind these properties are listed, each at its line, in `PROJECT.json` under "hazards".

## 2. Modules

| Module | Models |
|---|---|
| `HierarchicalTags` | The shared data. The server's tree comes from the constants `Tags`, `ParentOf`, `Branches` and `DisplayName`. `Kids(p)` is the answer to `getHierarchicalTags({parent_id: p})`. The module also holds the array operations the handlers apply: `PutAndTruncate` (copy, assign, `splice`, with holes past the end; the copy `[...arr]` turns a hole into a stored `undefined`, `Undef`), `MapThrows` (a `map` over `display_name` throws on `undefined`, not on a hole, which `map` skips), `KeepFirst` (`slice(0, 1)`), `CanSubmit`/`canConfirm`, and `Format` (the `#name#name` text, where holes are skipped like `map`/`join` do). |
| `HierarchicalTagDropdown` | The dropdown plus the host's `dropdownValue`/`selectedTag`, held as `reported`, the arguments of the last `onChange`. The host's text is `Format(reported.path)`. Each load in flight is a record holding its parent, the level it writes, the captured `tagLevels`, and the path it will report. |
| `HierarchicalTagSelector` | The modal plus the host's `showSelector` (`visible`) and `selectorResult` (`result`). Loads in flight form a bag, because two clicks on one item issue two identical calls and both commit. The bag is bounded by `MaxInFlight`. |
| `SingleFlight` | The abstract contract of a requesting page: `busy` (the indicator) and `current` (the request in flight, or none); `Start(r)` only when none is out, `Settle`; weak fairness on `Settle`. |
| `ApiTest` | The API test page. A test in flight is a record of its endpoint and the promise it awaits (`fetch` or `json`). `Click(e)` is either button (guarded by `~loading`); `FetchRejects`, `FetchResolves` (ok or thrown `HTTP` error), `JsonParses` and `JsonFails` are the continuations, each with its `catch` and `finally`. The error message is abstracted to its cause. |
| `MCHierarchicalTags`, `MCHierarchicalTagDropdown`, `MCHierarchicalTagSelector`, `MCApiTest` | The TLC instances. |
| `HierarchicalTagsLemmas` | Lemmas about `PutAndTruncate` and `KeepFirst`, shared by both pickers' proofs. |
| `HierarchicalTagDropdownProofs`, `HierarchicalTagSelectorProofs`, `ApiTestProofs` | The TLAPS proofs. |

### Refinement

`HierarchicalTagDropdown` and `ApiTest` each define `Flight == INSTANCE SingleFlight WITH ...`:
- the dropdown maps `busy` to `loading` and `current` to the parent of the load in flight, both forced to idle once the page has crashed (it shows no indicator then);
- the API page maps `busy` to `loading` and `current` to the endpoint of the test in flight.

The mapping is a function of the state because at most one load (test) is ever in flight. A pick or a click is `Start`, a continuation that ends the request is `Settle`, and every other step (a clear, the `fetch` to `json` hand-over, a pick that crashes the page) is a stutter. The selector does not refine `SingleFlight`: its loads race, and `selector_SpinnerWhileLoading` shows the indicator dropping while one is still out.

### Correspondence to the code

Each action is one JavaScript turn:
- a handler, together with the synchronous part of the `loadTags` it calls;
- or the continuation after `await getHierarchicalTags`, together with the `finally` and the code after `await loadTags` in `handleTagSelect`.

The levels are 1-based in the model. A click on level `k` is `level = k - 1` in the code, and the load it starts writes level `k + 1`.

The item guards (`LevelSelectable`, `ItemSelectable`) come from the render:
- a menu exists for each level in `tagLevels`;
- each menu lists its parent's children;
- in the dropdown, the toggle is disabled while loading.

A path slot is a tag, a `Hole` (never assigned) or `Undef` (`undefined` stored by the spread). `Crashed == MapThrows(selectedPath)` is the render throwing: the dropdown's `getCurrentPath` and the selector's breadcrumb map the path to `#name` text. Every action is guarded by `~Crashed`, since an unmounted page runs no handler and its continuations only touch unmounted state. A leaf pick whose new path throws stops at the handler's own `map`, before `onChange` or `onConfirm`, so the host's state stays as it was.

The map in `PROJECT.json` names the lines behind each definition.

## 3. Runs

Every run uses the tree in `MCHierarchicalTags`. Its shape is chosen so each interesting case can happen:
- it is three levels deep, so a stale level can survive below a shallower pick;
- it has two root branches, so loads can race;
- one branch lists no children (the server's empty result);
- two leaves share a display name.

The selector allows `MaxInFlight = 2` concurrent loads, which is the fewest needed for a race.

| Run | Expect | Result |
|---|---|---|
| `dropdown_safety` | pass | `TypeOK`, `FetchExclusive`, `LevelsFormCascade`, `PathWithinLevels` and the action property `AnswerReportsLiveSelection` hold (305 states). |
| `dropdown_liveness` | pass | `ImplementsSingleFlight` (`Flight!Spec`, fairness included): the dropdown implements the abstract contract, and every load settles (305 states). |
| `selector_safety` | pass | `TypeOK`, `LevelsFormCascade`, `ConfirmsLeaf`, `NoSpinnerWhenIdle` hold with racing loads, opens, closes and confirms (51,927 states). |
| `selector_liveness` | pass | `Quiesces`: once the user stops, every load settles and the spinner goes off for good, unless the page has crashed (51,927 states). |
| `dropdown_ReportedLeafPathIsChain` | violation | A clear during a load leaves level 2 shown with an empty path. Picking `a1` there gives `[Hole, a1]`, and the host receives `#n1`. Stale levels left by a leaf pick or a failed load give `#B#a1` the same way. |
| `dropdown_ReportMatchesSelection` | violation | Pick A, clear, then A's answer arrives. The host gets `onChange('#A', A)` after `('', null)`, while the component selects nothing. |
| `selector_PathWithinLevels` | violation | Confirm `[A, a1]`, then reopen. The root load cuts the levels to one while the path keeps two tags. |
| `selector_StaleLoadDiscarded` | violation | Pick A, then pick B. A's late answer commits A's children under B. |
| `selector_SpinnerWhileLoading` | violation | Open, close, reopen: two root loads are out. The first answer runs `finally` and clears the one `loading` flag while the second is still out. |
| `dropdown_NoRenderCrash` | violation | Pick A, clear, A's answer, pick leaf `a1` (path `[Hole, a1]`), then pick at level 2 again: the spread stores `undefined` at slot 1 and `getCurrentPath` throws while rendering. |
| `selector_NoRenderCrash` | violation | Open, root answer, pick A, close, reopen, A's late answer, pick `a2` (path `[Hole, a2]`), pick `a1`: the spread stores `undefined` and the breadcrumb throws. |
| `apitest_AlertsAgree` | violation | The mount test succeeds. A click then fails with a network error. `setError` runs but `testResult` is never cleared, so "Success! API is working." stays under the red error. |

The ApiTest page has no passing run. Its whole state space on any small instance is a few dozen states, under what a useful run needs, so its single-flight property is proved for every instance instead (`ApiTestRefinesSingleFlight`).

Every property of a passing run has a mutant in `PROJECT.json`: a plausible slip in the handler (a level written one slot too deep, the toggle not disabled, the `splice` forgotten, `setSelectedPath([])` forgotten, `setLoading(false)` outside `finally`). In each case TLC finds the property violated.

### Fairness

The only fairness is weak fairness on "some load in flight settles" (in ApiTest: "some test in flight progresses"). The request helper rejects on transport errors and timeouts, `fetch` rejects on network failure, and no component cancels a load. User actions carry no fairness; `Quiesces` therefore assumes the user eventually stops (`<>[][~UserStep]_vars`).

## 4. Proofs

All theorems hold for every value of the constants, from `TagsAssumption` (which includes `NoTag # RootId` and that `Hole` and `Undef` are neither tags nor `RootId`: the root's `parent_id` is the string `''`, not a missing slot).

`HierarchicalTagDropdownProofs`:
- `TypeCorrect`: `Spec => []TypeOK`;
- `DropdownSafety`: `Spec => [](FetchExclusive /\ LevelsFormCascade /\ PathWithinLevels)`;
- `DropdownCascade` and `DropdownPathWithinLevels`, the two invariants of `DropdownSafety` stated one by one, so that each invariant the runs check has its own theorem to cite;
- `DropdownAnswerReportsLiveSelection`: `Spec => AnswerReportsLiveSelection`, an action property;
- `DropdownRefinesSingleFlight`: `Spec => Flight!SafeSpec`.

None of the invariants is inductive alone, because a continuation commits the captured levels, not the live ones. The inductive invariant `IInv` adds `LoadInv(l)` for each load in flight. `LoadInv(l)` says:
- the snapshot is a cascade;
- the load writes at most one past the snapshot's end;
- its parent is shown in the level above, or it is the root;
- its path has one slot per level above it, each slot unset (a hole or `undefined`) or a child of its level;
- for a pick, the path ends in the parent;
- the live path is either that path or has been cleared.

`IInv` was checked with TLC on the run's instance before it was proved. The step proof has one lemma per action (pick, success, failure, clear). The refinement uses `FetchExclusive` from `IInv`: with one load in flight, `InFlightParent` is that load's parent (lemma `ParentOfSingleton`), a pick maps to `Start` (or to a stutter if its new path crashes the render), an answer or failure to `Settle`, a clear to a stutter. `~Crashed` holds before every step, since every action is guarded by it. The action property needs no new invariant: the continuation of a pick reports `l.path`, and the last conjunct of `LoadInv(l)` says the live path is that path or empty (lemma `AnswerReport`), so `IInv => [A]_vars` and PTL lifts it from `[]IInv`.

`HierarchicalTagSelectorProofs`:
- `SelectorSafety`: `Spec => [](TypeOK /\ LevelsFormCascade)`, with any number of racing loads, and `SelectorTypeCorrect` for `TypeOK` alone;
- `SelectorConfirmsLeaf`: `Spec => []ConfirmsLeaf`;
- `SelectorNoSpinnerWhenIdle`: `Spec => []NoSpinnerWhenIdle`.

Here no invariant ties a load to the live state. The inductive invariant says only what each load in the bag carries (`LoadInv`: its snapshot is a cascade, its level is at most one past the snapshot's end, its parent is shown just above it). `PutAndTruncateCascade` in `HierarchicalTagsLemmas` shows that committing such a load to *its own* snapshot yields a cascade, which is all the selector's `LoadSucceeds` needs. Lemmas `BagAddOne`/`BagRemoveOne` give the support of the bag after a start and a settle.

`ConfirmsLeaf` is not inductive alone. The Confirm button is guarded by `canConfirm`, which reads a hole at the end of the path as a leaf (`!undefined` is true). The proof adds `PathEndsInTag`: the path is empty or ends in a tag. This holds because every pick writes its tag last (`PutAndTruncate`). With it, the hole case of `canConfirm` never arises. `NoSpinnerWhenIdle` is inductive given `TypeOK`: a start adds a load (`BagAddOne`, `BagNotEmpty`), and every settle clears the flag.

`ApiTestProofs`:
- `ApiTestRefinesSingleFlight`: `Spec => Flight!SafeSpec`. The inductive invariant `OneTest` says `loading` is set exactly while the set of tests in flight is non-empty, and that set has at most one element. The `fetch` to `json` step keeps the endpoint and `loading`, so it is a stutter of the abstract spec.

Some things stay with TLC only:
- liveness (`ImplementsSingleFlight`'s fairness part, `Quiesces`): TLAPS does not reason about `ENABLED` and fairness here;
- the selector's `PathWithinLevels`, `StaleLoadDiscarded` and `SpinnerWhileLoading`, which do not hold; likewise `NoRenderCrash` in both pickers;
- the properties about `Format`, which uses `SelectSeq`. What `SelectSeq` computes can only be established by induction, which the provers cannot do here. For the same reason, `reported` holds the path and not the text.

## 5. Not modelled

- The backend and its tree changing during a session. The tree is constant here.
- `getHierarchicalTagPath`, `createHierarchicalTag` and `updateHierarchicalTag`, which no component calls.
- i18n, styling and logging.
- The `value` prop of the dropdown. Its effect is an empty TODO.
- The ApiTest page's rendering of the JSON (`JSON.stringify`) and its static manual-testing links.

## 6. Plan

1. Done: the shared data; the dropdown with its host (checked; its invariants, its report-after-load action property and its refinement of `SingleFlight` proved); the selector with its host (checked; cascade, leaf-only confirm and no idle spinner proved; liveness checked); the ApiTest page (checked, refinement proved).
2. Next: let the server tree change through `createHierarchicalTag`/`updateHierarchicalTag` while a picker is open, and state what a stale level means then.
3. Next: an abstract "cascading selection" specification, with the path as a chain and pick/clear as its only steps. The full dropdown does not implement it, because of the findings, so the mapping has to be restricted to behaviours without a clear during a load.
4. Proofs: the refinement of item 3, and a bound on the selector's bag (`Cardinality` of its support at most `MaxInFlight`) as a lemma for it.

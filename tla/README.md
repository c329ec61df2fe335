# Grandma, an OMA-DM 2.0 client: a TLA+ verification project

Grandma is a client library for OMA Device Management 2.0. An application
registers the types of its managed objects (MOs), adds objects, and calls
`start_session()`: the client posts *package 1* (its MOs and alerts) to the
server, parses *package 2* (a list of commands), executes the commands, builds
*package 3* (a list of statuses) and goes round again until the server says
END. Everything runs on the caller's thread. What is hard is not concurrency
inside the library; it is what is left in the client's queues when a session
is cut short (by an END in an odd place, a package that does not parse, an
exception, a lost post) and what the next session makes of it, together with
the conversions at its edges (paths, URLs, uninitialised members).

Line references are to files under `src/`.

## 1. Inventory

| Component | State | Operations | Interacts with |
|---|---|---|---|
| `DMClient` (client/src/DMClient.cpp) | the four members below, `P1_dump_tree`, `DevId` | `register_DDF`, `add_MO`, `start_session`, `set_P1_dump_tree`, `set_device_id` | calls all the others; called by the application |
| `Session` (client/src/Session.cpp) | none (`SessionState` is unused); locals of `parse_P2` | `send_P1`, `parse_P2`, `send_P3` | HTTP to the DM server; pushes commands |
| `CommandQueue` (client/src/CommandQueue.cpp) | deques `commands`, `responses` | `push_command`, `do_commands`, `do_hget`, `p3_SC_json` | HTTP downloads; `MOTree::node_set`; `Helper` |
| `AlertQueue` (client/src/AlertQueue.cpp) | deque of alerts, each `in_transit` or not | `add_alert`, `package_alert_json` | `start_session` |
| `MOTree` (client/src/MOTree.cpp) | map urn to handler | `register_DDF`, `add_MO`, `node_set`, `p1_MOS_json`, `dump_serialized_MOS` | `MOHandler` |
| `MOHandler` (client/src/MOHandler.cpp) | node tree of the DDF file, `next_miid`, map miid to object | `add_instance`, `node_set`, `find_node`, DDF parser, serialisation | callbacks of `MO::Interface` |
| `MO::Interface` (interface/MO_Interface.h) | none | `get_val`, `set_val`, `check_ddf_name_compatibility`, `init_mo`, ... | implemented by the application |
| `MO::BaseCached` (MO/src/MO_BaseCached.cpp) | tree of nodes with data | `local_set_node`, `local_get_node`, `serialize_json`, a second DDF parser | `Helper` |
| `MO::StaticData` (MO/src/MO_StaticData.cpp) | that of `BaseCached` | `get_val`, `set_val`; the rest return constants | `BaseCached` |
| `Helper` (client/src/Helper.cpp) | none | `vectorize_path`, `URL::parse_from_string` | `CommandQueue`, `MOHandler`, `BaseCached` |
| test server (test/server.cpp) | `state`, shared by two handlers | POST handler, GET handler | the client, over HTTP |
| example (example/src/main.cpp) | none | one run of everything | `DMClient`, `StaticData` |
| base64 (client/src/base64.cpp) | none | third-party code nothing calls | none |
| tinyxml2, nlohmann::json, httplib | external | parsing, JSON, HTTP | seen only through what they return or throw |

What makes each of them correct:

* **MOTree, MOHandler.** An instance stays where it was added, whatever is
  registered, added or refused later, and declared itself compatible with the
  urn it is listed under; the miids the library assigns never meet the
  application's own, though `next_miid` wraps.
* **CommandQueue, Session.** Commands are executed in the order received, each
  answered at most once; only HGET may stay unanswered; nothing is lost or
  repeated when a session is cut short.
* **AlertQueue.** An alert is in one package, once.
* **DMClient.** `start_session` returns; a session that completes leaves
  nothing behind; the sum of it is the abstract `ManagementSession`.
* **BaseCached.** A store of one value per path: a get sees the last set of
  that path and no other. Names stay unique where the code adds them.
* **The two DDF parsers.** They find the same leaves under the same names, so
  whatever the library asks an object for is there.
* **Package 1.** The dump of the tree lists the instances of the MOS list in
  its order, and shows for each leaf a value it was last set to while its
  instance was serialised.
* **Helper.** The parts of an URL are cut out of it, and nothing but what
  follows the port's number is lost; a leading `/` in a path makes no
  difference.
* **Test server.** One session of the client meets nothing unexpected, and
  its HGET is answered.

`PROJECT.json` lists the hazards one by one, at their lines, with the
properties that cover them.

## 2. Modules

An arrow is EXTENDS, a dotted one a refinement (INSTANCE ... WITH).

```
Helper -> NodeTree -> DDF -> BaseCached ..> PathStore
                       |  \-> DDFParsers -> Parsers
                       |
                       +---> Package1
                       |
MOHandler -> MOTree ---+---> AddInstance ..> MOTree
                |
                +-> CommandQueue -> Session -+
                                 AlertQueue -+-> DMClient ..> ManagementSession
                                                    |
                                                    +-> HgetTest
```

`MC<module>` instantiates each of `BaseCached`, `Parsers`, `Package1`,
`AddInstance`, `DMClient` and `HgetTest` for TLC. `<module>Proofs` holds the
theorems about `<module>` (section 4).

**MOHandler** is a value (a record: node tree, `next_miid`, instance map) and
the functions on it; **MOTree** holds the map of handlers and has one action
per call and outcome: `RegisterDDF`, `RefuseDDF` (already registered, or the
file does not parse), `AddMO` (with the library's or the application's miid,
accepted or refused by the object), `RefuseMO`. Two history variables record
the callbacks each object received and what it accepted. A string that may
hold `/` is the sequence of its segments, which makes `find("/")` failing, and
the `substr(npos+1)` that follows from it, the case of a sequence of length
one. The urns and miids are *segments*, so a library numeral and a miid of the
application can be the same string.

**AddInstance** takes `AddMO` apart at the callback inside it. The miid is
chosen or looked up (`BeginAdd`, `BeginAddProbing`), the object is asked, and
only its `Answer` inserts it; `stack` holds the calls under way, so that an
object can register types and add other objects while it is asked, which can
do the same in turn. `OwnType` says whether these may go to the type the object
is being asked about. `AddInstance` implements `MOTree` under a mapping that
shows the advanced counter, and the callback, only once the object has
answered.

**NodeTree** is the tree of nodes both `MOHandler` and `BaseCached` keep: a
node's address is the sequence of its positions in the `children` vectors, a
tree is a function from addresses to nodes, `find_if` is `Child`, `push_back`
is `PushBack`, and the walk of `local_get_node` is `Reaches`. **Helper** has
the path splitter and the URL parser as operators on sequences of segments and
of tokens, in which a number stands for its whole run of digits (`IsString`: no
two numbers are adjacent).

**DDF** has the two copies of the DDF parser as functions from a document (the
tree of its `<Node>` elements, each with a name or none, a DFFormat or none,
and a value) to a tree of nodes: `HandlerTree` and `CacheTree`. They differ in
what the code has differ: the root's name, and the defaults, which only the
object keeps. **DDFParsers** reads one file twice, as the library and as the
object do. **Parsers** adds the strings the library is given: the URL of an
HGET, which `Parse` hands to `parse_from_string`, and a node's path, for
`vectorize_path`.

**BaseCached** takes `local_set_node` one step per iteration of its loop. The
two Booleans a new node's `is_leaf` may hold are both explored. **PathStore**
is its abstract specification: a function from paths to values.

**Package1** composes `MOTree` with the objects' trees: the MOS list
(`p1_MOS_json`), then the dump, in which each instance is a `BeginMI`, a
`ReadLeaf` for every leaf `serialize_children` calls `get_val` for, depth first
as it visits them, and an `EndMI`, which puts the JSON together from what the
calls returned (`got`). The application has the thread again inside each
`get_val`: from `BeginMI` to `EndMI` it may set values, also of leaves of the
same instance that were already read (`Calls`), and, if `Reentrant`, add objects
(`MayBuild`). The history variable `held` collects what each leaf of the object
was last set to since its serialisation began. The maps are walked in the order of their keys
(`Less`, from `StringOrder`). The list is put together from the sorted keys of
each map; the dump's two iterators stand at the instance serialised last, so
that what it visits next is the first of the instances behind it in the order
of the two loops (`After`), those added meanwhile included.

**CommandQueue** has one action per iteration of `do_commands`, by branch:
`DoUnsupported`, `HgetBadUrl`, `HgetNoConnection`, `HgetDownloaded`, and the
ways out that never reach `pop_front`, `HgetThrows` and `HgetCrashes`.
Reading `params[1]` of a vector that has one element is undefined: the model
allows any string, an exception, or the end of the process. The history
variables `received`, `executed`, `answers`, `reported` remember everything
pushed into and popped from the two deques.

**Session** is the loop of `parse_P2`, one step per entry of the package. A
package is JSON with a list of entries, text that is not JSON (`json::parse`
throws a `parse_error`, caught), or JSON that is no object (`type_error`, not
caught). An entry may hold a parameter that is no string (not caught either).
A failed post of package 1 gives the empty string, which is text that is not
JSON. `send_P3` sends nothing and returns an END, so that is all its reply is.

**DMClient** composes them. `phase` is the position in `start_session`; the
actions of the application (building the tree, `set_P1_dump_tree`, starting a
session) happen in `Idle`. An exception leaves `start_session` for an
application that catches it (`Idle`) or does not (`Dead`). `P1_dump_tree`
starts as either Boolean because no code initialises it.

**ManagementSession** is what the client promises about commands, without
packages, parser, network or tree: first come first served, at most one status
each, statuses handed over all at once and only when the backlog is empty, and
a session that may close anywhere. `DMClient` maps `open` to `phase`, `backlog`
to `commands` and `statuses` to `responses`.

**HgetTest** composes the client with test/server.cpp. A handler that calls
`exit` ends the server before it replies: `PostHandlerExits` is a lost post.

## 3. Runs

| Run | Instance | Shows |
|---|---|---|
| `add_instance` | 2 urns, 2 objects, calls 2 deep (`MaxDepth`) to different types, `Wrap` = 3, at most 2 instances a type, the application's miids `1` and `rootfs` | the tree keeps every instance that was added, and only accepted ones; `AddInstance` implements `MOTree`, also when an object adds to another type while it is asked; the wrap and the collision of a library numeral with `1` both happen |
| `client` | packages of up to 2 of 8 entries, 2 sessions, 1 urn | order, single answers, alerts, completed sessions, refinement of `ManagementSession` |
| `client_live` | all 10 entries, one per package, 2 sessions, fairness | `start_session` returns or takes the process with it |
| `hget_test` | the server's own command, 3 sessions (the third finds the server gone), fairness | the HGET is downloaded and answered by a session that completes; one session meets nothing unexpected |
| `parsers` | every document of up to 4 elements, with names of two kinds or none and every DFFormat; URLs of up to 6 tokens behind a scheme, any 3 tokens, paths of up to 6 segments | both DDF parsers agree and the object has what it is asked for; what is cut out of URLs, leading slashes |
| `base_cached` | 7 path strings, 2 values, 3 files (a DevInfo, one with a doublet, an unreadable one), at most 5 nodes | one value per path, no new doublets |
| `package1` | 2 types, 2 objects (one refuses a node), 3 files, at most 2 instances a type, 2 writings of a path | the dump is the list, instance by instance, and shows what was set, though values change between the `get_val` calls of one instance |
| `mo_tree_init`, `add_nested`, `hget_test_finish`, `base_cached_json`, `package1_nodes` | as above | the disagreements of section 6 |

*Bounds.* `MaxSessions` = 2 and packages of two entries are what the properties
about leftovers need: a first session that queues something and is cut short
after it (END, `type_error`, exception), and a second that finds it there and
queues its own. `Wrap` = 3 stands for 2^32: the wrap happens while two
instances, one of them under a numeral of the application, are in the map.
`MaxInstances` < `Wrap` is where the loop that looks for a free numeral ends;
at 2^32 instances the code would not return. Four elements are the smallest
document with two siblings below another element, a chain of three below the
root, and a leaf that has children of its own. `MaxNodes` = 5 leaves room for
two paths of two segments next to the root, or for one next to the file's
nodes. Deadlock is checked where the system never stops (`add_instance`,
`base_cached`, `package1`); a client that died or used up its sessions, and a
file or a string that was read, do stop.

The two entries the `client` run leaves out are the PING that is dropped
before it reaches a queue and the HGET with an unreadable URL, which is
dropped like one that finds no connection; `client_live` has both.

*Assumptions about the application.* Two parameters say what a callback calls
back into the library, which the interface neither allows nor forbids.
`OwnType` = FALSE: an object that is asked about a type
(MOHandler.cpp:144) may register types and add objects to any other type, and
the objects added may do so in turn, but nothing is added to a type while a
question about it is open. `Reentrant` = FALSE: a `get_val` may set values and
has whatever effect on the objects, but adds none and registers nothing.
Without the first, run `add_nested` finds two objects added under one miid.
Without the second, `Package1.cfg` with `Reentrant` = TRUE, TLC refutes
`DumpIsTheListing`: an instance that a `get_val` adds behind the iterators is
dumped and was not listed. What survives such applications is proved:
with nested additions to any type the tree stays well typed and holds only
instances that were accepted, and `DumpShowsWhatWasSet` needs no assumption
about `get_val` (section 4).

*Assumptions about the environment.* In `HgetTest`, HTTP on localhost does not
fail as long as the server runs. `SessionReturns` counts a process that crashed
(an HGET without parameters) as returned: it says that nothing loops or waits
for ever, not that every call survives.

*Fairness.* `FairSpec` is weak fairness on `SessionStep`, all that
`start_session` does once package 1 is on its way. It runs on the caller's
thread without waiting for anything but HTTP calls, and those return because
httplib's connections time out. Nothing is assumed of the application. Weak
fairness of the whole disjunction is enough, since a session always has
exactly one next statement. `TestSpec` assumes the same of client and server
together.

Every property of a passing run has a mutant in `PROJECT.json`: an operator
defined just before the one it replaces, marked `Mutant:`, that breaks it.

## 4. Proofs

For every value of the constants that satisfies the modules' assumptions
(`HandlerAssumption`, `TreeAssumption`, `DepthAssumption`, `QueueAssumption`,
`SessionAssumption`, `ClientAssumption`, `TestAssumption`, `NodeAssumption`,
`DDFAssumption`, `FilesAssumption`, `StringsAssumption`, `CacheAssumption`,
`PackageAssumption`; TLC evaluates them in the runs), every safety invariant,
action property and refinement of the passing runs is a theorem:

* `MOTreeProofs`: `TreeSpec => []TreeTypeOK`, `InstancesStay`,
  `[]OnlyAccepted`. `TreeTypeOK` is not inductive: that the search for a free
  numeral ends, and `next_miid` therefore gets a value, needs the instance map
  to be finite and smaller than `Wrap`. The invariant is `TreeInv`, type
  correctness with finitely many instances per type. The heart is
  `SomeProbeIsFree`: the probes run through all `Wrap` numerals
  (`EveryValueIsProbed`), numerals are distinct, and fewer than `Wrap` miids
  are taken, so by a pigeonhole argument one is free. `AddMOTakesFreeMiid`
  concludes that an insertion never meets an instance.
* `AddInstanceProofs`, for every `MaxDepth`. With `OwnType` = FALSE:
  `[]AddedIsListed`, `InstancesStay` and the refinement of `MOTree`. `StackInv`
  says of every call under way that it is the only one of its type, that the
  name it chose is still free and that the handler is the one it found, but for
  the counter: what happens meanwhile is to other types. From it, `Begin...`
  changes nothing under the refinement mapping and `Answer` is `AddMO`, though
  other calls are still open around it. Whatever `OwnType`: `[]TreeTypeOK` and
  `[]OnlyAccepted`, from `NestedInv`, which only knows that the calls under way
  are well typed and their types registered. That is enough, since an
  overwritten instance is replaced by one that was accepted.
* `DMClientProofs`: `TypeOK`, `QueuesAreFifo`, `AnsweredOnceInOrder`,
  `OnlyHgetIsSilent`, `AlertPackagedOnce`, `CompletedLeavesNothing` and the
  refinement `Spec => ImplementsManagementSession`. The strengthening is
  `ClientInv`: `TypeInv` (types and `QueueInv`, the conjunction of the queue
  invariants), `AlertInv` (one alert per session started, all of them in
  transit) and `CompletionInv` (once a package 3 was sent only its END is left
  to parse and both queues are empty; a running session has not completed).
  The tree only changes by the application's calls (`NextOnTree`), so
  `InstancesStay` and `[]OnlyAccepted` hold through all sessions.
* `HgetTestProofs`: every step of the test is a step of the client
  (`TestStepIsAStep`), so `TestSpec => Spec` and all of the above holds in the
  test; and `[]OneSessionIsExpected` from `FirstSession`, which
  ties the server's state to the client's phase in the first session.
* `NodeTreeProofs`: lemmas about trees of nodes. A path leads to at most
  one address (`ReachesOne`) and consists of the names on the way to it
  (`ReachesSteps`); appending a node keeps
  a tree a tree, what was reached stays reached, and nothing but the new name
  comes into reach (`PushBack...`); the trees of both parsers are trees
  (`CacheTreeWellFormed`, `HandlerTreeWellFormed`) with the same leaves
  (`TreesAgree`); in a tree without doublets the names on the way to a node
  lead to it (`NamesReach`). A tree is closed under prefixes, which is stated
  of all prefixes of an address at once, so that most of these need no
  induction. Those that do use it in the form the provers can instantiate: the
  smallest member of a *set* of counterexamples (`FirstIsSmallest`,
  `InductionUpTo`). From it follow that a function defined step by step exists
  (`IterationExists`), that a tree has a deepest node (`FiniteDepth`), that a
  set of addresses which holds a node whenever it holds its children is the
  whole tree (`InductionOverTree`), and that a function on a tree that is
  defined from its values at the children exists (`RecursionOverTree`).
* `ParsersProofs`: `[]ParserTypeOK`, `[]SameLeaves`, `[]AskedForIsThere` for
  every document, `[]OnlyPortTailIsLost`, `[]GoodURLsParse` and
  `[]SlashMakesNoDifference` for every string. `ReadInv` remembers that each
  tree, and the parts of an URL, are what the parser makes of its input. The
  URLs rest on `FindToken` (`find` is the first position, or none),
  `BehindScheme` (what the scheme leaves) and `AuthorityCut` (where path and
  port are cut off); the way back, that an URL is read as it was written, on
  `OneCut`: there is one place where the server of such an URL can end, and one
  where its path begins.
* `BaseCachedProofs`: `[]CacheTypeOK`, `NoDoubletAdded` and the refinement of
  `PathStore`. The strengthening is `CacheInv`: the node pointer of a set under
  way stands where a get of the names passed so far would find it. Then adding
  a node changes no value (it is empty, as what is absent reads), and the
  assignment changes the value of the whole path and of no other.
* `Package1Proofs`: `[]PackageTypeOK`, `DumpShowsWhatWasSet`, and
  `[]DumpIsTheListing` when a `get_val` adds nothing (`Reentrant` = FALSE). The
  invariant is `PackageInv`: a registered type has the tree of its file
  (`FileInv`), an object's node tree has for every leaf of its file what it was
  last set to (`ObjectInv`, by `SetNodeFacts`), and what was dumped is of an
  instance still there (`DumpInv`). `WalkInv` is about the instance being
  serialised: what each `get_val` came to is nothing, for a leaf it refuses, or
  a value in `held`, where every set since `BeginMI` has left its trace.
  `serialize_children` and its loop, as functions of these answers, are
  unfolded once (`SerializeUnfolds`, `JSONObjectUnfolds`); that it yields
  leaves of the tree that `get_val` does not refuse, all of them if the tree
  has no doublets, and nothing else, is an induction over the tree
  (`SerializedFacts`). For the order, `ListingInv`
  says that `moi` is a beginning of the listing; the listing visits every
  instance once and in the order `After` (`ListingVisits`), so what is ahead of
  the iterators is the rest of it (`AheadIsTheRest`). `Sorted` exists because
  every finite set of segments can be sorted (`AllSortable`).

The theorems with a hypothesis are those about callbacks that call back only
so far (`OwnType` = FALSE, `Reentrant` = FALSE); without it TLC has the
counterexamples named in section 3.

Only model-checked: the liveness properties `SessionReturns` and
`TestHgetAnswered`, which rest on fairness and ENABLED and are out of the
prover's reach. The violations of section 6 are counterexamples and need no
proof.

## 5. Not modelled

* `DevId`: written by `set_device_id` and never read; Session.cpp:30 always
  sends `PlanB`. `finish_bootstrap` is declared and not defined.
* `MOHandler::find_node`: it reads the node tree and only decides a log line.
* What `node_set` stores: nothing, as yet. MOHandler.cpp:21 calls it "just an
  empty method shell"; it returns false on every path, and `do_hget` answers 200
  without looking at that (CommandQueue.cpp:75-76).
* base64: compiled, used by nothing. The example: one path through the model.
* `p1_MOS_json`'s key `DDF` (a fixed URL prefix and the urn), HTTP headers and
  statuses, logging, JSON layout: no state depends on them.
* In `Package1`, exceptions: printing package 1 throws on a value, or a urn or
  miid in the MOS list, that is not UTF-8. `DMClient` has that outcome
  (`StartSession`), for every tree that is not empty; there, the dump is only
  the calls it makes.

## 6. Where the code and its texts disagree

* **`init_mo` is never called** (run `mo_tree_init`). MO_Interface.h:135-136
  promises it after an instance was added; MOHandler.cpp:144-146 just inserts.
* **Two objects under one miid** (run `add_nested`). MOTree.cpp:90 has the
  library "assign a unique miid" and MOHandler.cpp:141 checks a given one, but
  both before the object is asked (line 144); what the object adds to the same
  type in its `check_ddf_name_compatibility` may be under that miid, and is
  overwritten by line 145. Both calls return true.
* **The test never finishes** (run `hget_test_finish`). Nothing assigns
  `TEST_HGET_END`, and the client never posts package 3.
* **A set value is missing from the JSON** (run `base_cached_json`).
  `temp_node.is_leaf` (MO_BaseCached.cpp:55) is uninitialised and decides
  whether serialisation looks at the node's data or at its children.
* **Nodes that are not there are dumped** (run `package1_nodes`).
  MO_Interface.h:54 has `get_val` return a node's value unless it clears
  `node_exists` or `valid_data`; `StaticData::get_val` (MO_StaticData.cpp:34)
  clears neither and returns the empty string for a node the object does not
  have, and it declares itself compatible with every urn.

## 7. Plan

1. *Done:* MOTree and MOHandler, with `add_instance` split at its callback; the
   queues, the session and the client that composes them, with
   `ManagementSession`; HgetTest; Helper; the DDF parsers; BaseCached with
   `PathStore`; package 1; the proofs of section 4, which cover every safety
   property of the passing runs.
2. *To be stated once the code has it:* delivery of alerts (AlertQueue.h:13),
   the statuses MO_Interface.h:42-52 describes for GET, `node_set` on the
   instances, real package 3 posts, the check of a download's HTTP status.

# A TLA+ model of the Sophos Firewall API client

`sophos-firewall-api` is a Rust client for the XML API of a Sophos firewall, with
a web server on top of it. This directory holds TLA+ modules that model it, TLC
configurations that check them on small instances, and theorems that TLAPS
checks for every value of the constants. Paths such as `src/resources/dns.rs` are
relative to the repository; `PROJECT.json` names, for every definition, the lines
it models.

1. [The system](#1-the-system)
2. [The modules and the code](#2-the-modules-and-the-code)
3. [What is assumed of the firewall and of the scheduling](#3-assumptions)
4. [The runs](#4-the-runs)
5. [The proofs](#5-the-proofs)
6. [Where code and documentation disagree](#6-where-code-and-documentation-disagree)
7. [What is not modelled](#7-what-is-not-modelled)

## 1. The system

The only state that lasts is in the firewall, behind a network. The client keeps
nothing between two calls: a `SophosClient` is a connection and a transport,
shared by any number of threads, and no lock is held anywhere. Everything that is
hard about it follows from that. A mutation is a *read*, a *decision* and a
*write* in two HTTP exchanges with nothing between them to keep others out; either
exchange may fail on either side of its effect; and what is written back is what
the client understood of what it read.

| Component | State | Operations | Interacts with | Hard behaviour | What makes it correct |
|---|---|---|---|---|---|
| Response parser (`response.rs`) | one open resource with its depth, `in_status`, `status_depth`, the last status; a stack of names | one step per reader event | called by `execute`; its resources' bodies are parsed again by each resource module | depth counters that must agree with the element nesting; several resources and statuses; the early return at the first failure | every resource is the child of `<Response>` it claims to be, with its own last direct status; no failure is delivered as a success |
| Client, transport, HTTP (`client.rs`, `transport.rs`, `http.rs`) | none | `execute`: build XML, post, parse | every resource module calls it; blocks its thread; talks to the firewall | an answer lost after the change was made; a request that arrives after its caller's 30 s timeout; an answer that does not parse | the caller of a failed call knows whether its change could have been made |
| DNS host entries (`resources/dns.rs`) | none; reads an entry before each write | list, get, add (with `force`), update, delete; batches `add_many` and `update_many` with counts and `continue_on_error` | `execute`, twice per mutation | check-then-act between read and write; addresses that the client cannot represent; a batch that stops half way | answers match effects; no unforced add replaces; counts match what was written |
| Services, service and URL groups (`resources/service.rs`) | none | list, get, create, add / remove / replace members, delete | as above | read-modify-write of a member list; a Create that is an upsert; a record that does not parse | an update does what it was asked and leaves the rest |
| Network objects (`resources/network.rs`) | none | list, get, create, update, delete of IP hosts, networks and ranges in one namespace, of FQDN hosts, and of the groups of both | as above | three types that share names; deletes that check a type they read earlier; updates without a read | an operation on one type does not touch an object of another |
| Named objects and settings (`resources/common.rs` and `firewall.rs`, `zone.rs`, `admin.rs`, `user.rs`, `system.rs`, `webfilter.rs`) | none | list, get, create, update (merge free-form fields), delete; singletons get and update | as above | a recursive merge whose result depends on the shape of what was read; all fields written back | fields not mentioned survive; fields given are written |
| Requests and XML building (`request.rs`, `xml.rs`) | none | `build_request_xml` | `execute` | tags that came from the firewall are validated only here; arrays become repeated elements | nothing is dropped for being unwritable; the object named is the one written |
| Web API (`sophos-firewall-web`) | `AppState`: one shared client; tokio's pool of blocking threads and its queue | one async handler per operation; each runs the blocking call on a thread of the pool (`run_blocking`) | resource APIs; HTTP clients; signals | a handler dropped when its client disconnects, while its call is queued or runs on; a pool that is full; shutdown in the middle of it; mapping of errors to codes | the code tells a refused call from one in doubt; every request is answered; shutdown cuts nothing off |
| Error type, re-exports (`lib.rs`, `resources/mod.rs`) | none | none | all | none | its variants are the outcomes in the modules |

Components call each other synchronously. The only shared state is the
firewall's. The only callbacks are the `SophosTransport` trait and the closures
that `run_blocking` moves to a worker.

## 2. The modules and the code

```
 ResponseDocument <-implements- ResponseParser <- MCResponseParser, ResponseParserProofs

 Exchange <-extends- TypedCalls -implements-> ConfigStore
                         ^
   INSTANCE:  DnsHostEntries   MemberGroups   NetworkHosts   NamedObjects
                   ^
    EXTENDS:    DnsBulk -implements-> OrderedBatch

    EXTENDS:  WebServer (of TypedCalls itself: any resource) -implements-> ConfigStore

 MC<M>.tla     makes the instance of module <M> that TLC checks
 <M>Proofs.tla holds the theorems about module <M>; there is one for TypedCalls,
               which the Proofs of the four resources INSTANCE and those of
               WebServer EXTEND; DnsBulkProofs EXTENDS DnsHostEntriesProofs
```

**ResponseParser** is the event loop of `parse_response_xml`, one action per
reader event: `StartTag`, `EmptyTag`, `StatusText`, `EndTag`, `EndOfFile`,
`ReadError`. `current` is the `CurrentResource` with its fields `depth`,
`in_status`, `status_depth`, `status_code`; `Descend`, `CloseStatus`, `Finished`
and `ValidateResourceStatus` are the blocks of code those events run. The
environment may produce any event, so that unbalanced and truncated documents
occur. Two peculiarities of the code are kept: an empty `<Rule/>` is pushed
without a look at its status, and a second status replaces the first.
*Left out:* `body_xml` (a copy of the input) and white space.

**ResponseDocument** says what is promised without any counter: it keeps the
path of open elements, and a resource, a status and a delivery are defined by
positions on that path. `ResponseParser!ImplementsDocument` is the refinement.

**Exchange** is `SophosClient::execute` on one side (`Post`, `Hangup`) and the
firewall on the other (`ProcessGet`, `ProcessWrite`, `RefuseWrite`,
`RefuseOther`). A request stays in `request[c]` until the firewall takes it,
which may be after the call has given up: `TransportError` does not recall it.
The `reply` kinds are what `parse_response_xml`, `validate_resource_status` and
`first_resource` tell apart. `raw`, `applied`, `before` and `after` are history:
what the firewall held when the call's read was processed, and what its write
replaced.

**TypedCalls** is the shape that the operations of `src/resources` share. A
call is `new`, `reading`, `writing`, `done`; `Begin`, `ReadAnswered`,
`WriteAnswered` and `TransportError` are the points where the code's `?`
operators return early or go on. What differs between resources is given by
operators that a resource module defines with the same names:

| Operator | In the code |
|---|---|
| `Rejected(o)` | errors before the first `execute` |
| `Reads(o)` | whether the operation starts with a `get_…` |
| `Readable(o, answer)` | errors of the parsing of the body (`…_from_response`) |
| `Seen(o, content)` | the object that parsing yields, or `None` |
| `Decision(o, entry)` | the `ok_or_else`, `if let Some`, type checks after the read |
| `Act(o, entry)`, `Written(o, entry)` | the request: `add`, `set`, `update` or `remove`, and its payload |
| `Success(o, entry)` | the `Ok` value |
| `Intent(o)` | not code: the kinds of change its caller asks for |

**ConfigStore** is the abstract specification of all of them: one object per
name; a call changes the object it names, at most once, in a way it intends; a
call that is *done* has made its change, one that is *refused* has not and never
will, one *in doubt* may do so at any time. It has no requests, reads or answers.

**DnsHostEntries** defines those operators for `DnsApi`. An address is a model
value that is `Valid` or `Foreign`, which only a firewall may hold; an entry is a
set of addresses and the reverse-lookup flag. `AsRead` is what the client makes of
an address: `Parsed` gives for a foreign one the valid address that it becomes when
a TTL, a weight or a type that does not parse is replaced by its default, or
`Dropped` if `DnsHostAddress::with_options` rejects it. `Seen` is `entry_from_node`
with `addresses_from_node`; it skips an entry of which no address is left.

**DnsBulk** is the loop of `add_many` and `update_many` over a sequence of
calls: `BeginItem`, `Tally` with `created`, `updated`, `failed` and `errors`, and
the `break` without `continue_on_error`. Calls outside the batch go on beside it.

**OrderedBatch** is the abstract specification of a batch: entries are taken up in
order, one only after the one before it was counted; each has one effect at most,
after it was counted only if its caller was left in doubt; each is counted once, for
what it did; and a failure ends the batch unless it is to go on. It has no requests
and no firewall: an effect is `inserted` or `overwrote`. `VerdictOn` and `EffectOf`
of DnsBulk are the mapping. An entry is concluded where the loop counts it
(`Tally`), not where its call returns.

**MemberGroups** defines the operators for the five resources that hold a list
of members: services, service groups, URL groups, IP host groups and FQDN host
groups. They differ in `Act` (service and URL groups are created with
`operation="set"`, the others with `add`), in whether they carry a description,
in the class a read checks (a service's type, an IP group's family) and in
`Readable` (a service entry without a required field makes an error of the whole
read). `Decoded` is what `parse_xml_nodes` makes of a text: it skips entity
references, so that a stored `A&B` is read as `AB`; `Misread` are the names to
which that happens.

**NetworkHosts** defines them for IP hosts, networks, ranges and FQDN hosts. The
first three are one resource, `IPHost`, with a `class` for the record's
`HostType`. `Seen` passes over records of another type or without their values;
`Readable` is `child_ipv4`, whose error for a record that is not of the type
asked for either is kept. `Reads` is false for the updates of IP hosts, which are
sent blindly. `Kept` and `Description` are the merge of `update_fqdn_host` and
the default of a Create.

**NamedObjects** defines them for everything on top of `common.rs`. A field is a
text, an object of subfields or a list. `Merged` is one field of `merge_fields`;
`Elements` is what a value becomes when it is sent as XML (a list of one element
reads back as a text, an empty object as an empty text); `ReadValue` is
`value_from_node`; `PayloadName` is `payload_with_key`; `Buildable` is
`validate_tag` on the tags of fields and, by `HasBadSubfield`, of their subfields,
which a merge takes over from what was read. `Offers` says which operations a resource has: rules, rule
groups, ACL rules, zones, policies, profiles and the rest come in six
combinations, and one model resource stands for each. `get_singleton` differs
from `get_object` in its errors only, which `Readable` has. Values nested deeper
than two levels are model values.

**WebServer** EXTENDS TypedCalls without saying what its resource is: a request
of the service is one call. `http[c]` is where the request is and `code[c]` the
code of its answer; `queue` and `Busy` are tokio's blocking pool; `server` is
where `main` is. `Handle` is every handler: each validates its body
(`Reply400`) and then makes exactly one call with `run_blocking`. `Start` is a
thread taking the call, `Work` its going on, `Respond` the handler behind the
`.await`. `Disconnect` drops the handler and leaves queue and call alone, as
dropping a `JoinHandle` does. `Signal` and `Drained` are the graceful shutdown of
`axum::serve`; `DropQueued` and `Exit` are the runtime that goes when `main`
returns, which waits for running threads and not for queued calls.

In all resource modules the `list_…` operations are left out: they read with
the same filters and change nothing.

## 3. Assumptions

**The firewall** is not in the repository. `Exchange` gives it the behaviour that
the client's code and tests rely on and no more: a Get returns the object or
"Number of records Zero."; `add` refuses a name that exists; `set` writes in any
case; `update` and Remove refuse a name that does not exist; requests on one name
are atomic. It may refuse anything, answer without the expected resource, or
answer unreadably, also after a write has taken effect. It may answer late or
never, and requests of different calls are processed in any order.

**Scheduling.** `Fairness` is weak fairness of `ReadAnswered \/ WriteAnswered \/
TransportError` for each call: a thread in `send_xml` is woken by the answer or by
the timeout of 30 seconds that `http.rs:17` and `:31` give every HTTP client.
`BulkFairness` adds weak fairness of the loop's own steps, which are plain
sequential code. `WebFairness` is weak fairness of the pool's threads (`Start`,
`Work`), of handlers that can answer (`Respond`), and of `main` and the runtime
(`Drained`, `DropQueued`, `Exit`): the scheduler runs what can run. Weak is
enough: each stays enabled until it is taken or there is no use for it. Nothing is
assumed of the firewall's steps, of the calls made by others, of HTTP clients or
of signals, so `BatchReturns`, `EveryCallReturns` and `EveryRequestAnswered` hold
with a firewall that answers nothing at all. The other properties are safety
properties and do not need fairness.

**tokio and axum** are not in the repository either. What WebServer relies on is
documented behaviour: a blocking task is not cancelled with its `JoinHandle`;
the pool is bounded and queues the rest in order; graceful shutdown waits for
open requests; dropping the runtime waits for running blocking tasks and drops
queued ones.

**Deadlock** is not checked (`CHECK_DEADLOCK FALSE`) because calls return, a
parser's verdict is final and a server exits: behaviours end.

## 4. The runs

Runs that pass:

| Run | Question | Instance |
|---|---|---|
| `response_parser` | do the counters agree with the nesting, and is the loop what ResponseDocument says, for every sequence of events | names Response, Status and one other; a good and a bad code; nesting 4, 2 resources, 2 text fragments |
| `dns_calls` | any two calls, every interleaving and failure: answers against effects, what is sent and when, and the promise of ConfigStore | 2 calls, 2 hosts, 2 valid addresses, one that is dropped when read and one that is read as another, `MaxAddresses` 1; calls for different hosts use one address |
| `dns_bulk` | counts, early end, order and return of a batch, and the promise of OrderedBatch | a batch of 2 for one host, a deletion beside it |
| `groups` | do updates of members do what was asked, keep the rest, and change nothing when repeated | any call and a disturbance, or the same call again, on one object of each resource, members `a&b` and `ab`, a name `r&d`; a deletion as third call where the disturbance is the Create of a service of another type |
| `network_hosts` | what deletes by type remove, what can change a type, what FQDN updates keep | any call and a disturbance under one name, 2 addresses, records that are foreign, incomplete or unparsable, groups `a&b` and `ab`, 1 description, a name `r&d` |
| `named_objects` | what the merge keeps, writes, and refuses to write | any call and a disturbance on one object or setting of each of 6 resources; 2 fields and 2 subfields, one of each with a tag that is not writable, lists of 2 |
| `web` | are answers true, is every request answered, does shutdown cut nothing off | 2 requests, 1 blocking thread, 2 names, 1 content; a forced write and a request of any kind |

What they show, property by property:

- `DepthAgreesWithStack`: a resource is open in the loop exactly while one is in
  the document, and `in_status` exactly while one of its direct statuses is.
- `DeliveredResourcesSucceeded`: no resource handed to a caller carries a failure
  code or the zero-records text.
- `ImplementsDocument`: the loop is the element-tree reading.
- `AnswerMatchesEffect`: at most one change per call; made if it succeeded, not
  made and not on its way if it was refused.
- `UnforcedAddNeverReplaces`, `ReportedActionHappened`: the decision that
  `add_entry` takes from a stale read is repaired by the operation it sends.
- `OnlyValidEntriesWritten`: what is written back is valid also where what was
  read is not.
- `UnracedUpdateKeepsOmitted`, `UnracedUpdateKeepsRest`: an update keeps what it
  was not given if the object is still the one it read. The hypothesis is needed:
  see `dns_lost_update`.
- `NothingResent`: one Get at most and then one write at most, and no write while
  anything that the call has sent is unprocessed. A client that repeated a failed
  exchange by itself would break it.
- `UnracedCallIsAtomic`: a call whose object is at its write what it was at its
  read has done all of it at once: its checks hold of what it replaced, it left what
  its operation makes of that, and its answer says so.
- `RepeatChangesNothing`: what a caller in doubt may rely on. A call that is made
  again, finds what the first one wrote and reads it as it was stored writes the
  same. It needs that last condition: a member `a&b` is read as `ab`.
- `ImplementsConfigStore`: the promise above.
- `CountsMatchEffects`, `NothingAfterFailure`, `LastEntryWins`: what the result
  of a batch says of the firewall, including calls in doubt whose request arrives
  after the batch has moved on.
- `ImplementsOrderedBatch`: the same step by step, and that the failures are listed
  in order.
- `BatchReturns`, `EveryCallReturns`: with a silent firewall too.
- `DeleteRemovesOwnType`: a delete by type has read a record of that type, whole
  and parsable, and what goes is such a record too, unless it is the work of another
  call that created or updated it since. `Overtakers(c)` are the calls whose writes
  left what the write of `c` replaced. Without the exception the property does not
  hold: see `network_wrong_type`.
- `OnlyUpdatesConvert`: of all the writes to the three types that share names,
  the blind update of an IP host is the only one that changes a type.
- `UnracedFqdnUpdateKeepsOmitted`, `UnracedUpdateKeepsUnnamed`: as above, for
  groups and a description, and for fields and subfields of any shape.
- `UpdateHonoured`: what an update was given is what the object has after it,
  whatever shape was there before.
- `NamesKept`: no call renames what it names, even if a field gives the key.
- `UnwritableNotDropped`: a field that could not be written stops the update, and
  so does a subfield, unless its whole field is replaced.
- `StatusMatchesEffect`: "ok" means that the change was made, and a code that
  blames the request or the firewall that it was not, nor can be any more,
  neither from the wire nor from the queue.
- `ShutdownClean`: when `main` stops, every accepted request has been answered or
  its client is gone, and the process exits with no call between its read and
  its write, even one whose client is gone.
- `EveryRequestAnswered`, `ShutdownCompletes`: with one thread, a queue and a
  silent firewall.
- `WebImplementsConfigStore`: the promise as clients of the service see it; one
  that left before the answer is in doubt for good.
- `RequestHonoured`: members added are in, removed ones out, replaced lists
  exact, whatever the update raced with.
- `CreateReplacesOnlyServiceRsGroups`: which of the five resources can lose an
  object to a second creator, and that no other can.
- `UnfitServiceKept`: a service that does not parse, or is of another type than the
  update is for, is left alone by the call that read it; one that has become so
  since is replaced only if it is the work of another call. The exception is needed:
  `update_entries` compares the type of the service it read, and a service of another
  type, made after a deletion before the update arrives, is written over.

Why the bounds are enough. The parser's loop compares depths with 1 and 2 only, so
nesting 4 reaches every branch with a `<Status>` inside a status, inside a
resource's content, and at the root; two resources show that nothing of the first
is left when the second opens; two fragments give a status text that is, and one
that is not, the zero-records text. A race between a read and a write needs one
other writer, and one more only where a single write cannot make the difference (see
`groups`), so two calls reach the others; that a third call adds nothing
new is what the theorems say. `MaxAddresses` 1 with four addresses makes empty,
full and overfull entries, and one that the client reads shorter and altered. In `groups`, `network_hosts` and `named_objects` the
second call is one of those that make a read stale: a Create, an update, a
deletion; two calls to the other operations are reached through the first. In
`groups` it can also be the first call again, for `RepeatChangesNothing`. The type of
a service changes only by a deletion and a Create, so that race has a third call. One or
two values of each shape are enough there because the code compares values with
nothing: it distinguishes types, presence and shape, and those are all there. In
`web` one thread and two requests give a pool that is full and a call that waits
behind another; a second kind of content would tell no property more, since what
is written is checked in the resources' own runs. `dns_bulk` tells its two entries
apart by the flag. Symmetry is used for interchangeable calls, hosts and valid
addresses in safety runs, never with a liveness property.

Runs that find a violation are those of section 6.

## 5. The proofs

Every theorem is checked by TLAPS to the last leaf, for all values of the
constants under the `ASSUME`s named here.

| Module | Assumptions | Theorems |
|---|---|---|
| `ResponseParserProofs` | `ParserAssumption`, `MarkerAssumption` (the names differ, the markers are no records) | `TypeCorrect`, `DepthCorrect`, `DeliveredCorrect`, `ParserImplementsDocument` |
| `TypedCallsProofs` | `WellFormed`, as the premise of each theorem | `InvCorrect`, `TypeCorrect`, `AnswerCorrect`, `NothingResentCorrect`, `SnapshotCorrect`, `SourceCorrect`, `UnracedCorrect`, `RepeatCorrect` (which also needs `Idempotent`), `CallsImplementConfigStore` |
| `DnsHostEntriesProofs` | `DnsAssumption` (valid and foreign addresses are finitely many and differ, a foreign one is read as a valid one or dropped) | the above, instantiated, and `UnforcedAddCorrect`, `ReportedActionCorrect`, `OnlyValidWritten`, `UnracedUpdateCorrect` |
| `DnsBulkProofs` | `DnsAssumption`, `BatchAssumption` | `BatchIsCalls`, `NothingAfterFailureCorrect`, `CountsCorrect`, `LastEntryCorrect`, `BatchImplementsOrderedBatch` |
| `MemberGroupsProofs` | `GroupAssumption` | the above, instantiated, and `RequestHonouredCorrect`, `UnracedUpdateCorrect`, `CreateCorrect`, `UnfitServiceCorrect` |
| `NetworkHostsProofs` | `HostAssumption` | the above, instantiated, and `DeleteCorrect`, `OnlyUpdatesConvertCorrect`, `UnracedFqdnUpdateCorrect` |
| `NamedObjectsProofs` | `ObjectAssumption` | the above, instantiated, and `NamesKeptCorrect`, `UnracedUpdateCorrect`, `UpdateHonouredCorrect`, `UnwritableCorrect` |
| `WebServerProofs` | `WellFormed`, as the premise of each theorem | `WebMakesCalls`, `WebInvCorrect`, `WebTypeCorrect`, `StatusCorrect`, `ShutdownCleanCorrect`, `ServedCallsCorrect` (which also needs `Idempotent`), `WebImplementsConfigStoreCorrect` |

Every invariant and every refinement that a passing run checks is among them.

*The parser.* `DepthAgreesWithStack` is inductive together with `TypeOK`: it was
stated as the relation between all of the loop's counters and the stack, and not
as the claim about `in_status` alone, for this reason. The refinement has a lemma
per event (`StartTagRefines`, `EndTagRefines`, …) and uses it, before and after the
step, to turn each comparison of counters into one of positions on the path.

*The calls.* Nothing about answers is inductive by itself: a refused call has
made no change only because of what was on the wire when the refusal was sent.
`CallsInv` says, for each call, which request, reply and history its phase
allows: while it reads, nothing of it has been applied; while it writes, either
the write it computed from `existing` is on the wire and not applied, or an answer
is, whose kind tells whether the write was applied; when it is done, whatever
request is left belongs to a call in doubt. `ReadInv` ties `existing` to `raw`,
the content the firewall held at the read. From there `AnswerMatchesEffect` is a
case split on the phase, and the refinement maps `ProcessWrite` to `Change`, the
end of a call to `Conclude` and everything else to a stutter.

`NothingResent` is an action property of the same invariant: while a call is
writing, nothing it does posts a request, and while it is reading nothing has been
applied.

*Atomic unless raced.* `CallsInv` does not carry `UnracedCallIsAtomic`. It knows
that what a call has seen, if it has seen something, is what `Seen` made of `raw`;
it does not know that a call that has seen nothing found nothing, since `existing`
is `Absent` also before the answer is there, and in a call that timed out.
`SnapshotInv` adds this: once the write is sent (`WriteSent`) `existing` is the
`View` of `raw`, and until then `raw` is `Absent` as long as the Get is unprocessed
or was answered without an object. It is inductive relative to `CallsInv`. The write and what it replaced are tied together
by `EffectInv`, and if `before` is `raw` the call is a function of it.

*What came in between.* `SourceInv` says where the object comes from that a write
replaces: it is still what the call's Get returned, or another call has left it.
While the write is on the wire that is a claim about the store (`Held`), which
every write to the name has to keep; afterwards it is one about `before`.
`OvertakenOrFresh` turns it into the form in which `DeleteCorrect` and
`UnfitServiceCorrect` use it: where a call replaced something other than what it
read, it has `Overtakers`, and these are creates or updates if there is an object
at all.

*Repeating.* Whether a repeated call writes the same is a question about functions:
`Idempotent` says that what an operation makes of an object that it has itself
made is that object. With `SnapshotInv` it is enough for `RepeatChangesNothing`.
`DnsIdempotent` and `Idempotence` prove it for each resource. For DNS entries,
groups and hosts it is a look at the payload. For named objects it is
`MergedTwice`: a field that was merged, sent as elements and merged again, through
every combination of shapes, also where an object without subfields is sent as an
empty element and comes back as a text.

These proofs know nothing of DNS or groups: they are for any operators that are
`WellFormed` (a decision to write comes with a payload of the right type whose
operation can only do what is intended). `DnsWellFormed`, `GroupWellFormed`,
`HostWellFormed` and `ObjectWellFormed` prove the premise for each resource, and
the theorems about single resources follow from `CallsInv` and the definitions of
`Seen`, `Decision` and `Written`.

*The batch.* `BatchIsCalls` shows that a batch is a behaviour of the calls, which
hands it their theorems. `LoopInv` says that the entries the loop is through with
have returned, with success unless `continue_on_error`, and those it has not
reached are new. `CountInv` counts the former by outcome, and `OutcomeEffect`,
from `CallsInv`, says what each outcome means at the firewall; the rest of
`CountsMatchEffects` is arithmetic of finite sets. `LastEntryWins` speaks of the
end, so `LastInv` claims it of every moment: as long as nobody else has written
and nothing is in doubt (`Settled`, which no step makes true again once it is
false), a write can only be that of the entry the loop is at, and nothing of a
later entry has been written.

*The batch as an ordered batch.* `CallMaps` shows that a step of a call that is not
an entry's is a stutter, that `Begin` of the loop's entry is `TakeUp`, and that of
all other steps only `ProcessWrite` is not a stutter: it is `Effect`, which has to
be shown allowed for an entry that was counted long ago (`FirewallMapped`). There
`CallsInv` says that a request left behind by a call that has returned belongs to
one that ended in a transport error, and `LoopInv` that an entry that was counted
has returned. `TallyMaps` has a case for each kind of outcome, and takes from
`OutcomeEffect` what has happened at the firewall by then.

*Groups, hosts, objects.* `ResourceInv` says that what is stored under a call's
name, and what the call has read, belongs to the call's resource; `RequestKey`
says the same of its request on the wire. Together no object changes its
resource, and what a call writes back is one of its own kind. `NamesKept` is part
of it for named objects, since a read finds an object by the name in the record.
`UpdateHonoured` and `UnracedUpdateKeepsUnnamed` follow from lemmas about
`Merged` and `Elements` on each shape of value.

*The service.* `WebMakesCalls` maps the service's steps to those of TypedCalls,
so that `CallsInv` holds of its calls. `WebInv` ties the two together: a queued
call is queued once and has not begun, nor has the call of a request that is not
complete; an answer carries the outcome of its call, or `invalid_request` and
there is no call. What is neither queued nor on the wire cannot happen any more,
which is why the codes can be believed. For the refinement a client that leaves is
concluded *in doubt*, and its call's change, if it comes, is the change of a call
in doubt.

**Only model-checked:** `BatchReturns`, `EveryCallReturns`, `EveryRequestAnswered`
and `ShutdownCompletes` (liveness under fairness is out of the prover's reach).
What is proved of every resource is model-checked on one or two:
`ImplementsConfigStore` on DNS entries and the service, `AnswerMatchesEffect`,
`NothingResent` and `UnracedCallIsAtomic` on DNS entries, `RepeatChangesNothing` on
groups.

## 6. Where code and documentation disagree

Five properties state what a document or a test says; TLC shows a behaviour of
the code that violates each.

| Run | Claim | What happens |
|---|---|---|
| `dns_lost_update` | `README.md:125`: "Update only the address while preserving the existing reverse-DNS setting" | another call changes the setting between the read and the write of `update_entry`, which writes the old one back |
| `dns_lossy_read` | `tests/dns.rs:308`: `dns_update_entry_preserves_existing_addresses_when_only_reverse_lookup_changes` | an address that the client cannot represent is dropped when read, or gets a default for what does not parse, and the update writes the entry back like that; no concurrency needed |
| `dns_forced_add` | `README.md:118`: "`force = true` updates the existing host entry instead of failing" | the read finds no entry; another call creates it before the Create arrives, which the firewall then refuses. The claim is restricted to reads that were answered with no records |
| `network_wrong_type` | `tests/network.rs:322`: `ip_network_delete_wrong_type_does_not_send_remove` (and `:328`) | another call turns the network into an IP host between the read of `delete_ip_network` and its Remove, which names no type. The code for hosts and ranges has the same race |
| `group_members` | `tests/url_groups.rs:191`: `url_group_remove_domains_preserves_unmentioned_domains` | `parse_xml_nodes` skips entity references, so the member `A&B` is read as `AB` and written back as that; `tests/system.rs:84` makes the same claim for the fields of a setting, with the same cause |

## 7. What is not modelled

- *List operations.* They read with the filters of the get operations, change
  nothing and return what `Seen` keeps. That one bad record fails a whole list
  (`network.rs:1113`, `service.rs:1069`) is in `Readable` for the get operations.
- *Requests and XML building*, in part: the login element and its credentials,
  escaping (entity references are lost when records are read back, which is
  modelled as `Decoded`), the wording of filters, and the checks of `build_request_xml` that no typed
  operation can fail.
- *Validation in constructors.* What the constructors refuse never becomes a call:
  operations range over arguments that were accepted. Which strings are addresses
  or host names is not modelled.
- *Connection settings and configuration*: `Config::from_env` and TLS settings
  end, or succeed, before there is a server.
- *The web API's bodies* are data of the calls; `/health` has no state; requests
  that axum's extractors refuse are answered like those that `into_create` and
  the others refuse, with a body of their own. A panic in a call becomes
  `internal_error`: no operation panics, so it does not occur in the model.
- *Fields nested deeper than two levels*, attributes, and text beside elements.
- *The error type and the re-exports* have no state.

# TLA+ models of the cs4400 programs

The repository holds the programs of a systems course: a web server with its
dictionary, a tournament of player processes, a memory allocator, a rewriter of
machine code, a matcher of strings and two image kernels.  They are independent
programs; what they share is C.  This directory models them one by one, checks
the models with TLC and proves what matters most with TLAPS.

Contents: [the system](#the-system), [conventions](#conventions), one section
for each modelled component, [proofs](#proofs), [plan](#plan), [what is not modelled](#what-is-not-modelled).

## The system

| Component | Sources | State it keeps | Operations | What is hard | What makes it correct |
|---|---|---|---|---|---|
| redpin registry | `server/redpin.c` `serve_request`, `get_server_results` | dictionaries `people` and `places`, each of dictionaries; `data_sem` | `/counts /reset /people /places /pin /unpin /copy` | one thread per request; `/copy` gives the lock away; pointers into dictionaries that are freed | each request takes effect in one step; the two dictionaries agree |
| redpin server | `server/redpin.c` `main`, `doit`, `read_requesthdrs` | `connfd`, `ready_sem`, the descriptor table, one thread per connection | accept, hand over, read, serve, close | hand-over through a shared variable; slow, dead and hostile clients | a thread serves its own connection; descriptors come back; everybody well-behaved is answered |
| dictionary | `server/dictionary.c` | open-addressing hash table with tombstones | make, set, get, has_key, remove, count, keys, free | reuse of tombstones, growth in the middle of an insertion, termination of the probe | it is a finite map; the probe ends; counts are right |
| strings | `server/more_string.c` | none | split, join, request line, header, query decode and encode, entities | delimiters at either end, sizes counted before cutting | parsing finds what was formatted |
| wire of redpin | `server/redpin.c` `doit`, `read_requesthdrs`, `read_postquery`, `get_server_results`; `server/csapp.c` `rio_*` | the reader's buffer, headers, query | read line, read bytes, parse, refuse, reply | reads that end anywhere, a peer that closes early, names that are not encoded | lists arrive as they were sent; nobody waits for a byte that never comes |
| players | `shell/*_player.c`, `shell/io.c` | position, loop, bounds of the search | read guidance, move | guidance that is not looked at, steps cut at the border | sound players win, broken ones fail |
| tournament | `shell/run_tournament.c`, `shell/game_maker.c`, `shell/io.c`, the players | pipes, pids, wins/losses/fails per player, pending SIGINT | fork and wire, run a round, report | processes that exit, stall or write garbage; SIGINT between two steps | one result per player and round; rounds reported are rounds played |
| allocator | `malloc/mm.c` | a heap of tagged blocks and a free list | init, malloc, free | coalescing, splitting, first fit | blocks tile the heap, the free list is the free blocks, no block is handed out twice |
| enforcer | `linking/enforce.c`, `linking/decode.c` | a function's instructions | check, rewrite | branches and joins, tail jumps, rewriting what is read again | a path that misuses open/close crashes, no other path does |
| matcher | `match/matchlab.c` | none | match three patterns and convert | order of alternatives | accepts the three languages only, and converts their words |
| kernels | `performance/kernels.c` | pixel arrays | pinwheel, glow | blocked loops at the border | the image is the one that the driver expects |
| driver of the allocator | `malloc/usemem.c` | pointers it was given | six tests, each a script of calls with checks | heaps with no page to spare | it is the client the allocator is checked against |
| timing harness | `performance/driver.c`, `fcyc.c`, `clock.c` | | | | |
| CS:APP library | `server/csapp.c`, `shell/csapp.c` | a buffer for each connection | buffered reads; wrappers of system calls | | vendored; only the reader is modelled |
| random numbers | `shell/random.c` | | | | vendored |

## Conventions

A component's module has its state as VARIABLES, one action per step of the
code and its properties at the end.  `MC*` modules only give constants for TLC.
`*Proofs` modules hold theorems; [proofs](#proofs) is an overview of what they
show, from which assumptions, and of what TLC alone checks.  Operators marked "Not the code" are mutations
of the operator that follows them: the property they are listed for in
`PROJECT.json` fails when the code is replaced by them, which shows that the
property depends on that line of the code.  Runs that are expected to end in a
violation show a disagreement between the code and a text of the repository;
`findings` in `PROJECT.json` quotes it.

Five runs pass.  `registry` and `server` are the two models of redpin's threads.
The others put together what has nothing to do with each other, to have one run for
each assignment or two: `strings` (the dictionary; the requests on the wire), `shell`
(the tournament; the players on their board) and `labs` (allocator, enforcer, matcher
and kernels).  The first choice of a behaviour, `running`, says which of the programs
it is about; the others stay at one fixed start, so that such a run has the states of
its parts one beside the other, and a liveness property says for which of them it
holds (`EveryTestPasses`, `EveryGameEnds` and their like).  Symmetry is used in
`strings` alone, of the values in a dictionary; no liveness is checked there.
Seven runs end in a violation: `registry_unpin`, `server_leak`, `server_stall`,
`wire_names`, `wire_survives`, `tournament_report` and `enforce_tail`.

## redpin: the registry

`RedpinTypes` names people, places, requests and replies.  `PinBoard` is what
the server promises: a set of pins on which every request is one step, `/copy`
being two (the list is fetched, and imported later).  `RedpinRegistry` is
`serve_request`.

| Model | Code |
|---|---|
| `people`, `placesOf` / `places`, `peopleOf` | the two dictionaries and the dictionaries they map to |
| `data_sem`, `Lock`, `Unlock` | P and V around `serve_request` in `doit` (128-130) |
| `PinPerson`, `PinPlace`, `PinMirror`, `PinNextPerson` | the nested loops of `/pin` (295-332) and of `/copy` of a person (464-497): one pass is a step on the person's side and one on the place's side |
| `UnpinPerson` ... `UnpinNextPerson` | the loops of `/unpin` (372-415) |
| `ReleaseForCopy`, `Fetch`, `Relock` | V, `get_server_results`, P (455-457, 512-514) |
| `ImportPeople`, `ImportPerson`, `ImportMirror` | the loop of `/copy` of a place (521-554) |
| `ptr` | `places_of_person`, `people_of_as`: the name of the dictionary pointed to, or `Dangling` once it was freed |
| `UseAfterFree` | a loop follows a dangling pointer: in `/unpin` the lookup finds nothing or the process dies |
| `fetched` | how `get_server_results` ended: 200 with a list, another status (NULL), or no answer at all, which the code turns into an empty list |

A thread serves one request, as in the code, so weak fairness of each thread is
enough for `EveryRequestAnswered`: a finite number of requests cannot starve
another one of `data_sem` for ever.  The scheduler gives that fairness to every
runnable thread; for `Fetch` from another server it is the assumption that the
peer answers or breaks the connection.

What is checked, with two people, two places and lists of at most two names:

Run `registry` has three threads and ten requests: pins and unpins of lists that
overlap, reads, a reset, copies of a person and of a place, from another server
and from the server itself.  `Mirrored`: the two dictionaries agree when the lock
is free.  `PinPointersLive`: the pointers of `/pin` and `/copy` never dangle.
`ImplementsPinBoard`: the refinement.  `EveryRequestAnswered`: liveness.  Three
requests are enough to put a state in place, change it in one thread and meet it
in another between the two halves of a `/copy`; two names give lists with a first
and a last element and people who share a place.  `registry_unpin` is a
violation, see the findings.

A `/copy` from a server that cannot be reached is answered with status 200 and
the counts as they are, because `get_server_results` makes the failure an empty
list; the client cannot tell it from a copy of nothing.

The refinement mapping shows the board as it was when the lock was taken (the
history variable `snap`) while a thread holds it, and as it is otherwise; a
reply counts from the moment the lock is released.

Proved in `RedpinRegistryProofs`, for all sets of names, threads and requests,
from `NamesAssumption` (finite, disjoint sets of names) and
`RegistryAssumption`: `TypeOK`, `MutualExclusion`, `Mirrored` and
`PinPointersLive`.  `Mirrored` is not inductive, because it says nothing while
a thread holds the lock.  The inductive invariant `IInv` adds
`MirroredButOne`, which allows one exception, the pin a thread has on one side
only (`InFlight`); `LoopOK`, which ties that pin and the loop's pointer to the
thread's place in the loop; `Untracked`, a name that is not tracked has no
pins; and `ShapeOK`, which knows the request.  Mutual exclusion leaves at most
one thread with an exception, and none when the lock is free.

`RefinesPinBoard`: every step of the registry is a step of the board or none at
all (`ImplementsPinBoard`), under the same assumptions and
`AnswersAssumption`, that NULL is not an answer.  While a thread holds the lock
the board shows what it was (`snap`), so the whole of a request must turn out,
at its last step, to be what the board does in one.  The invariant `RInv` keeps
that account for each thread: `Pending`, a thread has no reply before its
last step; `Errand`, its list is the one of its request or the one fetched;
`Work`, what its loops have done since `snap` together with what `todo` and
`rest` still hold is the request's effect (`Pinning`, `Unpinning`), so that
with empty lists it is the effect itself (`LoopsDone`) and the counts are the
board's (`Outcome`).  The use after free of `/unpin` does no harm to that
account where the process survives it: a dictionary is freed with its person's
last pin, so that a lookup in it that finds nothing is right.  A process that
dies takes no further step.  Liveness is model-checked only.

## redpin: the server

`RedpinServer` is `main`, `doit` and `read_requesthdrs`.  A request is known by
how it is answered ("small" or "big" reply, "garbage" line, "copy").

| Model | Code |
|---|---|
| `Accept`, `AcceptFails`, `CreateThread`, `WaitReady` | the loop of `main` (64-76) |
| `connfd`, `ReadFd`, `PostReady`, `ready_sem` | the hand-over (72-73, 86-87) |
| `fdtab` | what each descriptor of the process is connected to |
| `ReadLine`, `"dropped"` | 94-95, 101-117: the line, or the end of the connection, or a read error after a reset, which may come before or after the line was sent; doit then returns without closing |
| `ReadHeaders`, `Spin` | `read_requesthdrs`; at the end of the connection or after a reset the header loop spins, unless the uninitialised buffer happens to hold the empty line that an earlier thread left on the same stack |
| `Lock` ... `Write`, `Unlock`, `CloseFd` | 128-146 |
| `OpenPeer`, `PeerStatus`, `PeerBody` | `get_server_results`; a status that is not 200 keeps the descriptor (703, `refused`), any other reply ends with the Close at 721 |
| `Connect`, `SendLine`, `SendHeaders`, `StartReading`, `HangUp` | clients (external) |

Fairness: `main` and each thread run when they can; well-behaved clients
(`Good`) finish sending and read.  Nothing is assumed of other clients nor of
the peer of a `/copy`.  The system may stop, waiting for clients, so deadlock
is not checked.

- `server` (two clients, two descriptors, all kinds of requests): `HandOver`,
  `DescriptorsAccounted` and `GoodAnswered`.  Two connections are what the
  hand-over needs; the descriptor of a `/copy`, and the ones that are lost, fill
  the table so that Accept and Open_clientfd fail too.
- `server_leak` is a violation: the assignment says that the server must not run
  out of resources by failing to close finished connections, which is `NoLeak`:
  an open descriptor is in use by main, by a thread that is at work, or by a
  `get_server_results` under way.
- `server_stall` is a violation: the server should continue to respond whatever
  its clients do, which is `GoodAlwaysAnswered`: a well-behaved client gets its
  reply (only the reply to its own `/copy` depends on another server).  There are
  four descriptors here, enough for two connections and two copies, so that the
  counterexample is the reply that a client does not read while its thread
  holds data_sem (128-130).

`DescriptorsAccounted` and `GoodAnswered` are what remains true of the two: they
bound the defects that the violations show, and would catch another one.  By
`DescriptorsAccounted` a descriptor that is not in use was lost at line 95, to a
client that has left (`LostAtRequestLine`), at line 703 by a `/copy` whose peer
had a status that is not 200 (`LostAtStatus`), or to a thread that spins in the
header loop (`LostInHeaders`); a Close forgotten at 721 or 148 is none of these.
By `GoodAnswered` the server stalls for ever only while it stays `Hopeless`: a
thread writes a long reply to a client that does not read, or `main` has no
descriptor for a connection.  A thread whose header loop spins after its client
hung up (161) keeps a processor busy for ever, and others are answered beside it.

Proved in `RedpinServerProofs`, for any number of clients and descriptors:
`TypeOK`, `HandOver`, `DataSem` and `DescriptorsAccounted`.  The inductive
invariant adds `Handshake` (between the creation of a thread and the moment
main notices its V, no other thread starts and connfd does not change), `Queue`
(a connection is accepted once) and `Copies` (descriptors of peers are not
shared, and a refused one stays what it was).  Liveness is model-checked only.

## redpin: the wire

`RedpinRegistry` and `RedpinServer` know a request by its meaning; this model
takes it byte by byte.  `MoreString` is `more_string.c` as operators on sequences
of bytes, `Rio` the buffered reader of `csapp.c` (`rio_read`, `rio_readlineb`,
`rio_readnb`), and `RedpinWire` what `redpin.c` does with both: `doit` until the
query is known, the list queries of `serve_request`, and `get_server_results`.
What is asked (`ask`) is one of four: a client's `/pin` (`"pin"`); POST data with
anything for its Content-Length (`"claim"`); a `/copy`, where the asker is a redpin
itself and `ServePlaces` is the server it asks (`"copy"`); and a `/copy` from a
server that is no redpin, which may reply with anything for its status line and
Content-Length (`"foreign"`).

| Model | Code |
|---|---|
| `wire`, `open` | the bytes in the socket, and whether its writer still holds it open |
| `rio_buf`, `call`, `got` | `rio_t`, the call that runs, and the bytes it has so far |
| `Read`, `Take`, `EndOfFile` | a `read` of any size, `memcpy` to the caller, the end of the connection |
| `RequestLine`, `HeaderLine`, `EndOfHeaders`, `PostData` | 94-126, 154-168, 170-190 |
| `atoi` | white space, a sign, digits, as in C; numbers that do not fit an `int` are not modelled |
| `ServePin`, `ServePlaces` | 258-293: the lists that the loops of the registry run over |
| `Status`, `FetchHeader`, `FetchBody`, `Import` | 676-719, 460-470 |
| `Refuse` | `clienterror` for a line that is no request or does not fit, another version, another method |
| `"died"` | the process ends with a signal: `strcasecmp` or `atoi` on NULL, or a write to what `malloc` or `calloc` of an impossible size returned |

Bytes are their codes, so that percent, plus, semicolon, quotes and an accented
letter are themselves; what is only compared as a whole ("GET", "/pin",
"Content-Length") is one number above 255.  `MAXLINE` is 36 such symbols and
`RIO_BUFSIZE` 7, so that some lines do not fit, and lines and lists are put
together from several fillings of the buffer.  A client's request arrives whole
(clients that hang up are in `RedpinServer`); the reply to a `/copy` may break off
at any byte.

A Content-Length is the size of an allocation after one is added (176-182) or two
(711-719).  An `int` that overflows, and a negative size, which is a huge `size_t`,
give NULL; -1 and -2 give 0, and then whatever comes is written behind what was
allocated, which may end the process or not.  Otherwise memory is taken not to run
out.

In run `strings` the exchange has six invariants:

- `PinAsSent`: the lists of a `/pin` reach the loops as written, with GET and POST,
  with and without a newline at the end, however reads cut them.
- `NamesKept`: a name that `/copy` asks for arrives as it is if it has none of
  `# & ; +` and no `%` before two hex digits, and what `entity_encode`, which
  nothing in redpin calls, makes of a name can be undone.
- `CopyImports`: a copy imports the list of the name that was looked up, and of a
  broken reply the first names, the last of them perhaps cut.
- `SplitFits`: `split_string` never writes beyond what it counted.
- `DiesOnlyOf`: what ends the process, all of it.  POST data without a
  Content-Type (184); a Content-Length of POST data that is negative or INT_MAX
  (176-182); a reply to a `/copy` without a second word in its status line, from
  another server or because it breaks off there (690); one with a Content-Length
  below -1 or near INT_MAX (711-719).
- `NoWaiting`: nobody asks for more than the other side has sent while that one
  keeps the connection open; line 718 asks for one byte more than Content-Length,
  which returns only because `doit` closes.  `NoWaiting` and the check for deadlock
  stand for liveness here: a step takes bytes off the connection or moves on, so
  that without waiting every exchange ends.

`Server Assignment.html` asks for more, which the code does not do, and two runs
show it:

- `wire_names` is a violation of `NamesIntact`: the server that a `/copy` asks
  looks up the name that the `/copy` is for, also a perverse one (172-174).  Line
  667, which would encode it, is commented out.
- `wire_survives` is a violation of `ServerSurvives`: the process never ends
  (103-105, 134-135, 142-146).  The counterexample is a status line of one word.

`NamesKept` and `DiesOnlyOf` are what remains true of the two: they bound the
defects, and would catch another one.

Names of up to six bytes with each byte that means something, in either place of
a list and once as the unended last name, tell all branches of `parse_query`,
`query_decode` and `split_string` apart; longer ones repeat them.  The lengths
claimed are none, zero, too short, right, with a sign and blanks, -1 to -3, no
number, and those around INT_MAX.  How a client encodes its lists (`Form`) is
external.

Proved in `RedpinWireProofs`, for every client, every list of names, every
`RIO_BUFSIZE` and every `MAXLINE` from 20 on: all of these invariants but
`DiesOnlyOf`, which is proved of `"pin"` and `"copy"` and model-checked of
`"claim"` and `"foreign"`.  Of those two `LooseInv` says no more than types, that
the connection is closed and where they can be; it is enough for `SplitFits` and
`NoWaiting`.  The inductive invariant of the other two is `WireInv`.  Its centre
is `Ahead`: what a call has, what is in the buffer and what is on the wire, put
together.  `ReadKeeps` shows that no step of the reader changes `Ahead`, and
`Turn` what a returned call of `rio_readlineb` has of it: the next line, or, if
the writer closed within that line, the beginning of it and nothing left.  So
`WireInv` can say for every place of the program which text is ahead: the request
line and all that follows (`ClientRequest`), some of the headers (`PinHeaders`),
the POST data, the status line of a reply, some of its headers (`HeadersAhead`),
its body, each perhaps cut (`Cut`), or nothing of a cut reply (`Lost`).
`NoWaiting` needs the sum of all this, since it is false as soon as one place asks
for a line, or for a byte, that is not ahead.  What `parse_request_line`,
`parse_query`, `query_decode`, `split_string`, `atoi` and the other functions of
`more_string.c` make of the lines is the first half of the module: decoding what
was encoded (`DecodeEncode`), splitting what was joined, or a beginning of it
(`SplitPart`), reading the digits that were written (`AtoiDigits`), the value of a
field that was not encoded (`NameParsed`, `NameArrives`).

## dictionary

`StringMap` is `dictionary.h`: a map from folded strings to a spelling and a
value, where each call has a result and a set of values it destroys.
`Dictionary` is `dictionary.c`.  The server uses one dictionary under one lock
at a time, so calls do not overlap.

| Model | Code |
|---|---|
| `slots` | `keys` and `vals`: NULL, REMOVED, or a record of key and value |
| `size`, `fill`, `count` | `array_size`, `fill_count`, `map_count` |
| `Walk(k, n)` | the slot after `n` passes of the probe loop; `Ends(k, n)`: the loop ends there |
| `Overwrite`, `Reuse`, `Fill`, `Grow` | the four branches of `hash_op` in `ADD_MODE` |
| `Rehash` | one pass of the loop of `grow_and_rehash`; `Retry`: the recursive call after it |
| `Hash1`, `Hash2`, `Folded` | the functions of the compare mode, from `StringHash`, given by `MCDictionary` |
| `out`, `destroyed` | what the call returned and what it passed to `free_value` |

`& (sz-1)` is `% size`, because the size is a power of two, and `0.8 * size` is
never an integer then, so that the comparison in floating point is the one in
integers.  A `size_t` sum of signed chars may wrap; modulo the size that makes
no difference.  `dictionary_keys` lists keys in the order of their slots; the
model keeps the set.

In run `strings`: `CountsAgree`, `WalksEnd` (every probe ends), `Findable`
(every entry is found from its key) and `ImplementsStringMap`, where the map of an
array that is being copied is what was copied and what waits.  Its strings
differ only in case or start in the same slot, one has a negative hash (a signed
char), and arrays have 2, 4 and 8 slots; five strings are more than the first
two arrays hold, and enough for walks past two tombstones.  No bound is needed:
the number of strings limits the array.

Two texts of the repository say otherwise than the code, in passing:
`dictionary.c:10` calls `map_count` "always less than fill_count", and they are
equal until something is removed; `dictionary.h:61-63` promises that
`dictionary_keys` takes time proportional to the number of mappings, and it
visits the whole array, which removed keys make grow and nothing makes shrink.

Proved in `DictionaryProofs`, for any strings, any hash functions that agree
with the comparison (`HashAssumption`) and any initial size: `CountsRight`
(types, counts and the share of NULL slots, one inductive invariant: `count`
stays in Nat because there is an entry where it is decremented), and
`EntriesFindable`.  Its argument: a key whose walk ends at NULL is nowhere in
the table (`NullIsAbsent`), so it can be written where its walk gets to first
without capturing the walk of another key (`WriteKeepsFindable`), and a
removal turns no slot into NULL (`ChangeKeepsFindable`).

`SearchesEnd`: every walk ends, under `WalkAssumption` (the first size is a power
of two and every step is odd).  A walk of `size` passes visits every slot: two of
its passes in one slot would make an odd number divide a power of two, and an
injection of a finite set into itself is onto; one of the slots is NULL by
`RoomLeft`.  A power of two is here a number whose only odd divisor is one,
which doubling keeps, so that the argument needs no induction over exponents.
Lemma `CodeWalks` shows the assumption of the code: 16, and `hash2` of
`StringHash`, which is odd for every string.

`RefinesStringMap`: each call, and each pass of a growth, is what the map does
or nothing at all.  The map of a table is defined over its entries, of which no
two have equivalent keys; the map of a growing table is made of the new array,
what is left of the old one and the pending entry.  What a call returns follows
from where its walk ends (`Findable`): at the entry of its key, or at NULL, and
then there is none.

## Tournament

`run_tournament` forks, for each round, a game maker and the players, each with
a pipe for its standard input and one for its output.  It relays a player's
move to the game maker and the verdict back, until somebody wins or everybody
went wrong; then it waits for the winner, kills the others, waits for the game
maker and goes on.  SIGINT is blocked while a round runs; its handler prints the
scores and exits.

| Module | Stands for | State |
|---|---|---|
| `GamePipes` | the pipes and the 7-byte lines | `in_game`, `out_game`, `in_player[p]`, `out_player[p]`: what was written and not yet read |
| `GameMaker` | `game_maker.c` | `maker` (its process), `turn` (its `i`), `playing` (who has `in_game`) |
| `GamePlayer` | the player programs and `io.c` | `state[p]` (the process), `moves[p]` (legal moves made), `bad` (history: who misbehaved) |
| `Tournament` | `run_tournament.c`, composed with the three above | `pc`, its variables of the same names, `results`, the signal mask and the pending signal, stdout's buffer, the output; `done` (history: rounds completed) |
| `MCTournament` | the players of the runs | |

A line is known by what the game makes of it: *legal*, *goal* (legal, and onto
the target) or *illegal*; *broken* is the line run_tournament sends in place of a
partial one; *head* and *tail* are a legal line written in two parts and *scrap* a
part that nothing follows.  `colder`, `hotter` and `steady` are one verdict,
because nobody but a player's strategy tells them apart.  `Habits` says what the
players of a run may do: `illegal` is unreliable_player, `badexit` is
fumble_player, `scrap` garbled_player and distracted_player; `quit` and `halves`
are players the assignment allows for ("might not function properly") and the
repository has none of.  `bad` and `split` remember who misbehaved and who split
a line.

Every action of `Tournament` is one visible step of run_tournament: a read or
write of a pipe, a wait, a signal call, an assignment between them.  While SIGINT
is blocked nobody sees assignments in between, so that a `for` step that counts,
kills and waits is one action.  Time starts when the handler is installed, which
is where SIGINT begins to mean something.  Standard output is taken to be a file
or a pipe (fully buffered), as in `test.rkt`.

Undefined behaviour.  (1) `strcmp` on a 7-byte buffer without terminator:
`StrcmpSees` is TRUE for a build in which it finds equal lines equal and FALSE
for one in which it never does, which is what gcc 12 makes of it at `-O2`, the
Makefile's level; at `-O1` it compiles to a call.  The run takes TRUE; with FALSE
no verdict is seen, and `EveryTournamentEnds` fails after the first goal.  (2) `memset`
of `n` ints on `n` bytes stays within the allocator's smallest chunk for up to six
players; `MemsetAssumption` keeps the model to those.  With seven or more, glibc
finds its heap overwritten and aborts at the final `printf`.

### Properties and runs

| Run | Instance | Shows |
|---|---|---|
| `shell` (the tournament of it) | 2 players, 2 rounds, all habits, one legal move each before a goal or a misdeed, fairness | `TypeOK`; `InStep`: relay and game maker agree on whose move is judged and who is out; `FailsDeserved`: who fails misbehaved or split a line, and who was told `wrong!` or won and ended badly fails; `ScoresAddUp`: win or lose each round; `NothingLeft`: no process survives its round; `CtlCSpares`: Ctl-C does not reach a child on its way to a group of its own and never cuts a round; `EveryTournamentEnds` |
| `tournament_report` (violation) | 1 player | a report that counts one round too many |

`FailsDeserved` makes an exception for a line in two parts (`split`): one `Read`
may take the first part only, which is relayed as broken, so that a player that
makes legal moves is counted as failing.

Bounds: two rounds are enough for state that one round leaves to the next
(`fail`, the pipes, processes, the mask) to do harm, and two players for one to
be out while the other goes on; `MaxMoves = 1` lets a player come back to the
relay after a verdict, which is all that a later move does as well.  (Three
players in one round, 590,000 states, were checked as well and show nothing
new.)

Fairness: the relay, the game maker and each player take a step when they can
(weak fairness of processes that the kernel schedules).  A player in an endless
loop has no step, so nothing is assumed of it.  That a player makes at most
`MaxMoves` legal moves is a restriction of its own, true of the repository's
players, which all stop after finitely many moves; the code has no limit ("there
is no limit on the number of turns").

Proved in `TournamentProofs`, for any number of rounds, any habits and any
number of players that `MemsetAssumption` admits: `TypeCorrect`, `ScoresSafe`,
`NothingSurvives` and `SignalsSafe` (the action property `CtlCSpares`),
whatever `strcmp` sees; `StaysInStep` and `FailuresAreDeserved` for a build in
which it sees the verdicts (`StrcmpSees`).  The invariant `IInv` adds to the
types: SIGINT is blocked during rounds and only then, also in a child that has
no group of its own yet (`Mask`); a round starts with nothing of the one before
(`Clean`); while results are counted some players have theirs, the winner first
(`Scored`), and those are killed and waited for (`Buried`); `fail_count` is the
number of players in `fail` (`Failures`); and what may be in the game maker's
pipes at each place of the relay (`Wires`), because a line left from an earlier
turn would put the two out of step.  `InStep` says nothing between the turns, so
its invariant is `Agreed`, one conjunct for each place of the relay: the next
player that the relay looks for is the one that the game maker expects (`Due`).
`FailsDeserved` speaks of the end of a round; what leads there is `PInv`, which
follows each player through its turn (`Protocol`: what its pipes may hold and
what it has done in each of its states) and knows that whoever is in `fail`
misbehaved or split a line (`Deserved`).  Liveness is model-checked only.

Not modelled: more than 100 players, at which game_maker refuses to start; failing system
calls.  The strategies of the players and game_maker's choice of positions are in
the next section.

## Players

In `Tournament` a player does anything; here it does what its program does.
`Board` is one player's game as `game_maker.c` plays it, with the lines of `io.c`
as bytes, and `BoardPlayers` the seven programs: `scan`, `step`, `jump`, and
`fumble`, `unreliable`, `garbled` and `distracted`, which are made to go wrong.
The games of a round do not touch each other, so one player is enough.

| Model | Code |
|---|---|
| `DealPlace`: `Tries`, `Kept` | `game_maker.c` 74-104: a start drawn until it is on the board and at a legal distance |
| `JudgeLine`: `Legal`, `Compare` | 110-142 |
| `PassedOn`, `Broken` | `run_tournament.c` 158-169, which completes a partial line |
| `write_position`, `parse_position` | `io.c` |
| `stage`, `at`, `count` | the loop a program is in, its `x` and `y`, its counter |
| `Walk`, `GoBack`, `WalkOn` | the four loops of step, fumble and unreliable_player |
| `ToCorner`, `Row`, `Cell` | scan_player |
| `axis`, `lo`, `hi`, `amt`; `Far`, `Near`, `Narrow` | jump_player's search by halves, first along x and then along y |
| `Hover`, `WriteScrap` | garbled and distracted_player, to the line they do not finish |
| `won` | how a program ends when it is told `winner!`; fumble_player returns 1 or aborts |

In run `shell`: a board of 9 by 9 with a target in every row and column, and every
start that may be dealt with two pairs of distances.  `PlaysFair`: only players
made to go wrong are told `wrong!`, nobody leaves the board although jump_player
clips a step at 0 and not at `lo`, and nobody gets past its last loop.
`KnowsWhere`: a program's `x` and `y` are where the game maker has it, although
the guidance after a step back is thrown away, and the target stays between
jump_player's bounds.  `EveryGameEnds`: scan, step and jump win; fumble,
garbled and distracted fail.  Nine places in a row are more than one leap and its
halves, with and without remainder, and have a target in both halves of each.

Fairness: the game maker and the player run when they can.  unreliable_player's
`JUMP_TIME` is 5 instead of 45, because games are shorter.

Proved in `BoardProofs`: `PlaysFairSafe` and `KnowsWhereSafe`, for boards of 4 to
100 places a row (`BoardAssumption`), every target, distance and `JUMP_TIME`.
The inductive invariant says, for each place of each program, where the game
maker has the player while a line is on its way (`Turns`, with `Spot`), and what
the program has learnt of the target: on which side of it the walkers are in
each of their loops (`WalkerKnows`), which rows and cells scan_player has left
behind (`ScanKnows`), and between which bounds jump_player searches
(`JumpKnows`).  The delicate part is jump_player's last leap, which is clipped
at 0: a leap is at most `4*lo + 1`, so that a clipped one, which the program
takes for a full one, cannot bring `hi` down to `lo`.  That the lines of `io.c`
are read back as they were written (`write_position`, `parse_position`) is
proved for all positions, and that no part of a line is a move.

## Allocator

`BlockSet` says what an allocator promises: disjoint aligned blocks in its
region, and NULL only when no gap between live blocks would hold the request.
`Heap` is `mm.c` on a memory of words, where tags and the links of the free list
lie among the client's data, so that a wrong tag is read like a right one.
`UseMem` is its driver: the six tests of `usemem.c` as scripts of calls (`Scripts`),
and the "test" `any` for a client that calls in any order.

| Model | Code |
|---|---|
| `mem`, `free_list`, `heap_size` | the words of the heap, `free_list`, what `mm_init` was given |
| `live` | the client's blocks, with what it filled them with |
| `SetTags`, `add_to_front_list`, `replace_in_list`, `delete_from_list` | `set_allocated` and `set_unallocated`, and the functions of these names |
| `FirstFit`, `TooSmall`, `Place` | `mm_malloc` |
| `Release` | `mm_free` and its four cases |
| `init_heap`, `checked_malloc`, `Free`, `Script` | `usemem.c` |

In run `labs`: `HeapSound` (the blocks tile the heap, header and footer agree, free
neighbours are joined, the list is exactly the free blocks), `PayloadKept` (no call
writes into a live block), `EveryTestPasses` (in heaps with no page to
spare) and `ImplementsBlockSet`.  For `any` the heap holds six of the smallest
blocks, and requests take 32 or 64 bytes: every pattern of free and used
neighbours, and of exact fits and splits.  Remainders too small to be a block are
what the scripts add, with blocks of 48 bytes.  Scripts have up to nine
blocks, with `--compact` and without; `usemem`'s default counts are the same
scripts, longer.  A page is 16 bytes, so that a heap is no larger than the
formula of `init_heap` says.

Not covered: sizes near the largest `size_t`, for which `ALIGN` wraps (`Modulus`
is there, no test asks for them), and the comparison of two times in
`alloc_timing` with the `exit(1)` that may follow it (usemem.c:570-574): it is
about how long the calls take.  Fairness is the driver's own progress.

Proved in `HeapProofs`, for heaps of every size and every client whose calls are
legal: `HeapSafe`, `PayloadSafe` and `RefinesBlockSet`.  `HeapSound` reads the
blocks out of the memory, by walking from tag to tag and from link to link,
which is no way to reason; the inductive invariant `HeapOK` says it the other way
round: there is a function from the blocks to their sizes that the memory is the
picture of (`Shows`).  Its parts: the blocks lie side by side (`Tiles`), both
tags of each tell its size and state (`Tagged`), free neighbours are joined
(`Joined`), and the list's links enumerate the free blocks (`IsList`), with no
word of a node in another block.  `Kept` adds the client's data.  Then each list
operation has its effect on an enumeration, splitting and joining theirs on the
function of sizes (`SplitAt`, `JoinAt`), and each of the four cases of
`mm_free` and both of `mm_malloc` gives a function for the new memory; all of
them write only into tags, free blocks and the block in question (`Spares`).
That the walk of `HeapSound` finds the blocks of that function again is shown
by well-founded induction on addresses.  `Driving` is the client's side: it holds
a pointer to each live block, and no two to one.

Under the mapping, a refusal is right because of `Joined`: a gap between live
blocks is one free block, which first fit would have found (`MallocFinds`).

`ScriptsAssumption` says of the client that its sizes do not wrap in `ALIGN` and
that it frees only what it asked for, once.  For the client `any` that is all:
it makes every legal call in any order.  For the six tests it says that their
scripts are of that kind, which TLC evaluates for the arguments of the run; it
is not derived from the definition of the scripts.

## Enforcer

`Decode` is `decode.c` on bytes: the length and kind of an instruction, and the
crash that replaces one.  `Enforcer` is the walk of `enforce.c`: a stack of the
running calls of `check_function`, and the code as it is rewritten under them.
`SharedLibrary` gives functions a meaning (how gcc lays out and encodes them is
external; their executions are paths of instructions, whole or replaced), and
`Examples` has the functions of `ex0.c` to `ex4.c` with the predictions at the
heads of those files.

| Model | Code |
|---|---|
| `code`, `stack`, `todo` | the output's text, the calls of `check_function` with address and `status`, the functions not yet visited |
| `AccessVar`, `Call`, `JmpToAddr`, `MaybeJmp`, `Ret`, `Ignore` | the cases of the switch (115-184) |
| `GiveUp` | `decode` on bytes it does not know, where the walk stands or at the target of a call (153) |
| `find_called_fun_name`, `find_accessed_var_name` | the search of the relocation tables, for a call through its PLT entry |

In run `labs`, over the five examples and every function of up to six
instructions that branches forward: `Enforced` (whatever path an execution takes,
its first misuse is a crash, and no return leaves the library open), `Spared` (in
functions where no paths join, behaving executions are untouched, and enforce does
not give up), `AsPredicted` and `EveryWalkEnds`.  Six instructions hold an access or a
call on each side of a branch and one after the join.  Where paths join with
different status the instruction is replaced for both of them, so that an
execution that behaves may crash, which is why `Spared` leaves joins out.
`enforce_tail` is a violation: a function that ends in a tail call of open_it.

A four-byte displacement is one number; addresses are small.  The walk of a function
that branches backward does not end; `Linking Assignment.html` rules loops out.  Nor
has a function of the model an instruction that `decode` takes for another one: of
`add` with a four-byte immediate it skips four bytes of six, and the walk goes on
inside the immediate (`decode.c:172`, see `hazards` in `PROJECT.json`).  A call whose
target is no jump leaves `jump_ins.addr` uninitialised in C; the model takes it for
no name, which is what the search makes of an address outside the slots.

What gcc and ld make is stated twice: `Assemble` makes a library for TLC, and
`Linked` says what any library is (functions that branch forward and end in a
return or a jump out, each standing in the text instruction by instruction, apart
from the others, with jumps of two bytes that reach where they go, and the two
entries of the procedure linkage table).  `LibrariesAssumption` is that all of
`Libraries` are `Linked`; TLC checks it of everything that `Assemble` made.

`LabsProofs` proves `Enforced` and `Spared` of all `Linked` libraries.  `Base` says
that every instruction is whole or a crash (`CodeOK`), and that the walk stands at
the start of one (`WalkOK`); from it `Turns`: a step
of the walk either gives up or is `Turn`, the step of one instruction of the source.

- `EnforcerEnforces`, with the invariant `Walked`.  What has been visited cannot be
  read off the state.  So `Walked` is about every set that is `Closed`: one that
  holds an instruction with a status whenever the instruction is replaced, or does
  not misuse the library and leads only into the set.  If such a set holds all that
  is on the stack, it holds the starts of all functions begun.  The least of them is
  what is in order on every path, and the stack is empty when the walk has ended.
  The theorem's hypothesis `Followed` names what the walk does not follow: a `jmp`
  within a function, whose target `JmpToAddr` does not visit, tail calls through the
  procedure linkage table, whose names `find_called_fun_name` does not find, and
  `open_it` as a tail call, which is no return.  Without it the theorem is false:
  run `enforce_tail` is one case.
- `EnforcerSpares`, with the invariants `AsLabelled` (a function in which each
  instruction has one status it is reached with is visited, and replaced, for that
  status only) and `GoesThrough` (what is ahead of the walk is whole, and each
  place is ahead of it once).  It needs no hypothesis.

TLC finds `Followed` true of the libraries of run `labs`, so that the theorems cover
all that the run covers.

## Matcher and kernels

Both are pure algorithms, and part of run `labs`.
`Matcher` is `matchlab.c`: `main`'s two loops are `Flag`, `String` and `Judge`;
`matchA`, `matchB` and `matchC` are operators that follow the tests of the code,
and `PatternA` to `PatternC` the languages as existence of their parts.
`Answers`: one answer for each string, yes exactly for the words of the language
of the last mode named, and with `-t` one conversion for each match, from which
the word, or what mode c keeps of it, can be told again.  The inputs of the run
are words of the three languages with short and longer parts, and everything one
edit away (`Edits`): counts that the code takes for the length of a prefix are put
to the test when a letter stands elsewhere.  The patterns are those of the code;
`Match Assignment.html` shows those for another student, so it is no reference.

Proved in `LabsProofs`: `RightMode`, that each matcher accepts its language and
nothing else, for strings of every length over `Char` (digits, capitals, and those
small characters that the code asks for, with some that it does not), and
`MatcherAnswers`, `Answers` for every command line of such strings.  A word of a
language is spelled out place by place (`SpellsA`, `SpellsB`, `SpellsC`) and the
tests of the code are restated for given counts (`CodeB`, `CodeC`); that the
counts are the lengths of the parts is `CountB`, `CountC` and `RunIs`: a letter
that stands elsewhere makes a count too large, and then the `=` behind the prefix
is not where the code looks for it, or the part behind holds a letter that it may
not have.  That a conversion can be undone is an induction over the string
(`DoublingUndone`) or follows from what `Without` keeps of each part
(`ShorteningKeeps`).  The invariant of the loops, `MatcherIInv`, says that the
mode, the option and the strings are those of the arguments seen (`Seen`), and
that what is printed is what the strings judged so far have coming (`Told`).

`Kernels` has the two versions of pinwheel, and glow; an action is one pass of
the innermost loop, `dest` the pixels written so far.  `ImageRight` compares the
image with what `check_pinwheel` and `check_weighted_sum` of `driver.c` compute,
and finds nothing written outside it.  Pixels have one colour for three, which are treated
alike.  The weights 0.16 and 0.30 are exact hundredths: for every colour of 16
bits the product in double precision, cut to an integer, is the same.  Sizes for
the blocked pinwheel are 8, 16 and 24 (one block, a border between blocks, and a
block that touches no corner); glow runs on 2 by 2 with extreme colours and on 3
by 3, which has a pixel with all its neighbours.

Proved in `LabsProofs`: `KernelsRight`, `ImageRight` for images of every size
that `JobAssumption` admits (multiples of 8 for the blocked pinwheel, even for
the naive one, the driver's are multiples of 32) and every colour.  The
inductive invariant says that the loops' variables stand in their ranges
(`At1`, `At2`) and that the image is what becomes of the pixels they have passed
(`Painted`, with `Passed1` and `Passed2`).  It rests on four lemmas: the integer
bounds of a row are the diamond, and the diamond turns into itself
(`RowIsDiamond`); the places that pixels go to are all of them and each once
(`GoesApart`, `GoesEverywhere`), so no pixel is overwritten; one pass of either
set of loops adds just its own pixels (`Advance1`, `Advance2`); and the
quotients by 25 and 10 are the driver's hundredths, whose sum never wraps
(`SumsAgree`).
## Proofs

What TLC finds in a small instance TLAPS proves for every value of the constants.
A `*Proofs` module extends the module it is about; each has one inductive
invariant, whose definition comes first, one lemma for the initial states, one
for each action, and the theorems at the end.

| Module | Theorem | Says |
|---|---|---|
| `RedpinRegistryProofs` | `TypeCorrect`, `LockSafe`, `MirrorSafe`, `PinPointersSafe` | types; one thread at a time; the dictionaries agree; only `/unpin` uses freed ones |
| | `RefinesPinBoard` | requests take effect in one step |
| `RedpinServerProofs` | `TypeCorrect`, `HandOverSafe`, `DataSemExclusive`, `OnlyKnownLeaks` | types; each thread serves its own connection; one thread at a time; where descriptors are lost |
| `DictionaryProofs` | `TypeCorrect`, `CountsRight`, `EntriesFindable`, `SearchesEnd` | types; counts; entries are found; the probe ends |
| | `RefinesStringMap` | the table is a map |
| `TournamentProofs` | `TypeCorrect`, `ScoresSafe`, `NothingSurvives`, `SignalsSafe` | types; win or lose each round; no process survives its round; what SIGINT spares |
| | `StaysInStep`, `FailuresAreDeserved` | relay and game maker agree; who fails deserves it |
| `BoardProofs` | `PlaysFairSafe`, `KnowsWhereSafe` | working players move legally; they know where they are, and the target is within jump_player's bounds |
| `HeapProofs` | `HeapSafe`, `PayloadSafe` | blocks tile the heap and the list is the free ones; no call writes into a live block |
| | `RefinesBlockSet` | blocks are disjoint, and NULL means that there is no room |
| `LabsProofs` | `RightMode`, `MatcherAnswers` | the matchers accept their languages; what `matchlab` prints |
| | `KernelsRight` | the image is the driver's |
| | `EnforcerEnforces` | each path through enforce's output crashes in place of its first misuse |
| | `EnforcerSpares` | nothing else crashes where no paths join |
| `RedpinWireProofs` | `WireInvariant` | what is ahead of a reader is the rest of what was written |
| | `WireType`, `WireNoWaiting`, `WireSplitFits` | types; nobody waits for ever; `split_string` stays in its array |
| | `WireSurvives` | what ends the process, of a `/pin` that states its length rightly and a `/copy` from a redpin |
| | `WirePinAsSent`, `WireCopyImports`, `WireNamesKept` | lists and names arrive as they were sent, or cut where the reply was |

The assumptions are those that the modules state of their constants; TLC
evaluates each of them.  Some theorems have a hypothesis besides: `StrcmpSees`,
one of the two outcomes of an undefined behaviour (with the other one the
tournament does not get past its first goal); `WalkAssumption`, which lemma
`CodeWalks` shows of the code's own numbers; `Followed`, which says what the walk of
the [enforcer](#enforcer) does not follow; and, for `WireSurvives`, that what is asked
is one of the two above.

Of the wire, `RioAssumption` asks for a `MAXLINE` of at least 20 symbols, so that
each line of fixed length that redpin writes fits (8192 in `csapp.h`), and
`LengthAssumption` for lists whose encodings are shorter than 2^31 bytes, because
the code counts them in an `int`, and for numbers in a Content-Length that are an
`int`.

The library's theorems of induction take an operator as their parameter, which
the provers cannot instantiate.  Where a proof needs induction over a sequence
or a number, as for everything that `more_string.c` and `matchlab.c` do in a loop,
it takes the least counterexample instead (`LeastOf`, from the order of the
naturals being well founded), or a set in place of the property (`EverySeq`).  The recursive functions are seen as chains (`IsChain`: each value
is a part put before the value at a later place) or runs (`IsRun`: each value is
made from the one before), so that what two of them have in common is shown
once for each kind.

What stays with TLC, and why:

- Liveness: `EveryRequestAnswered`, `GoodAnswered`, `EveryTournamentEnds`,
  `EveryGameEnds`, `EveryTestPasses`, `EveryWalkEnds`.  TLAPS has no rule for fairness and
  ENABLED here.
- `DiesOnlyOf` of POST data and replies that state their length wrongly.
- `AsPredicted` is about the 21 functions of the assignment's examples, each
  with its own prediction: a proof would be the run, step by step.
- `ScriptsAssumption` is an assumption about the scripts of `usemem.c`, and not a
  lemma: it would be an induction over the calls of each script.
## Plan

1. The redpin registry and server, with the pin board as their specification.
   Done: `RedpinTypes`, `PinBoard`, `RedpinRegistry`, `RedpinServer`.
2. The dictionary as an implementation of a finite map.  Done: `StringMap`,
   `StringHash`, `Dictionary`.
3. The tournament: pipes, players that fail, SIGINT.  Done: `GamePipes`,
   `GameMaker`, `GamePlayer`, `Tournament`.
4. The allocator as an implementation of a set of blocks, and its driver.  Done:
   `BlockSet`, `Heap`, `UseMem`.
5. The enforcer against the paths of the functions it rewrites.  Done: `Decode`,
   `Enforcer`, `SharedLibrary`, `Examples`.
6. The pure algorithms and the bytes on the wire.  Done: `Board`, `BoardPlayers`,
   `MoreString`, `Rio`, `RedpinWire`, `Matcher`, `Kernels`.
7. Proofs.  Done: see [proofs](#proofs), which also says what is model-checked
   only.

## What is not modelled

- The vendored CS:APP library but for its buffered reader: its functions are
  single system calls, whose effects are part of the models of their callers.
- `random.c` (vendored): every random choice is open.
- The timing harness of the performance assignment (`driver.c` but for the two
  functions that say what a right image is, `fcyc.c`, `clock.c`): it measures
  cycles, which no model has.
- Test scripts, style sheets and the assignments' pages.
- Two servers that copy from each other (see `hazards` in `PROJECT.json`): it
  takes two instances of the server.
- A tournament of more than 100 players: game_maker exits at once, and
  run_tournament waits for its first line.

Of C itself, what a wild pointer does is left open where it matters
(`UseAfterFree` in the registry, `"died"` on the wire, `StrcmpSees` in the
tournament) and assumed away where a note says so.

# TLA+ models of enigma-dev: the AST builder, the binary buffers and the Steam client

This directory holds TLA+ specifications of parts of the repository, the TLC
configurations that check them, and `PROJECT.json`. That file lists every
component, run, mutant, source mapping, finding and hazard in
machine-readable form.

## The system and its parts

| Part | Source | Module(s) | Status |
|---|---|---|---|
| AST builder: statement and operand parser | `src/CompilerSource/parsing/parser.cpp` | `Parser`, `MCParser` | partly |
| Lexer and error handler, the parser's collaborators | headers not in the repository | `Parser` (as the environment) | partly |
| Buffer data serialization | `bufferstruct.cpp`: `serialize_to_type`, `deserialize_from_type`, `buffer_sizeof` | `Serialization`, `MCSerialization` | partly |
| Buffer table and operations | `bufferstruct.cpp` | `Buffer`, `MCBuffer` | partly |
| Steamworks stats and achievements callbacks | `Extensions/Steamworks/game_client/c_stats_and_achievements.cpp` | `SteamStats`, `StatsLatch`, `MCSteamStats` | modelled |
| Steamworks getters | `Extensions/Steamworks/general.cpp`, `wrapper/steam_utils.cpp` | `SteamGeneral`, `SteamStats`, `MCSteamStats` | modelled |
| Steamworks leaderboards | `game_client/c_leaderboards.h` (declarations only) | none | not modelled |
| Visual shader graph | `shared/ResourceTransformations/VisualShader/visual_shader.h` (declarations only) | none | not modelled |

How the parts interact:

- **Parser.** It pulls tokens from a lexer and reports to an error handler.
  Neither of those is in the repository.
- **Buffers.** Every `buffer_*` function works on the global table
  `enigma::buffers`. `buffer_poke` and `buffer_load_ext` serialize a value
  and write it with `write_to_buffer`. `buffer_peek` and `buffer_read`
  deserialize.
- **Steamworks.** `steam_init` builds the stats object, which asks Steam
  for the user's stats once. Steam accepts the request only for a logged-on
  user. Steam answers with callbacks, which the game's callback pump
  delivers in order to three handlers. The functions of `general.cpp`
  check that Steam is initialised and the user logged on, then read the
  latch the handlers set (`steam_stats_ready`) or ask Steam. The game
  then calls the stats object's pass-throughs (`set_achievement`,
  `store_stats`, ...), which Steam accepts once it holds the stats.

## Modules

### `Parser` (parser.cpp)

Variables:

- `input` is the token stream the lexer will produce.
- `pos` is the index of the token in the AstBuilder field `token`. The
  lexer keeps returning end-of-code once the stream runs out.
- `diags` is what the error handler received.
- `stmts` holds the statements the caller collected.
- `phase` is parsing, done or undefined.

Operators:

- `TryParseOperand`, `TryParseExpression`, `ParseParenthetical`,
  `ParseArray`/`ArrayElements` and `TryReadStatement` are recursive
  operators from parser state `[pos, diags]` to `[node, st]`. They follow
  the switch cases of the code one for one, fallthroughs included. The
  unary case falls into the parenthesis case.
- `Read` is `token = lexer->ReadToken()`.
- `Report` is `herr->ReportError`, `Error` or `ReportWarning`.

The only action is `ReadStatement`, one whole `TryReadStatement` call made
by the code that collects a block. A call that reaches a parse function
without a body ends in phase `undefined`. Such a function flows off the end
of a value-returning function.

Token kinds are grouped the way parser.cpp treats them. For example, `LIT`
stands for identifiers and all literal kinds, and `BINOP` for the
binary-only operators.

### `Serialization` (pure operators)

- `SerializeToType` gives the two's-complement bytes of a value, most
  significant first. It uses floor division, so it is exactly the `>>` and
  `& 0xff` of the code.
- `DeserializeFromType` is the `(value << 8) | byte` fold, with the sign
  cast of the signed types.
- `AsType` is the reference: the value of the type that is congruent to the
  input modulo 2^(8 * width).
- `MCSerialization` serializes and then deserializes every 8- and 16-bit
  value in the casts' defined range, plus sampled 32-bit values.

### `Buffer` (bufferstruct.cpp)

Variables:

- `slots` is the AssetArray. A slot is empty or a BinaryBuffer record with
  `data`, `type`, `alignment` and a ghost `gen`.
- `handles` is the set of ids the game holds, each with the generation it
  was given.
- `position` is the BinaryBuffer field that buffer_seek sets and the
  stream calls advance.
- `ub` collects the undefined behaviour reached: out-of-bounds write or
  read, division by zero, impossible allocation, and a string scan that
  never ends (`hang`).
- `last` is a ghost holding the arguments of the last poke, copy, write
  or read.

size_t arithmetic is modulo `SizeMod` (2^16 in the MC module), so the
wrap-arounds of `buffer_copy` happen. A resize beyond `MaxAlloc`
(vector::max_size) throws.

Actions:

- `BufferCreate` (make_new_buffer and get_free_buffer).
- `BufferDelete`.
- `BufferResize`.
- `BufferPoke`: serialize, the refusal test, then write_to_buffer.
- `BufferLoadExt`: an open that fails, or read and write.
- `BufferLoad`: create first, then open.
- `BufferCopy`: the offset checks in order, written_bytes and truncation,
  the grow resize, and the byte loops (`CopyBytes`) on the live table. A
  copy from a buffer to itself reads bytes already overwritten.
- `BufferWrite`: zero padding up to the alignment, serialize, write at
  the position, then advance. The type test is the code's
  `type != buffer_string && type != buffer_string` (`NumericBranch`).
- `BufferRead`: skip the padding, `buffer_peek` at the position (its
  string case wraps on a wrap buffer, `PeekString`), then advance the
  same way as the write.
- `BufferSeek`: start, `GetSize() - 1 + offset`, or relative, modulo
  size_t.
- `BufferFill`: the alignment loop, which advances the offset but writes
  its zeros at the position. Then the clamp `GetSize() - offset`, which
  wraps when the offset is past the end. Then `times` copies of the bytes
  and padding, the remainder, and `Seek(0)`. The line that copies the
  bytes where the remainder's padding belongs (543) is kept, but its
  condition `remainder - bytes.size() >= padding` never holds, because
  the remainder is less than `bytes.size() + padding`.
- `BufferSaveExt`: the offset checks and the truncation
  `std::min(GetSize(), size) - offset` of `buffer_save_ext`. The buffer is
  only read, so the action changes only `ub`: an out-of-bounds read, or
  the modulo of an empty wrap buffer.

Stream calls and seeks that would move the position past `MaxPosition`
(`MaxSize + 1`) are not issued, except to SIZE_MAX (`InPositionBound`):
`buffer_seek` to `GetSize() - 1` of an empty buffer lands there, and a
`buffer_read` from there wraps the position to 0. The position is a size_t
that the code never checks. `write_to_buffer` adds `data.size() + offset`
in size_t (`WrittenSize`), so a write at SIZE_MAX to a grow buffer wraps
the sum and does not resize.

### `SteamStats` (c_stats_and_achievements.cpp, general.cpp)

Variables:

- `statsValid` is `stats_valid_`.
- `queue` holds the callbacks Steam posted that the game has not yet
  delivered, oldest first.
- `requestPending` and `steamLoaded` are Steam's side: the constructor's
  request was accepted and is unanswered, and Steam holds this game's
  stats.
- `initialised` and `loggedOn` are what `c_main::is_initialised` and
  `c_game_client::is_user_logged_on` report. `c_main` is not in the
  repository, so both are driven by the environment.
- `posted` bounds the callbacks of stores, other games and repeated
  requests (`MaxCallbacks`); the answer to a pending request is not
  bounded.
- `lastCall` records the game's last stats call: what
  `steam_stats_ready` answered just before it and whether Steam accepted
  the call (the method's return value).

Actions:

- `Construct` is `steam_init` building the stats object: the constructor
  clears the latch and calls `request_current_stats`, ignoring its result.
  Steam accepts the request only when a user is logged on
  (`requestPending' = loggedOn`), as the handler's log message says.
- The handlers `OnUserStatsReceived`, `OnUserStatsStored` and
  `OnAchievementStored` are operators from the latch and a callback to the
  latch. `OnUserStatsStored` calls `OnUserStatsReceived` with the forged
  callback, as the code does. `Deliver` is one callback delivered by the
  pump to the handler registered for its kind.
- The game's calls, on the object `steam_init` built. `StatsCall(op)` is
  one of the pass-throughs in `StatsCalls` (`set_achievement`,
  `get_stat_int`, `reset_all_stats`, ...); Steam accepts it once it holds
  the stats. `StoreStats` is `store_stats`: refused until Steam holds the
  stats, and once accepted reported with a stored or achievement callback
  of any result. `RequestCurrentStats` is `request_current_stats` called
  again, refused when no user is logged on; nothing in src calls it after
  the constructor, but the method is public.
- Steam is the environment. `SteamAnswerRequest` answers an accepted
  request with any result of `RequestResults`; after an OK answer Steam
  holds the stats. `SteamOtherGame` posts a callback of another game.
  `SteamLogOn` logs the user on or off.

`SteamStatsReady` is `steam_stats_ready`.

### `StatsLatch` (the abstract stats flag)

`loaded` (Steam holds the stats) and `ready` (the flag). `Load` happens at
most once; `Latch` sets `ready` only when `loaded` and never clears it, and
is weakly fair. `SteamStats` defines
`Latch == INSTANCE StatsLatch WITH loaded <- steamLoaded, ready <- statsValid`
and the `steam` run checks `StatsLatchRefined == Latch!Spec`, safety and
liveness together.

### `SteamGeneral` (general.cpp, wrapper/steam_utils.cpp)

Extends `SteamStats`. Every getter is an operator: `Refused` is the two
early returns (not initialised, not logged on), and a refused getter
answers -1 converted to its return type (`Unsigned(-1, 32)`,
`Unsigned(-1, 64)`, or the string `"-1"`). `steam_is_user_logged_on` and
`steam_utils::get_app_id` have one check each. What Steam answers is a
constant. `SteamSetWarningMessageHook`, the only call that changes state,
is an action; `GeneralSpec` is `SteamStats`' specification with it added.

### Files

The files `buffer_load` and `buffer_load_ext` read are not modelled: their
contents are a constant byte. Each file-reading action takes the
success as an input.

## Runs

| Run | Expect | What it shows |
|---|---|---|
| `parser_all` | pass | Every stream of ≤4 tokens of all 22 kinds. Nodes and statements are in source order, and every missing-closer diagnostic belongs to a kept group. |
| `parser_tokens_accounted` | violation | A consumed literal is in neither the tree nor a diagnostic. The double read drops the first token of an expression statement. |
| `parser_phantom_paren` | violation | A unary operator without an operand builds a Parenthetical at a token that is not `(`. |
| `serialization` | pass | serialize then deserialize returns `AsType(value, type)`, and the byte count is `buffer_sizeof`. |
| `buffer` | pass | Create, delete and slot reuse, resize, poke, load, load_ext, seek, write and read on grow and fixed buffers with alignment 2. Ids stay valid. A u8 or string write or read that lies inside the data returns and leaves the position just past its value, and a number written reads back (`StreamCallsAdvance`). |
| `buffer_copy` | pass | buffer_copy and u8 pokes between all types, with copying from a buffer to itself. `CopyIntoFixedOrWrapCopiesBytes`: in-span copies between two buffers into fixed or wrap destinations copy exactly the span. |
| `buffer_leak` | violation | buffer_load with a failed open leaks a live buffer. |
| `buffer_wrap_write` | violation | `AccessesInBounds`: a poke into an empty wrap buffer divides by zero. The cfg also has a 4-byte poke into a 1-byte wrap buffer, copies of 2 bytes from 1-byte buffers (the loops run to `size`, not to the truncated written_bytes), buffer_fill and buffer_save_ext from an offset past the end, and buffer_read of an empty buffer or from SIZE_MAX after buffer_seek to the end of an empty buffer; each of them reaches outside the data when it is the only call the cfg allows. |
| `buffer_text_stuck` | violation | `StreamCallsAdvance`: buffer_write of `buffer_text` writes its characters but leaves the position where it was (the `buffer_string && buffer_string` typo). |
| `steam` | pass | With `steam_init` before or after log-on, log-offs, callbacks of another game, any answer to the request, and stores that fail or report InvalidParam, and the game's stats calls and repeated requests at any time: `StatsLatchRefined`, stats_valid_ is set only once Steam holds this game's stats, never cleared, and eventually set once they are. |
| `buffer_copy_underflow` | violation | An in-span copy into a grow buffer underflows written_bytes, shrinks the destination and writes out of bounds. |
| `steam_late_logon` | violation | `ReadyOnceLoggedOn`: a game that calls `steam_init` before the user logs on never sees `steam_stats_ready` true, though the user logs on for good and Steam answers every request with OK. The constructor's request was refused and is never repeated. |

Every property of every passing run has a mutant in `PROJECT.json`: a
plausible bug in a mapped definition under which TLC finds the property
violated. The mutants are:

- a stale report position;
- a unary node placed at the wrong token;
- a dropped group;
- unmasked and little-endian serialization;
- an inverted free-slot test;
- a string advance that does not skip the terminator;
- a stats handler without the game-id check;
- a copy loop that swaps the source and destination indices.

## Bounds

- **Parser.**
  - Streams of up to 4 tokens over all 22 kinds (775,276 states).
  - These reach every switch case, nested `((`, `[(` and unary-in-group
    forms, unclosed groups, and recovery that is followed by further
    statements.
  - The number of statements is capped at one more than the stream length,
    so it never binds.
- **Serialization.** Exhaustive for 8 and 16 bits. For 32 bits, the
  boundaries: ±2^31, ±2^24, ±2^16, ±2^7, ±1 and 0.
- **Buffers.**
  - Two creations per behaviour, which is enough for a delete followed by
    slot reuse.
  - The `buffer` run has grow and fixed buffers of size 0 or 2, with
    alignment 2 and a size bound of 2 (165,764 states, with the seeks to SIZE_MAX). Poke type s16,
    offset 1, fill size 2 and loaded files of 2 bytes. The odd offset
    makes buffer_fill pad and the stream calls align; every s16 poke
    there is refused, so pokes only take the refusal path. Stream types are u8, whose odd width forces
    padding, and string. Seek offsets are -1 and 0. Wrap buffers are left
    out of this run because a string read on them really can loop forever
    (see the hazards).
  - The copy run has buffers of all three types, of size 1 and 3, with a
    size bound of 3 and alignment 1. It copies and saves 1 and 2 bytes
    from offsets 0 and 2, and pokes u8 to give the buffers content. Offset 2 in a 1- or 3-byte buffer
    gives wrap-around and `size < src_offset`. It does not fill or load
    files: those fire in the `buffer` run, and adding them here multiplies
    the states past the time limit (59,992 states without them).
  - Size 0 gives the empty-buffer edge.
- **Steam stats.** Both initial log-on states, and log-on and log-off at
  any time. One other game and up to three callbacks besides the answer
  to a pending request (102,866 states; four give 1.4 million and take
  minutes). That is enough for an other-game OK answer before this
  game's, an InvalidParam store after it, a repeated request, and a stats
  call after each; the stats calls leave the queue alone, so they are not
  bounded.

## Fairness

- **Parser and buffers: none.** The parser is a sequential function of
  its input. The buffer functions are called by the game in any order,
  and the code schedules nothing. Their runs disable the deadlock check
  because both systems legitimately stop: the parse is done, or the
  behaviour has used its creations.
- **SteamStats: `WF_vars(Deliver)` and weak fairness on answering the
  request.** The Steam API delivers queued callbacks from
  SteamAPI_RunCallbacks, which a Steam game calls every frame, so a
  callback that stays queued is delivered. Steam answers a request it
  accepted (with any result of `RequestResults`); it owes nothing else: it
  need not post stores or other games' callbacks, and the user need not
  log on. `ReadyOnceLoggedOn` assumes the user stays logged on from some point on. The run disables the deadlock check because
  Steam may post nothing more once the queue is empty.

## Not modelled, and why

- **The functions of parser.cpp without bodies** (`ParseCodeBlock`, the
  statement parsers, `ReadConditionalStatement`, binary and ternary
  expressions). There is nothing to translate. Reaching them is the
  finding above.
- **Operator precedence.** `TryParseExpression` ignores its argument.
- **u64 and float serialization.** u64 values are beyond TLC's integers,
  and floats are IEEE bit casts.
- **buffer_save, the getters' answers for invalid ids, and md5, sha1,
  base64, surface and game_save.** They only read the buffer or write a
  file, or they are empty stubs. The getters of a held id (`BufferTell`,
  `BufferGetSize`, `BufferGetAlignment`, `BufferGetType`) are operators;
  `StreamCallsAdvance` states the position through `BufferTell`. The file that `buffer_save_ext` writes is not modelled,
  only its offset arithmetic.
- **Steamworks leaderboards and the visual shader.** Only declarations are
  in the repository.
- **What the Steam pass-throughs change inside Steam** (the stat and
  achievement values). The calls are actions, answered by whether Steam
  holds the stats; the values are Steam's state, not this code's.
- **A missing retry of a failed store** (line 111 logs 'Retrying ...').
  A failed store changes nothing in this object, so the only trace of the
  commented-out retry is the absence of a later `StoreStats`, which a game
  that stops storing shows too.
- **buffer_read's fatal message on nonzero padding.** `DEBUG_MESSAGE` is
  logging, and its effect depends on the build.
- **The comment on buffer_poke's oversized writes** (lines 681-684: a
  grow buffer expands, a fixed or fast one truncates). The guard at 688
  refuses both; `BufferPoke` follows the guard. No property states the
  comment's behaviour: the disagreement shows on the first oversized
  poke, in the source itself.
- **A refinement of the buffer table.** Each buffer call changes one slot
  by its own shape, and the lowest-free-id rule restates
  `GetFreeBuffer`, so an abstract table would only repeat the actions.
- **What a game does with a refused Steam getter's answer.** The answers
  are computed (-1 becomes 4294967295, 2^64-1 or `"-1"`), but no
  contract for them is in the repository.
- **Positions between `MaxPosition` and SIZE_MAX.** Only SIZE_MAX itself,
  the underflow of a seek from the end of an empty buffer, is explored.
- **A nesting-depth limit in the parser.** spec.md asks for a maximum
  nesting depth with a "nesting too deep" diagnostic; parser.cpp recurses
  without one. Token streams of 4 tokens nest at most 4 deep, so the
  model cannot show the stack running out, and the skeleton has no limit
  to check.

## Plan for the following work

- **A property of `buffer_fill`'s frame**: a fill changes only the bytes
  of its region. The zeros it writes at the position (line 512) violate
  it in every cfg with alignment above 1; it needs a violation run of its
  own.
- **A property for copies from a buffer to itself**: an overlapping copy
  must behave as a copy from a snapshot, or not.
- **Wrap buffers in the stream run**, once the endless string scan has
  its own violation run.

------------------------------ MODULE CodeDiff ------------------------------
(***************************************************************************)
(* The debugger's Code Diff Tool (DolphinQt2/Debugger/CodeDiffDialog.cpp). *)
(* While "Start Recording" is checked the JIT profiles the blocks it runs; *)
(* "Code has been executed" (include) and "Code did not get executed"      *)
(* (exclude) turn the recorded blocks into a list of symbols and narrow    *)
(* m_include with it, then clear the JIT cache to start a new recording.   *)
(*                                                                         *)
(* A recorded function is a Diff [symbol, addr]; hit counts are left out.  *)
(* Symbols are numbers ordered as their names are, 0 standing for " --- ", *)
(* the description of an address outside every symbol. The user, the CPU  *)
(* thread running guest blocks and the Core (start, stop, pause) are the   *)
(* actors; each Qt slot runs to completion on the GUI thread, and the      *)
(* dialog pauses the Core around its JIT cache clears, so no block runs    *)
(* inside a slot.                                                          *)
(***************************************************************************)
EXTENDS Naturals, Sequences, SequencesExt, FiniteSets

CONSTANTS
  Blocks,       \* guest addresses of JIT blocks
  SymbolOf,     \* g_symbolDB.GetDescription(addr), as a symbol number
  NoSymbol      \* the number of " --- "

ASSUME SymbolOf \in [Blocks -> Nat] /\ NoSymbol \in Nat

Symbols == {SymbolOf[b] : b \in Blocks}

Diffs == [symbol: Symbols, addr: Blocks]

\* The row UpdateItem shows when m_include_active and m_include is empty.
NoneLeftRow == [symbol |-> NoSymbol, addr |-> 0]

CoreStates == {"Uninitialized", "Starting", "Running", "Paused", "Stopping"}

VARIABLES
  core,                   \* Core::GetState()
  symbolsLoaded,          \* !g_symbolDB.IsEmpty()
  compiled,               \* blocks in the JIT cache
  profiled,               \* blocks compiled with profiling that have run
  profiling,              \* JitInterface profiling state
  recordChecked,          \* m_record_btn->isChecked()
  buttonsEnabled,         \* m_include_btn / m_exclude_btn enabled
  m_failed_requirements,
  m_include,              \* Seq(Diffs)
  m_exclude,              \* Seq(Diffs)
  m_include_active,
  table,                  \* rows of m_matching_results_table
  candidate,              \* history: symbols in every include recording and no other
  included                \* history: an include recording has built m_include

vars == <<core, symbolsLoaded, compiled, profiled, profiling, recordChecked,
          buttonsEnabled, m_failed_requirements, m_include, m_exclude,
          m_include_active, table, candidate, included>>

dialog == <<recordChecked, buttonsEnabled, m_failed_requirements, m_include,
            m_exclude, m_include_active, table>>

-----------------------------------------------------------------------------
(* Helpers                                                                 *)

BySymbol(d1, d2) == d1.symbol < d2.symbol

SymbolsOf(s) == {s[i].symbol : i \in DOMAIN s}

\* CalculateSymbolsFromProfile: the profiled blocks in address order, one
\* Diff per symbol holding its first block, sorted by symbol.
CalculateSymbolsFromProfile ==
  LET syms == {SymbolOf[b] : b \in profiled}
      first(s) == CHOOSE b \in profiled :
                    SymbolOf[b] = s /\ \A c \in profiled : SymbolOf[c] = s => b <= c
  IN  SetToSortSeq({[symbol |-> s, addr |-> first(s)] : s \in syms}, BySymbol)

\* Mutant: a recorded Diff matches only with both symbol and address equal.
MatchesBoth(d, e) == d.symbol = e.symbol /\ d.addr = e.addr

Matches(d, e) == d.symbol = e.symbol \/ d.addr = e.addr

\* RemoveMissingSymbolsFromIncludes: keep the includes some recorded Diff
\* matches by symbol or address (their hit counts are then updated).
RemoveMissingSymbolsFromIncludes(inc, diff) ==
  SelectSeq(inc, LAMBDA v : \E j \in DOMAIN diff : Matches(diff[j], v))

\* RemoveMatchingSymbolsFromIncludes: drop the includes some Diff matches.
RemoveMatchingSymbolsFromIncludes(inc, list) ==
  SelectSeq(inc, LAMBDA v : ~\E j \in DOMAIN list : Matches(list[j], v))

\* std::lower_bound by symbol: the first index whose symbol is not less.
LowerBound(s, sym) ==
  IF \E i \in DOMAIN s : ~(s[i].symbol < sym)
  THEN CHOOSE i \in DOMAIN s : ~(s[i].symbol < sym) /\ \A j \in 1 .. i - 1 : s[j].symbol < sym
  ELSE Len(s) + 1

\* OnExclude with only an exclude list: insert each recorded Diff whose
\* symbol is missing at its lower_bound position.
InsertExcluded(excl, d) ==
  LET pos == LowerBound(excl, d.symbol)
  IN  IF pos = Len(excl) + 1 \/ excl[pos].symbol # d.symbol
      THEN InsertAt(excl, pos, d) ELSE excl

MergeExcludes(excl, recorded) == FoldLeft(InsertExcluded, excl, recorded)

\* The rows Update writes: one per include, or the "No possible functions
\* left" row when the active include list has been emptied.
\* Mutant: the "No possible functions left" row whenever the list is empty.
TableRowsUnguarded(inc, active) ==
  IF inc = <<>> THEN <<NoneLeftRow>> ELSE inc

TableRows(inc, active) ==
  IF active /\ inc = <<>> THEN <<NoneLeftRow>> ELSE inc

-----------------------------------------------------------------------------
(* Handlers                                                                *)

\* OnRecord(enabled), entered from the toggled(enabled) signal, as the
\* values it leaves. On failed requirements it sets the flag and calls
\* setChecked(false); that emits toggled(false), and so re-enters OnRecord
\* to clear the flag, only if the button was checked.
OnRecord(enabled) ==
  IF m_failed_requirements
  THEN [failed |-> FALSE, checked |-> enabled, profiling |-> profiling,
        buttons |-> buttonsEnabled, clear |-> FALSE]
  ELSE IF core = "Uninitialized" \/ ~symbolsLoaded
  THEN [failed |-> ~enabled, checked |-> FALSE, profiling |-> profiling,
        buttons |-> buttonsEnabled, clear |-> FALSE]
  ELSE [failed |-> FALSE, checked |-> enabled, profiling |-> enabled,
        buttons |-> enabled, clear |-> TRUE]

\* ClearBlockCache: JitInterface::ClearCache(), with the Core paused around
\* it when it was Running; in the other states no block runs, and the
\* state is left alone.
ClearBlockCache ==
  /\ compiled' = {}
  /\ profiled' = {}

\* A click on the record button: it toggles, then OnRecord runs.
ClickRecord ==
  LET r == OnRecord(~recordChecked)
  IN  /\ m_failed_requirements' = r.failed
      /\ recordChecked' = r.checked
      /\ profiling' = r.profiling
      /\ buttonsEnabled' = r.buttons
      /\ IF r.clear THEN ClearBlockCache ELSE UNCHANGED <<compiled, profiled>>
      /\ UNCHANGED <<core, symbolsLoaded, m_include, m_exclude, m_include_active,
                     table, candidate, included>>

\* OnInclude as the new <<m_include, m_include_active>>.
OnInclude(recorded) ==
  IF recorded = <<>> THEN <<m_include, m_include_active>>
  ELSE IF m_include = <<>> /\ m_exclude = <<>> THEN <<recorded, TRUE>>
  ELSE IF m_include = <<>>
  THEN IF m_include_active THEN <<m_include, m_include_active>>
       ELSE <<RemoveMatchingSymbolsFromIncludes(recorded, m_exclude), TRUE>>
  ELSE <<RemoveMissingSymbolsFromIncludes(m_include, recorded), m_include_active>>

\* OnExclude as the new <<m_include, m_exclude>>.
OnExclude(recorded) ==
  IF m_include = <<>> /\ m_exclude = <<>> THEN <<m_include, recorded>>
  ELSE IF m_include = <<>> THEN <<m_include, MergeExcludes(m_exclude, recorded)>>
  ELSE <<RemoveMatchingSymbolsFromIncludes(m_include, recorded), m_exclude>>

\* History of the recordings: a symbol stays a candidate while it is in
\* every include recording and in no exclude recording.
Recorded(include, recorded) ==
  /\ candidate' = [s \in Symbols |-> candidate[s] /\
                     (s \in SymbolsOf(recorded) <=> include)]
  /\ included' = (included \/ (include /\ m_include' # <<>>))

\* Update(include): pause, OnInclude or OnExclude, rebuild the table,
\* JitInterface::ClearCache, resume.
Update(include) ==
  LET recorded == CalculateSymbolsFromProfile
      inc == OnInclude(recorded)
      exc == OnExclude(recorded)
  IN  /\ buttonsEnabled
      /\ IF include
         THEN /\ m_include' = inc[1] /\ m_include_active' = inc[2]
              /\ UNCHANGED m_exclude
         ELSE /\ m_include' = exc[1] /\ m_exclude' = exc[2]
              /\ UNCHANGED m_include_active
      /\ table' = TableRows(m_include', m_include_active')
      /\ compiled' = {} /\ profiled' = {}
      /\ Recorded(include, recorded)
      /\ UNCHANGED <<core, symbolsLoaded, profiling, recordChecked, buttonsEnabled,
                     m_failed_requirements>>

\* ClearData (Reset All, and reject() when the dialog closes): a checked
\* record button is toggled off, which runs OnRecord(false); then the JIT
\* cache, the table and both lists are cleared and profiling disabled.
ClearData ==
  LET r == OnRecord(FALSE)
  IN  /\ m_failed_requirements' = IF recordChecked THEN r.failed ELSE m_failed_requirements
      /\ recordChecked' = FALSE
      /\ ClearBlockCache
      /\ table' = <<>>
      /\ buttonsEnabled' = FALSE
      /\ m_include_active' = FALSE
      /\ m_include' = <<>> /\ m_exclude' = <<>>
      /\ profiling' = FALSE
      /\ candidate' = [s \in Symbols |-> TRUE]
      /\ included' = FALSE
      /\ UNCHANGED <<core, symbolsLoaded>>

\* OnDelete from the context menu on a row: erase that row of m_include
\* unless it is empty, and remove the row from the table.
OnDelete(row) ==
  /\ row \in 1 .. Len(table)
  /\ m_include' = IF m_include # <<>> THEN RemoveAt(m_include, row) ELSE m_include
  /\ table' = RemoveAt(table, row)
  /\ candidate' = [s \in Symbols |-> candidate[s] /\ ~(m_include # <<>> /\ m_include[row].symbol = s)]
  /\ UNCHANGED <<core, symbolsLoaded, compiled, profiled, profiling, recordChecked,
                 buttonsEnabled, m_failed_requirements, m_exclude, m_include_active, included>>

-----------------------------------------------------------------------------
(* The rest of the emulator (outside this file)                            *)

\* The CPU thread runs a block: the JIT compiles it on first use, with
\* profiling code if profiling is on; a profiled block's run is recorded.
RunBlock(b) ==
  /\ core = "Running"
  /\ compiled' = compiled \cup {b}
  /\ profiled' = IF b \in compiled THEN profiled
                 ELSE IF profiling THEN profiled \cup {b} ELSE profiled
  /\ UNCHANGED <<core, symbolsLoaded, profiling, dialog, candidate, included>>

\* BootManager hands the game to the emulation thread, which reports
\* Starting until the CPU thread runs.
StartEmulation ==
  /\ core = "Uninitialized"
  /\ core' = "Starting"
  /\ UNCHANGED <<symbolsLoaded, compiled, profiled, profiling, dialog, candidate, included>>

CoreStarted ==
  /\ core = "Starting"
  /\ core' = "Running"
  /\ UNCHANGED <<symbolsLoaded, compiled, profiled, profiling, dialog, candidate, included>>

\* Core::Stop: the state is Stopping until the emulation thread has shut
\* the JIT down with its block cache.
StopEmulation ==
  /\ core \in {"Starting", "Running", "Paused"}
  /\ core' = "Stopping"
  /\ UNCHANGED <<symbolsLoaded, compiled, profiled, profiling, dialog, candidate, included>>

CoreStopped ==
  /\ core = "Stopping"
  /\ core' = "Uninitialized"
  /\ compiled' = {} /\ profiled' = {}
  /\ UNCHANGED <<symbolsLoaded, profiling, dialog, candidate, included>>

TogglePause ==
  /\ core \in {"Running", "Paused"}
  /\ core' = IF core = "Running" THEN "Paused" ELSE "Running"
  /\ UNCHANGED <<symbolsLoaded, compiled, profiled, profiling, dialog, candidate, included>>

LoadSymbols ==
  /\ ~symbolsLoaded
  /\ symbolsLoaded' = TRUE
  /\ UNCHANGED <<core, compiled, profiled, profiling, dialog, candidate, included>>

-----------------------------------------------------------------------------

\* The constructor: CreateWidgets disables both list buttons; the lists
\* are empty and nothing is recorded.
Init ==
  /\ core = "Uninitialized"
  /\ symbolsLoaded = FALSE
  /\ compiled = {} /\ profiled = {}
  /\ profiling = FALSE
  /\ recordChecked = FALSE
  /\ buttonsEnabled = FALSE
  /\ m_failed_requirements = FALSE
  /\ m_include = <<>> /\ m_exclude = <<>>
  /\ m_include_active = FALSE
  /\ table = <<>>
  /\ candidate = [s \in Symbols |-> TRUE]
  /\ included = FALSE

Next ==
  \/ ClickRecord
  \/ Update(TRUE)
  \/ Update(FALSE)
  \/ ClearData
  \/ \E row \in 1 .. Len(table) : OnDelete(row)
  \/ \E b \in Blocks : RunBlock(b)
  \/ StartEmulation
  \/ CoreStarted
  \/ StopEmulation
  \/ CoreStopped
  \/ TogglePause
  \/ LoadSymbols

Spec == Init /\ [][Next]_vars

-----------------------------------------------------------------------------
(* Properties                                                              *)

TypeOK ==
  /\ core \in CoreStates
  /\ symbolsLoaded \in BOOLEAN
  /\ profiled \subseteq compiled /\ compiled \subseteq Blocks
  /\ {profiling, recordChecked, buttonsEnabled, m_failed_requirements,
      m_include_active, included} \subseteq BOOLEAN
  /\ m_include \in Seq(Diffs) /\ m_exclude \in Seq(Diffs)
  /\ table \in Seq(Diffs \cup {NoneLeftRow})
  /\ candidate \in [Symbols -> BOOLEAN]

\* OnDelete erases the clicked row's index from m_include, which is right
\* only while the table lists m_include in order: Update, OnDelete and
\* ClearData keep the table's function rows equal to m_include, with the
\* "No possible functions left" row only when the active list is empty.
TableMirrorsInclude ==
  /\ SelectSeq(table, LAMBDA r : r # NoneLeftRow) = m_include
  /\ (\E i \in DOMAIN table : table[i] = NoneLeftRow) => m_include_active /\ m_include = <<>>

\* The tool never loses the function being searched for: once an include
\* recording has built the list, a symbol that was in every include
\* recording, in no exclude recording and never deleted since the last
\* Reset is still on m_include, whatever the order of recordings, emulation
\* stops and the addresses of the blocks that recorded it.
CandidateKept ==
  included => \A s \in Symbols : candidate[s] => s \in SymbolsOf(m_include)

\* The record button, the JIT profiling state and the include/exclude
\* buttons agree: the buttons are enabled, and blocks profiled, exactly
\* while the button says recording (the help text: include and exclude
\* are clicked "while recording").
RecordingStateConsistent ==
  /\ buttonsEnabled = recordChecked
  /\ profiling = recordChecked

\* Once the include list has been emptied after having items, it is not
\* refilled until a Reset (the comment in OnInclude; Update then shows "No
\* possible functions left. Reset.").
ExhaustedIncludeStaysEmpty ==
  [][(m_include_active /\ m_include = <<>>) =>
       (m_include' = <<>> \/ ~m_include_active')]_vars


=============================================================================

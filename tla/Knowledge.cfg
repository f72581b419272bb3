\* Bounds: MCKnowledge names the scenarios; requests, changes of a save, files,
\* ticks and faults are counted, so a behaviour comes to rest: no deadlock check.
SPECIFICATION AgendaSpec
CONSTANTS
    Jobs = {j1, j2}
    Resumes = {r1, r2}
    Items = {anna, boris, clara, day}
    People = {anna, boris, clara}
    Dates = {day}
    Types = {kin, friend}
    Tags = {red, blue}
    Names = {n1, n2}
    Contents = {c1, c2}
    Retention = 1
    BatchSize = 1
    Scenarios <- MCScenarios
    Years <- MCYears
    Week = 3
    Ticks = 4
    Events = {e1}
    Annual <- MCAnnual
    Zones <- MCZones
    HomeZone <- Fixed
    Drafts <- MCDrafts
    Windows <- MCWindows
    References <- MCReferences
INVARIANTS
    AgendaTypeOK
    UsedPresent
    NoLeak
    LinksSound
    LoneRequestServed
    AgendaComplete
    CalendarsAgree
    ResendKeepsAgenda
PROPERTIES
    OrphanPruned
    TouchedWhenChanged
CHECK_DEADLOCK FALSE

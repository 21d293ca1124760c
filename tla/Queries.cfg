CONSTANT Databases <- MCDatabases
CONSTANT Args <- MCArgs
CONSTANT Unit = 12
SPECIFICATION Spec
INVARIANT WalksComplete
INVARIANT StructureExact
INVARIANT CommunitiesSound
INVARIANT ContextSound
INVARIANT ReviewSound
INVARIANT SearchSound
INVARIANT EvidenceSound
INVARIANT CatalogueSound
INVARIANT SourcesSound
CHECK_DEADLOCK FALSE

SPECIFICATION MCSpec
CONSTANTS
  Page = {main, page_a, page_b, page_c}
  Main = main
  ExitCode = {5}
  MaxTid = 5
  page_a = page_a
  page_b = page_b
  page_c = page_c
  user_thread = user_thread
  name_a = name_a
  name_b = name_b
  long = long
  file_e = file_e
  file_f = file_f
  file_g = file_g
  NULL = NULL
INVARIANTS NoUseAfterFree WaitDelivers  TransferExact FilesOwned   PartitionsExact
PROPERTIES ImplementsStore DeniedNotWritten ArchiveExact
SYMMETRY Symmetric
CHECK_DEADLOCK FALSE

SPECIFICATION Spec
CONSTANTS
  Kinds = {"clickhouse", "otel", "arrow"}
  RowBytes = {500, 2000}
  MaxEvents = 5
  BatchMax = 3
  MaxFailures = 3
  FlushInterval = 500
  psch_otel_log_max_bytes = 2400
  psch_otel_log_batch_size = 2
  kMinBytesPerRecord = 1200
  kRequestOverheadBytes = 512
  kLogRecordOverheadBytes = 128
  NColumns = 3
  Dictionaries = {2}
  kIpcEnvelopeBytes = 1024
  kFixedBytesPerRow = 512
  kMinBlockBytes = 2500
  psch_otel_max_block_bytes = 3000
INVARIANTS ExportedNotAhead   BlocksSound RequestsSound
PROPERTY ImplementsDelivery

\* Books of four adapters on streams that lose events (the generic one on a stream that does
\* not), late and failing snapshots, sockets that end; and one order of two lots at each of six
\* venues, over a network that loses requests, answers and their meaning.
SPECIFICATION BothSpec
CONSTANTS
    Sides = {"books", "orders"}
    Ticks = 4
    MaxDepth = 2
    TruncateEvery = 2
    MaxPeel = 1
    CheckDepth = 2
    WalkDepth = 2
    Adapters = {"binance", "okx", "kraken", "generic"}
    Opening <- Deep
    MaxUpdates = 4
    Tasks = {t1, t2}
    BufferSize = 2
    Lossy = {"binance", "okx", "kraken"}
    Unreliable = TRUE
    Venues = {"binance", "okx", "kraken", "alpaca", "oanda", "generic"}
    Kinds = {"taker", "maker"}
    Lots = 2
    Retries = 2
INVARIANTS
  TradeableIsTrue
  SequenceIsTrue
  GivenUpIsAskedFor
  ReportedEndIsReal
  ReportedEndTellsTheFill
  RefusedLeftNothing
SYMMETRY Interchangeable
\* The venue's updates are bounded, and an order ends.
CHECK_DEADLOCK FALSE

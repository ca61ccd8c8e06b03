CONSTANTS
  None = None
  Tables <- MCTables
  ColType <- MCColType
  AllowedSchemas = {"public", "mdp_data", "mdp_staging"}
  Sortable = {"integer", "float", "date", "datetime"}
  Default = "ts"
  Payloads <- MCPayloads
  Updates <- MCUpdates
  Statements <- MCStatements
  Templates <- MCTemplates
  Overrides <- MCOverrides
  PageSize = 1
  Data <- MCData
  Inserts <- MCInserts
  MaxInserts = 1
SPECIFICATION Spec
INVARIANTS PlanIsTree OneRowPerKey SavedStaysReadable RoundTrips

SPECIFICATION Spec
CONSTANTS
  Schema <- MCSchema
  Abstract <- MCAbstract
  Collections <- MCCollections
  Foreign <- MCForeign
  Split <- MCSplit
  Inputs <- MCInputs
INVARIANTS ReferenceMeetsIdentity IdentityTellsApart StrictWhereAsked

SPECIFICATION Spec
CONSTANTS
  Schema <- MCSchema
  Abstract <- MCAbstract
  Collections <- MCCollections
  Foreign <- MCForeign
  Split <- MCSplit
  Inputs <- DescriptorInputs
INVARIANTS EachDescriptorReferredTo

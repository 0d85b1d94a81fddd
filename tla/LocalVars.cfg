SPECIFICATION Spec
CONSTANTS
  Names = {a, b, c}
  Hidden = {b, c}
  Plain = Plain
  MaxIndex = 6
  Calls <- TemplateCalls
  Texts <- TemplateTexts
INVARIANTS NoAlias NoLeak RenderExact
PROPERTIES KeepsSlot

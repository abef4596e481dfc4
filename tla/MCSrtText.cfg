SPECIFICATION Spec
CONSTANTS
  Texts <- AllTexts
  HtmlTexts <- HtmlCues
  MaxLines = 3
  MaxChars = 3
INVARIANTS
  SanitizeSound
  GlyphsKept
  WrapFits
CHECK_DEADLOCK FALSE
